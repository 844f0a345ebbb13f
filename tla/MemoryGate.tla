------------------------------ MODULE MemoryGate ------------------------------
(***************************************************************************)
(* The memory subgraph of one conversation thread (agent/memory/graph):    *)
(* memory_policy -> prepare_confirmation -> [request_confirmation ->       *)
(* apply_confirmation ->] profile_update, turn after turn, with the        *)
(* accounts service that owns the family's records.                        *)
(*                                                                         *)
(* The subgraph works on its own copy of the channels.  The parent graph   *)
(* sees what it wrote when it ends, and nothing of a turn that raised or   *)
(* that the user abandoned by sending a new message instead of an answer.  *)
(* Language models are nondeterministic choices: memory_policy returns any *)
(* list of OperationLists, the agent of profile_update calls any tool, or  *)
(* only the listed operations when Obedient, and stops when it likes, or   *)
(* only once every operation returned a result when Diligent.              *)
(*                                                                         *)
(* The family is known in every turn: load_context stores it or raises, so *)
(* that the early return of profile_update without a family id is out of   *)
(* reach.                                                                  *)
(***************************************************************************)
EXTENDS ConfirmPolicy, FiniteSets

CONSTANTS
  ChildIds,        \* the ids accounts can give children
  Member,          \* the requester, whose identity record is also kept
  NoChild,         \* target_child_id = None
  OperationLists,  \* the lists memory_policy may return
  StrayCalls,      \* calls a disobedient agent may make besides
  Resumes,         \* the resume values the frontend may send
  Obedient,        \* the agent calls only the operations it was given
  Diligent,        \* the agent stops only when each of them returned
  MaxIterations,   \* _MAX_ITERATIONS
  MaxBatch,        \* bound: tool calls in one reply of the agent
  MaxTurns         \* bound: turns of the thread

Targets  == ChildIds \cup {NoChild}
Record   == Arguments \cup {NoRecord}
Request  == [kind : {"save_child", "profile_update"}, target_child_id : Targets,
             child : Record, member : Record]
Decision == [approved : BOOLEAN, child : Record, member : Record]
Consent  == [granted : BOOLEAN, creating : BOOLEAN, child : Record, member : Record]
\* What landed, NoChild being the family as a whole; whether a create had
\* returned in the session by then, and the target the session began with.
Landed   == [tool : Tools, arguments : Arguments, who : Targets \cup {Member},
             created : BOOLEAN, aimed : Targets]
Outcome  == [status : {"none", "applied", "rejected", "error"}, operations : SUBSET Operation]

ASSUME MemoryGateAssumption ==
  /\ Member \notin Targets /\ NoChild \notin ChildIds
  /\ OperationLists \subseteq SUBSET Operation
  /\ \A ops \in OperationLists : Ordered(ops)
  /\ StrayCalls \subseteq Operation
  /\ NoRequest \notin Request /\ Malformed \notin Decision
  /\ {"reading_language", "grade"} \subseteq Keys /\ "English" \in Values
  /\ Resumes \subseteq Decision \cup {Malformed}
  /\ {Obedient, Diligent} \subseteq BOOLEAN
  /\ MaxIterations \in Nat \ {0} /\ {MaxBatch, MaxTurns} \subseteq Nat

VARIABLES
  \* accounts
  identity,     \* identity record of each child and of the member, or NoRecord
  \* channels of the parent graph
  thread,       \* [target_child_id, confirmation]
  \* channels of the subgraph
  pc,
  child_is_new, \* understanding.child_is_new
  has_signals,  \* understanding.user_signals is not empty
  target,       \* target_child_id
  memory_operations,
  confirmation_request,
  confirmation_decision,
  confirmation, \* [status, operations]
  \* locals of profile_update
  ctx_target,   \* DomainContext.target_child_id
  iterations,
  calls,        \* tool calls of the current reply still to run
  made_calls, stopped_cleanly, last_had_error,
  \* history of the current turn
  emitted,      \* the list memory_policy returned
  consent,      \* what the parent accepted, or NoConsent
  writes,       \* what landed in accounts
  returned,     \* the operations that returned a result to the agent
  before,       \* the identity records when the turn began
  outcome,      \* how the turn ended
  turns

loop_vars    == <<ctx_target, iterations, calls, made_calls, stopped_cleanly, last_had_error>>
channel_vars == <<child_is_new, has_signals, target, memory_operations, confirmation_request,
                  confirmation_decision, confirmation>>
history_vars == <<emitted, consent, writes, returned, before, turns>>
vars == <<identity, thread, pc, channel_vars, loop_vars, history_vars, outcome>>

NoConsent == [granted |-> FALSE, creating |-> FALSE, child |-> NoRecord, member |-> NoRecord]
NoOutcome == [status |-> "none", operations |-> {}]   \* confirmation = {}
Children  == {c \in ChildIds : identity[c] # NoRecord}
Known     == {c \in ChildIds : before[c] # NoRecord}  \* when the turn began

TypeOK ==
  /\ identity \in [ChildIds \cup {Member} -> Record]
  /\ thread \in [target_child_id : Targets, confirmation : Outcome]
  /\ pc \in {"idle", "memory_policy", "prepare_confirmation", "request_confirmation",
             "apply_confirmation", "profile_update", "agent", "tools", "refetch"}
  /\ child_is_new \in BOOLEAN /\ has_signals \in BOOLEAN
  /\ target \in Targets /\ ctx_target \in Targets
  /\ memory_operations \subseteq Operation /\ emitted \subseteq Operation
  /\ confirmation_request \in Request \cup {NoRequest}
  /\ confirmation_decision \in Decision \cup {Malformed}
  /\ confirmation \in Outcome
  /\ iterations \in 0..MaxIterations /\ calls \in 0..MaxBatch
  /\ made_calls \in BOOLEAN /\ stopped_cleanly \in BOOLEAN /\ last_had_error \in BOOLEAN
  /\ consent \in Consent
  /\ writes \subseteq Landed /\ returned \subseteq Operation
  /\ before \in [ChildIds \cup {Member} -> Record]
  /\ outcome \in {"none", "done", "failed"}
  /\ turns \in 0..MaxTurns

Init ==
  /\ identity \in {r \in [ChildIds \cup {Member} -> {NoRecord, [k \in {"display_name"} |-> "New child"]}] :
                     r[Member] # NoRecord}
  /\ thread = [target_child_id |-> NoChild, confirmation |-> NoOutcome]
  /\ pc = "idle"
  /\ child_is_new = FALSE /\ has_signals = FALSE
  /\ target = NoChild /\ ctx_target = NoChild
  /\ memory_operations = {} /\ emitted = {}
  /\ confirmation_request = NoRequest
  /\ confirmation_decision = Rejection
  /\ confirmation = NoOutcome
  /\ iterations = 0 /\ calls = 0
  /\ made_calls = FALSE /\ stopped_cleanly = FALSE /\ last_had_error = FALSE
  /\ consent = NoConsent
  /\ writes = {} /\ returned = {}
  /\ before = identity
  /\ outcome = "none"
  /\ turns = 0

-----------------------------------------------------------------------------
\* The locals of profile_update, fresh in every turn.
NewSession(t) ==
  /\ ctx_target' = t
  /\ iterations' = 0 /\ calls' = 0
  /\ made_calls' = FALSE /\ stopped_cleanly' = FALSE /\ last_had_error' = FALSE

(***************************************************************************)
(* A user message reaches the subgraph through load_context and            *)
(* understand, which set the target to a child on file or to None, and to  *)
(* None for a new child.  On a paused thread it abandons the open gate.    *)
(***************************************************************************)
StartTurn ==
  /\ pc \in {"idle", "request_confirmation"}
  /\ turns < MaxTurns
  /\ turns' = turns + 1
  /\ \E new, signals \in BOOLEAN, t \in Children \cup {NoChild} :
        /\ new => t = NoChild
        /\ child_is_new' = new
        /\ has_signals' = signals
        /\ target' = t
        /\ thread' = [thread EXCEPT !.target_child_id = t]
  /\ confirmation' = thread.confirmation
  /\ before' = identity
  /\ emitted' = {} /\ consent' = NoConsent /\ writes' = {} /\ returned' = {}
  /\ outcome' = "none"
  /\ pc' = "memory_policy"
  /\ NewSession(NoChild)
  /\ UNCHANGED <<identity, memory_operations, confirmation_request, confirmation_decision>>

\* A node that raises ends the turn; the parent's channels keep their values.
Fail ==
  /\ pc' = "idle"
  /\ outcome' = "failed"

\* memory_policy: nothing durable this turn, or the model's list, or its error.
MemoryPolicy ==
  /\ pc = "memory_policy"
  /\ \/ /\ \E ops \in (IF has_signals \/ child_is_new THEN OperationLists ELSE {{}}) :
             /\ memory_operations' = ops
             /\ emitted' = ops
        /\ pc' = "prepare_confirmation"
        /\ UNCHANGED outcome
     \/ /\ has_signals \/ child_is_new
        /\ Fail
        /\ UNCHANGED <<memory_operations, emitted>>
  /\ UNCHANGED <<identity, thread, child_is_new, has_signals, target, confirmation_request,
                 confirmation_decision, confirmation, loop_vars, consent, writes, returned,
                 before, turns>>

\* The outcome and the decision of an earlier turn are cleared.
ResetOutcome == confirmation_decision' = Rejection /\ confirmation' = NoOutcome

\* prepare_confirmation and route_after_prepare.
PrepareConfirmation ==
  /\ pc = "prepare_confirmation"
  /\ IF BuildRaises(memory_operations)
     THEN Fail /\ UNCHANGED <<confirmation_request, confirmation_decision, confirmation>>
     ELSE /\ confirmation_request' = BuildRequest(memory_operations, target)
          /\ ResetOutcome
          /\ pc' = IF confirmation_request' = NoRequest THEN "profile_update"
                   ELSE "request_confirmation"
          /\ UNCHANGED outcome
  /\ UNCHANGED <<identity, thread, child_is_new, has_signals, target, memory_operations,
                 loop_vars, history_vars>>

\* What a reply agrees to: the records the popup showed, or the edited ones.
ConsentTo(reply, request) ==
  [granted  |-> reply.approved,
   creating |-> request.kind = "save_child",
   child    |-> Chosen(reply.child, request.child),
   member   |-> Chosen(reply.member, request.member)]

\* request_confirmation resumes: the reply to the popup is stashed.
RequestConfirmation(resume) ==
  /\ pc = "request_confirmation"
  /\ confirmation_decision' = resume
  /\ consent' = ConsentTo(ReadDecision(resume), confirmation_request)
  /\ pc' = "apply_confirmation"
  /\ UNCHANGED <<identity, thread, child_is_new, has_signals, target, memory_operations,
                 confirmation_request, confirmation, loop_vars, emitted, writes, returned,
                 before, turns, outcome>>

\* apply_confirmation: the popup is rebuilt from the list, not read back.
ApplyConfirmation ==
  LET request  == BuildRequest(memory_operations, target)
      decision == ReadDecision(confirmation_decision)
      applied  == Applied(decision, memory_operations, request)
  IN
  /\ pc = "apply_confirmation"
  /\ IF decision.approved
     THEN /\ memory_operations' = Ungated(memory_operations) \cup applied
          /\ confirmation' = [status |-> "applied", operations |-> applied]
     ELSE /\ memory_operations' = Ungated(memory_operations)
          /\ confirmation' = [status |-> "rejected", operations |-> {}]
  /\ pc' = "profile_update"
  /\ UNCHANGED <<identity, thread, child_is_new, has_signals, target, confirmation_request,
                 confirmation_decision, loop_vars, history_vars, outcome>>

-----------------------------------------------------------------------------
\* The subgraph ends and the parent graph sees its channels.
Finish(conf, new_target) ==
  /\ confirmation' = conf
  /\ thread' = [target_child_id |-> new_target, confirmation |-> conf]
  /\ target' = new_target
  /\ outcome' = "done"
  /\ pc' = "idle"

\* profile_update returns at once without operations, else it opens a session.
ProfileUpdate ==
  /\ pc = "profile_update"
  /\ IF memory_operations = {}
     THEN Finish(confirmation, target) /\ UNCHANGED loop_vars
     ELSE /\ pc' = "agent"
          /\ NewSession(target)
          /\ UNCHANGED <<thread, target, confirmation, outcome>>
  /\ UNCHANGED <<identity, child_is_new, has_signals, memory_operations, confirmation_request,
                 confirmation_decision, history_vars>>

\* Mutant: replies of the agent are not counted.
NextIteration_uncounted == iterations < MaxIterations /\ UNCHANGED iterations

\* for _ in range(_MAX_ITERATIONS)
NextIteration == iterations < MaxIterations /\ iterations' = iterations + 1

\* One reply of the agent: tool calls, or none and the loop ends.
AgentReplies ==
  /\ pc = "agent"
  /\ NextIteration
  /\ \/ /\ Diligent => memory_operations \subseteq returned
        /\ stopped_cleanly' = TRUE
        /\ pc' = "refetch"
        /\ UNCHANGED <<calls, made_calls, last_had_error>>
     \/ /\ calls' \in 1..MaxBatch
        /\ made_calls' = TRUE
        /\ last_had_error' = FALSE
        /\ pc' = "tools"
        /\ UNCHANGED stopped_cleanly
  /\ UNCHANGED <<identity, thread, channel_vars, ctx_target, history_vars, outcome>>

\* The model call itself raises, or get_context does after the loop.
AgentRaises ==
  /\ pc \in {"agent", "refetch"}
  /\ pc = "agent" => iterations < MaxIterations
  /\ Fail
  /\ UNCHANGED <<identity, thread, channel_vars, loop_vars, history_vars>>

OutOfIterations ==
  /\ pc = "agent"
  /\ iterations = MaxIterations
  /\ pc' = "refetch"
  /\ UNCHANGED <<identity, thread, channel_vars, loop_vars, history_vars, outcome>>

\* Whose record a tool writes: a new child, the requester, the family, or the
\* target child, without which a tool about a child raises (require_child_id).
MemberTools == {"update_member_basic_info", "update_member_profile"}

\* Mutant: without a target child a tool takes any child on file.
Addressees_any_child(op) ==
  CASE op.tool = "create_child"                 -> ChildIds \ Children
    [] op.tool \in MemberTools                  -> {Member}
    [] op.tool = "add_family_member"            -> {NoChild}
    [] op.tool = "update_family_reading_policy" -> {ctx_target, NoChild}
    [] OTHER -> IF ctx_target = NoChild THEN Children ELSE {ctx_target}

\* A policy is the child's or, when told so or without a target, the family's.
Addressees(op) ==
  CASE op.tool = "create_child"                 -> ChildIds \ Children
    [] op.tool \in MemberTools                  -> {Member}
    [] op.tool = "add_family_member"            -> {NoChild}
    [] op.tool = "update_family_reading_policy" -> {ctx_target, NoChild}
    [] OTHER                                    -> {ctx_target} \ {NoChild}

\* Among the school facts of a child, the grade is a field of the record the
\* popup shows and confirms; no other soft tool changes such a field.
IdentityTools == ConfirmTools \cup {"update_school_information"}

SchoolGrade(args) == [k \in DOMAIN args \cap {"grade"} |-> args[k]]

\* Mutant: an update replaces the record.
Stored_overwrites(op, who) == op.arguments

\* The identity record after a call of one of these tools.
Stored(op, who) ==
  CASE op.tool = "create_child"              -> WithDefaults(op.arguments)
    [] op.tool = "update_school_information" -> Overlay(identity[who], SchoolGrade(op.arguments))
    [] OTHER                                 -> Overlay(identity[who], op.arguments)

\* Mutant: one call too many is run.
NextCall_off_by_one == calls' = calls - 1 /\ pc' = IF calls = 0 THEN "agent" ELSE "tools"

NextCall == calls' = calls - 1 /\ pc' = IF calls = 1 THEN "agent" ELSE "tools"

Callable == memory_operations \cup (IF Obedient THEN {} ELSE StrayCalls)

\* The tool's own schema refuses an argument of the wrong type.
WellTyped(op) == \A k \in DOMAIN op.arguments : op.arguments[k] # IllTyped

\* A tool call whose request accounts carries out.  When the reply is lost the
\* tool still raises, and a created child does not become the target.
ToolLands(op, who, reply_lost) ==
  /\ pc = "tools"
  /\ op \in Callable /\ WellTyped(op)
  /\ who \in Addressees(op)
  /\ identity' = IF op.tool \in IdentityTools
                 THEN [identity EXCEPT ![who] = Stored(op, who)] ELSE identity
  /\ writes' = writes \cup {[tool |-> op.tool, arguments |-> op.arguments, who |-> who,
                             created |-> Creates(returned), aimed |-> target]}
  /\ IF reply_lost
     THEN last_had_error' = TRUE /\ UNCHANGED <<ctx_target, returned>>
     ELSE /\ ctx_target' = IF op.tool = "create_child" THEN who ELSE ctx_target
          /\ returned' = returned \cup {op}
          /\ UNCHANGED last_had_error
  /\ NextCall
  /\ UNCHANGED <<thread, channel_vars, iterations, made_calls, stopped_cleanly, emitted,
                 consent, before, turns, outcome>>

\* A tool call that changes nothing: an unknown tool, no target child, bad
\* arguments, or an error of accounts.
ToolFails ==
  /\ pc = "tools"
  /\ last_had_error' = TRUE
  /\ NextCall
  /\ UNCHANGED <<identity, thread, channel_vars, ctx_target, iterations, made_calls,
                 stopped_cleanly, history_vars, outcome>>

\* Mutant: running out of iterations is not a failure.
WritesFailed_ignores_budget == made_calls /\ last_had_error

\* The tools ran, but the last batch had an error or the agent never stopped.
WritesFailed == made_calls /\ (last_had_error \/ ~stopped_cleanly)

\* The tail of profile_update: the outcome is downgraded when writes failed,
\* and a new target of the session becomes the turn's target.
Refetch ==
  /\ pc = "refetch"
  /\ Finish(IF WritesFailed /\ confirmation.status = "applied"
              THEN [confirmation EXCEPT !.status = "error"] ELSE confirmation,
            IF ctx_target # NoChild THEN ctx_target ELSE target)
  /\ UNCHANGED <<identity, child_is_new, has_signals, memory_operations, confirmation_request,
                 confirmation_decision, loop_vars, history_vars>>

-----------------------------------------------------------------------------
Node == \/ MemoryPolicy \/ PrepareConfirmation \/ ApplyConfirmation \/ ProfileUpdate
        \/ AgentReplies \/ AgentRaises \/ OutOfIterations \/ Refetch
        \/ \E op \in Callable, who \in Targets \cup {Member}, reply_lost \in BOOLEAN :
              ToolLands(op, who, reply_lost)
        \/ ToolFails

User == StartTurn \/ \E resume \in Resumes : RequestConfirmation(resume)

Next == Node \/ User

Spec == Init /\ [][Next]_vars

\* The runtime keeps running nodes; the parent need not ever answer or write.
FairSpec == Spec /\ WF_vars(Node)

-----------------------------------------------------------------------------
\* Whether the parent accepted this very operation: the record the popup showed
\* or the one they sent back, through the tool the popup announced.
Consented(op) ==
  /\ consent.granted
  /\ \/ /\ op.tool = "create_child" /\ consent.creating
        /\ consent.child # NoRecord /\ op.arguments = Named(consent.child)
     \/ /\ op.tool = "update_child_basic_info" /\ ~consent.creating
        /\ consent.child # NoRecord /\ op.arguments = consent.child
     \/ /\ op.tool = "update_member_basic_info"
        /\ consent.member # NoRecord /\ op.arguments = consent.member

\* The identity writes the parent agreed to in this turn, and whose records
\* they are about: a child to be created, the popup's child, or the requester.
Granted(tool, who, records) ==
  {[tool |-> tool, who |-> who, arguments |-> r] : r \in records}

GrantedWrites ==
  LET child  == {consent.child} \ {NoRecord}
      member == {consent.member} \ {NoRecord}
  IN  IF ~consent.granted THEN {}
      ELSE Granted("update_member_basic_info", Member, member)
             \cup (IF consent.creating
                   THEN Granted("create_child", NoChild, {Named(r) : r \in child})
                   ELSE Granted("update_child_basic_info", confirmation_request.target_child_id,
                                child))

\* That field k of this record is v is what the parent agreed to, for a new
\* child up to the defaults of create_child.
Agreed(who, k, v) ==
  \E w \in GrantedWrites :
     \/ w.who = who /\ k \in DOMAIN w.arguments /\ w.arguments[k] = v
     \/ /\ w.tool = "create_child" /\ who \in ChildIds \ Known
        /\ k \in DOMAIN WithDefaults(w.arguments) /\ WithDefaults(w.arguments)[k] = v

\* That the child's grade is v is a school fact of the policy's list.
SchoolFact(who, k, v) ==
  /\ who \in ChildIds /\ k = "grade"
  /\ \E o \in emitted : /\ o.tool = "update_school_information"
                        /\ k \in DOMAIN o.arguments /\ o.arguments[k] = v

(***************************************************************************)
(* In a turn, a child appears among the family's records only if the       *)
(* parent accepted a new one; no identity field vanishes; and a field is   *)
(* what it was before, or what the parent agreed to for this very child or *)
(* member, in the popup or in the form they sent back.  A rejection, a     *)
(* malformed reply, an abandoned popup and a turn without a popup change   *)
(* nothing of the kind (confirm_policy._CONFIRM_TOOLS, confirm.py).  The   *)
(* exception is in the code: a child's grade, though the popup shows it,   *)
(* also changes as a school fact, without one (update_school_information). *)
(* Holds of an Obedient agent: profile_update binds every tool, only its   *)
(* prompt limits it.                                                       *)
(***************************************************************************)
IdentityWritesConsented ==
  \A who \in ChildIds \cup {Member} : identity[who] # before[who] =>
     /\ before[who] = NoRecord => consent.granted /\ consent.creating
     /\ before[who] # NoRecord => DOMAIN before[who] \subseteq DOMAIN identity[who]
     /\ \A k \in DOMAIN identity[who] :
           \/ /\ before[who] # NoRecord /\ k \in DOMAIN before[who]
              /\ identity[who][k] = before[who][k]
           \/ Agreed(who, k, identity[who][k])
           \/ SchoolFact(who, k, identity[who][k])

(***************************************************************************)
(* A soft fact the policy emitted is never lost in the gate: it reaches    *)
(* profile_update, except when its list creates a child and the parent did *)
(* not accept it (classify, _apply_decision).                              *)
(***************************************************************************)
SoftFactsSurviveGate ==
  pc \in {"profile_update", "agent", "tools", "refetch"} =>
     \A o \in emitted : \/ o.tool \notin SoftTools
                        \/ o \in memory_operations
                        \/ Creates(emitted) /\ ~consent.granted

(***************************************************************************)
(* Which child a fact is filed under.  Once a create of the session has    *)
(* returned, facts go to a child that was not on file before the turn;     *)
(* until then, and when the create fails or its reply is lost, they go to  *)
(* the child the turn was about and to no other, and in a turn about a new *)
(* child to none at all (create_child sets the session's target,           *)
(* require_child_id raises without one).                                   *)
(***************************************************************************)
FactsFollowNewChild ==
  \A w \in writes : w.tool \in SoftTools /\ w.who \in ChildIds =>
     /\ IF w.created THEN w.who \notin Known ELSE w.who \in Known /\ w.who = w.aimed
     /\ child_is_new => w.created

(***************************************************************************)
(* When the turn ends with status "applied", every operation the parent    *)
(* was told is saved did land in accounts.  Holds of a Diligent agent, for *)
(* every pattern of failures, lost replies and exhausted iterations.       *)
(***************************************************************************)
AppliedMeansLanded ==
  outcome = "done" /\ thread.confirmation.status = "applied" =>
     \A o \in thread.confirmation.operations :
        \E w \in writes : w.tool = o.tool /\ w.arguments = o.arguments

(***************************************************************************)
(* The strengthening of these invariants that steps preserve, whatever the *)
(* agent calls.  SessionInv: the popup shown is the one the unchanged list *)
(* still builds when the reply is applied, nothing is granted or written   *)
(* before that, and afterwards the list itself holds no identity write     *)
(* that was not consented to, nor a fact that was not emitted.  Targets    *)
(* are children on file, so that an update always finds its record, and an *)
(* Obedient agent leaves the popup's child the target.                     *)
(***************************************************************************)
BeforeReply == {"memory_policy", "prepare_confirmation", "request_confirmation"}
BeforeWrite == BeforeReply \cup {"apply_confirmation", "profile_update"}
InSession   == {"profile_update", "agent", "tools"}

SessionInv ==
  /\ TypeOK
  /\ identity[Member] # NoRecord
  /\ Known \subseteq Children
  /\ {target, ctx_target} \subseteq Children \cup {NoChild}
  /\ pc = "tools" => calls > 0
  /\ pc \in BeforeReply => ~consent.granted
  /\ pc \in BeforeWrite => writes = {} /\ returned = {} /\ identity = before
  /\ pc \in {"prepare_confirmation", "request_confirmation", "apply_confirmation"} =>
        memory_operations \in OperationLists \cup {{}} /\ memory_operations = emitted
  /\ pc \in {"request_confirmation", "apply_confirmation"} =>
        /\ Gated(memory_operations) # {}
        /\ confirmation_request = BuildRequest(memory_operations, target)
  /\ pc = "apply_confirmation" =>
        consent = ConsentTo(ReadDecision(confirmation_decision), confirmation_request)
  /\ pc \in InSession =>
        /\ \A o \in memory_operations : IF o.tool \in ConfirmTools THEN Consented(o)
                                         ELSE o \in emitted
        /\ consent.granted => /\ confirmation_request # NoRequest
                              /\ confirmation_request.target_child_id = target
  /\ Obedient /\ pc \in {"agent", "tools"} /\ ~consent.creating => ctx_target = target

\* The list is the emitted one until the reply, and the session's target is the
\* turn's until a create returns, and then a child that was not there before.
FactsInv ==
  /\ SoftFactsSurviveGate
  /\ FactsFollowNewChild
  /\ pc # "idle" => target \in Known \cup {NoChild} /\ (child_is_new => target = NoChild)
  /\ pc \in {"agent", "tools"} =>
        IF Creates(returned) THEN ctx_target \in ChildIds \ Known ELSE ctx_target = target

\* What the parent is told is on the agent's list, what returned a result was
\* written, and the loop is left by a reply without calls, or after some calls.
LandedInv ==
  /\ Diligent => AppliedMeansLanded
  /\ \A o \in returned : \E w \in writes : w.tool = o.tool /\ w.arguments = o.arguments
  /\ pc \in {"profile_update", "agent", "tools", "refetch"} =>
        confirmation.operations \subseteq memory_operations
  /\ pc \in {"request_confirmation", "apply_confirmation"} => confirmation = NoOutcome
  /\ pc \in {"agent", "tools"} => ~stopped_cleanly /\ (made_calls \/ iterations = 0)
  /\ pc = "tools" => made_calls
  /\ pc = "refetch" => made_calls \/ stopped_cleanly
  /\ pc = "refetch" /\ stopped_cleanly /\ Diligent => memory_operations \subseteq returned

GateInv == SessionInv /\ FactsInv /\ LandedInv /\ IdentityWritesConsented

(***************************************************************************)
(* What the comment on writes_failed (profile_update) says: the parent is  *)
(* told a change is saved only if the agent ran at least one tool, stopped *)
(* on its own, and its last batch had no error.                            *)
(***************************************************************************)
AppliedMeansConfident ==
  outcome = "done" /\ memory_operations # {} /\ thread.confirmation.status = "applied" =>
     made_calls /\ stopped_cleanly /\ ~last_had_error

(***************************************************************************)
(* A turn always ends or waits for the parent: the tool loop of            *)
(* profile_update is bounded whatever the agent does.                      *)
(***************************************************************************)
TurnEnds == [](pc = "memory_policy" => <>(pc \in {"idle", "request_confirmation"}))

-----------------------------------------------------------------------------
(***************************************************************************)
(* The gate keeps the promise of ConfirmedWrites: seen through the records *)
(* of accounts and the parent's replies, the subgraph only makes granted   *)
(* identity writes, only while the grant stands, and only on the record    *)
(* the popup was about - but for the grade, which school facts change.     *)
(***************************************************************************)
Promise == INSTANCE ConfirmedWrites
             WITH granted <- GrantedWrites,
                  Grants  <- SUBSET [tool : ConfirmTools, arguments : Arguments,
                                     who : Targets \cup {Member}]
KeepsPromise == Promise!Spec
==============================================================================
