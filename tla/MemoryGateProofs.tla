--------------------------- MODULE MemoryGateProofs ---------------------------
(***************************************************************************)
(* Theorems about MemoryGate: its types and what becomes of facts, for     *)
(* every agent; what "saved" means, for a diligent one; and the promise of *)
(* the gate with the refinement of ConfirmedWrites, for an obedient one.   *)
(***************************************************************************)
EXTENDS MemoryGate, TLAPS

-----------------------------------------------------------------------------
\* Records: partial functions from argument names to values.

\* A function with argument names and values is a record.
LEMMA RecordIntro ==
  ASSUME NEW S \in SUBSET Keys, NEW f \in [S -> Values]
  PROVE  f \in Arguments
BY DEF Arguments

\* A record is a function on its domain, a set of argument names.
LEMMA RecordElim ==
  ASSUME NEW f \in Arguments
  PROVE  DOMAIN f \in SUBSET Keys /\ f \in [DOMAIN f -> Values]
BY DEF Arguments

\* Naming a child (the display name of _child_op) gives a record.
LEMMA NamedIsRecord ==
  ASSUME NEW record \in Arguments
  PROVE  Named(record) \in Arguments
<1>1. DOMAIN record \in SUBSET Keys /\ record \in [DOMAIN record -> Values]
  BY RecordElim
<1>2. CASE "display_name" \in DOMAIN record /\ record["display_name"] # Blank
  BY <1>2 DEF Named
<1>3. CASE ~("display_name" \in DOMAIN record /\ record["display_name"] # Blank)
  <2> DEFINE S == DOMAIN record \cup {"display_name"}
  <2>1. Named(record) =
          [k \in S |-> IF k # "display_name" THEN record[k]
                       ELSE IF "aliases" \in DOMAIN record THEN record["aliases"] ELSE "New child"]
    BY <1>3 DEF Named
  <2>2. "display_name" \in Keys /\ "New child" \in Values
    BY ConfirmPolicyAssumption
  <2>3. \A k \in S : (IF k # "display_name" THEN record[k]
                      ELSE IF "aliases" \in DOMAIN record THEN record["aliases"] ELSE "New child")
                     \in Values
    BY <1>1, <2>2
  <2>4. Named(record) \in [S -> Values]
    BY <2>1, <2>3
  <2>5. S \in SUBSET Keys
    BY <1>1, <2>2
  <2> QED BY <2>4, <2>5, RecordIntro
<1> QED BY <1>2, <1>3

\* Overlaying the provided fields gives a record.
LEMMA OverlayIsRecord ==
  ASSUME NEW old \in Arguments, NEW new \in Arguments
  PROVE  /\ Overlay(old, new) \in Arguments
         /\ DOMAIN Overlay(old, new) = DOMAIN old \cup Provided(new)
<1>1. DOMAIN old \in SUBSET Keys /\ old \in [DOMAIN old -> Values]
  BY RecordElim
<1>2. DOMAIN new \in SUBSET Keys /\ new \in [DOMAIN new -> Values]
  BY RecordElim
<1>3. Overlay(old, new) \in [DOMAIN old \cup Provided(new) -> Values]
  BY <1>1, <1>2 DEF Overlay, Provided
<1>4. DOMAIN old \cup Provided(new) \in SUBSET Keys
  BY <1>1, <1>2 DEF Provided
<1> QED BY <1>3, <1>4, RecordIntro

\* The defaults of create_child give a record ...
LEMMA WithDefaultsIsRecord ==
  ASSUME NEW record \in Arguments
  PROVE  WithDefaults(record) \in Arguments
<1>1. DOMAIN record \in SUBSET Keys /\ record \in [DOMAIN record -> Values]
  BY RecordElim
<1>2. CASE "reading_language" \in DOMAIN record
  BY <1>2 DEF WithDefaults
<1>3. CASE "reading_language" \notin DOMAIN record
  <2> DEFINE S == DOMAIN record \cup {"reading_language"}
  <2>1. WithDefaults(record) = [k \in S |-> IF k = "reading_language" THEN "English" ELSE record[k]]
    BY <1>3 DEF WithDefaults
  <2>2. "reading_language" \in Keys /\ "English" \in Values
    BY MemoryGateAssumption
  <2>3. WithDefaults(record) \in [S -> Values]
    BY <1>1, <2>1, <2>2
  <2>4. S \in SUBSET Keys
    BY <1>1, <2>2
  <2> QED BY <2>3, <2>4, RecordIntro
<1> QED BY <1>2, <1>3

\* ... and so does taking the grade out of school facts.
LEMMA SchoolGradeIsRecord ==
  ASSUME NEW record \in Arguments
  PROVE  SchoolGrade(record) \in Arguments
<1>1. DOMAIN record \in SUBSET Keys /\ record \in [DOMAIN record -> Values]
  BY RecordElim
<1>2. SchoolGrade(record) \in [DOMAIN record \cap {"grade"} -> Values]
  BY <1>1 DEF SchoolGrade
<1> QED BY <1>1, <1>2, RecordIntro

\* What _fold makes of a list of operations is a record.
LEMMA FoldIsRecord ==
  ASSUME NEW ops \in SUBSET Operation, Ordered(ops), NEW fields
  PROVE  Fold(ops, fields) \in Arguments
<1>1. ASSUME NEW k \in FoldedKeys(ops, fields)
      PROVE  Folded(ops, k) \in Values
  <2> DEFINE S == {o \in ops : k \in DOMAIN o.arguments}
  <2>1. S \in SUBSET ops /\ S # {}
    BY DEF FoldedKeys
  <2>2. PICK o \in S : \A p \in S : p.at <= o.at
    BY <2>1 DEF Ordered
  <2>3. Last(ops, k) \in ops /\ k \in DOMAIN Last(ops, k).arguments
    BY <2>2 DEF Last
  <2>4. Last(ops, k).arguments \in Arguments
    BY <2>3 DEF Operation
  <2>5. Last(ops, k).arguments[k] \in Values
    BY <2>3, <2>4, RecordElim
  <2> QED BY <2>5, ConfirmPolicyAssumption DEF Folded, CanonGender
<1> DEFINE D == {k \in FoldedKeys(ops, fields) :
                   Folded(ops, k) \notin (IF k = "aliases" THEN {None, NoAliases} ELSE {None})}
<1>2. D \in SUBSET Keys
  BY DEF FoldedKeys
<1>3. Fold(ops, fields) \in [D -> Values]
  BY <1>1 DEF Fold
<1> QED BY <1>2, <1>3, RecordIntro

\* The popup of _build_request, when there is one, is a well-formed request.
LEMMA RequestType ==
  ASSUME NEW ops \in SUBSET Operation, Ordered(ops), NEW t \in Targets
  PROVE  /\ BuildRequest(ops, t) \in Request \cup {NoRequest}
         /\ Gated(ops) # {} => BuildRequest(ops, t) \in Request
<1>1. ChildOps(ops) \in SUBSET ops /\ MemberOps(ops) \in SUBSET ops
  BY DEF ChildOps, MemberOps, Gated
<1>2. Ordered(ChildOps(ops)) /\ Ordered(MemberOps(ops))
  BY <1>1 DEF Ordered
<1>3. Fold(ChildOps(ops), ChildFields) \in Arguments
  BY <1>1, <1>2, FoldIsRecord
<1>4. Fold(MemberOps(ops), MemberFields) \in Arguments
  BY <1>1, <1>2, FoldIsRecord
<1> QED BY <1>3, <1>4 DEF BuildRequest, Request, Record
-----------------------------------------------------------------------------
\* Every list the gate handles can be folded.
LEMMA ListType ==
  ASSUME NEW ops \in OperationLists \cup {{}}
  PROVE  ops \in SUBSET Operation /\ Ordered(ops)
BY MemoryGateAssumption DEF Ordered

\* A reply is read as a decision, a malformed one as the rejection.
LEMMA DecisionType ==
  ASSUME NEW resume \in Decision \cup {Malformed}
  PROVE  ReadDecision(resume) \in Decision
BY DEF ReadDecision, Decision, Rejection, Record

\* The operations applied after an approval: well typed, and consented to.
LEMMA AppliedType ==
  ASSUME NEW ops \in SUBSET Operation, NEW d \in Decision, NEW request \in Request
  PROVE  Applied(d, ops, request) \in SUBSET Operation
<1> DEFINE child == Chosen(d.child, request.child)
           member == Chosen(d.member, request.member)
<1>1. child \in Record /\ member \in Record
  BY DEF Chosen, Decision, Request
<1>2. ASSUME NEW tool \in Tools, NEW args \in Arguments
      PROVE  Write(tool, args) \in Operation
  BY DEF Write, Operation
<1>3. ASSUME child # NoRecord, NEW creating
      PROVE  ChildOp(child, creating) \in SUBSET Operation
  <2>1. child \in Arguments /\ Named(child) \in Arguments
    BY <1>1, <1>3, NamedIsRecord DEF Record
  <2> QED BY <2>1, <1>2 DEF ChildOp, Tools, ConfirmTools
<1>4. ASSUME member # NoRecord
      PROVE  MemberOp(member) \in SUBSET Operation
  <2>1. member \in Arguments
    BY <1>1, <1>4 DEF Record
  <2> QED BY <2>1, <1>2 DEF MemberOp, Tools, ConfirmTools
<1>5. BundledSoft(ops) \in SUBSET Operation
  BY DEF BundledSoft, Gated
<1> QED BY <1>3, <1>4, <1>5 DEF Applied

\* Nothing is granted before the parent replies ...
LEMMA NoConsentType == NoConsent \in Consent /\ ~NoConsent.granted
BY DEF NoConsent, Consent, Record

\* ... and a reply to a popup grants the records shown, or the edited ones.
LEMMA ConsentType ==
  ASSUME NEW d \in Decision, NEW request \in Request
  PROVE  ConsentTo(d, request) \in Consent
BY DEF ConsentTo, Chosen, Decision, Request, Consent

\* The thread starts with the invariant.
LEMMA InitSession == Init => SessionInv
<1> SUFFICES ASSUME Init PROVE SessionInv
  OBVIOUS
<1>1. [k \in {"display_name"} |-> "New child"] \in Arguments
  <2>1. [k \in {"display_name"} |-> "New child"] \in [{"display_name"} -> Values]
    BY ConfirmPolicyAssumption
  <2>2. {"display_name"} \in SUBSET Keys
    BY ConfirmPolicyAssumption
  <2> QED BY <2>1, <2>2, RecordIntro
<1>2. identity \in [ChildIds \cup {Member} -> Record]
  BY <1>1 DEF Init, Record
<1>3. Rejection \in Decision
  BY DEF Rejection, Decision, Record
<1>4. NoOutcome \in Outcome
  BY DEF NoOutcome, Outcome
<1>5. thread \in [target_child_id : Targets, confirmation : Outcome]
  BY <1>4 DEF Init, Targets
<1>6. 0 \in 0..MaxIterations /\ 0 \in 0..MaxBatch /\ 0 \in 0..MaxTurns
  BY MemoryGateAssumption
<1>7. TypeOK
  BY <1>2, <1>3, <1>4, <1>5, <1>6, NoConsentType DEF Init, TypeOK, Targets
<1> QED BY <1>7 DEF Init, SessionInv, Known, Children, BeforeReply, BeforeWrite, InSession

-----------------------------------------------------------------------------
\* The invariant, one lemma per action.

LEMMA StartTurnStep == SessionInv /\ StartTurn => SessionInv'
<1> SUFFICES ASSUME SessionInv, StartTurn PROVE SessionInv'
  OBVIOUS
<1>1. PICK t \in Children \cup {NoChild} :
        target' = t /\ thread' = [thread EXCEPT !.target_child_id = t]
  BY DEF StartTurn
<1>2. t \in Targets
  BY DEF Children, Targets
<1>3. TypeOK'
  <2>1. thread' \in [target_child_id : Targets, confirmation : Outcome] /\ thread.confirmation \in Outcome
    BY <1>1, <1>2 DEF SessionInv, TypeOK
  <2>2. 0 \in 0..MaxIterations /\ 0 \in 0..MaxBatch /\ turns' \in 0..MaxTurns
    BY MemoryGateAssumption DEF StartTurn, SessionInv, TypeOK
  <2>3. Children \subseteq ChildIds /\ NoChild \in Targets
    BY DEF Children, Targets
  <2> QED BY <1>1, <1>2, <2>1, <2>2, <2>3, NoConsentType DEF StartTurn, SessionInv, TypeOK, NewSession
<1> QED BY <1>1, <1>3, NoConsentType
        DEF StartTurn, SessionInv, NewSession, Children, Known, BeforeReply, BeforeWrite, InSession

LEMMA MemoryPolicyStep == SessionInv /\ MemoryPolicy => SessionInv'
<1> SUFFICES ASSUME SessionInv, MemoryPolicy PROVE SessionInv'
  OBVIOUS
<1>1. CASE Fail
  BY <1>1 DEF MemoryPolicy, Fail, SessionInv, TypeOK, loop_vars, Children, Known, Consented, BeforeReply, BeforeWrite, InSession
<1>2. CASE pc' = "prepare_confirmation" /\ UNCHANGED outcome
  <2>1. memory_operations' \in OperationLists \cup {{}} /\ emitted' = memory_operations'
    BY <1>2 DEF MemoryPolicy, Fail
  <2>2. memory_operations' \in SUBSET Operation
    BY <2>1, MemoryGateAssumption
  <2> QED BY <1>2, <2>1, <2>2
          DEF MemoryPolicy, SessionInv, TypeOK, loop_vars, Children, Known, Consented, BeforeReply, BeforeWrite, InSession
<1> QED BY <1>1, <1>2 DEF MemoryPolicy

LEMMA PrepareConfirmationStep == SessionInv /\ PrepareConfirmation => SessionInv'
<1> SUFFICES ASSUME SessionInv, PrepareConfirmation PROVE SessionInv'
  OBVIOUS
<1>1. CASE Fail /\ UNCHANGED <<confirmation_request, confirmation_decision, confirmation>>
  BY <1>1 DEF PrepareConfirmation, Fail, SessionInv, TypeOK, Children, Known, history_vars,
              loop_vars, BeforeReply, BeforeWrite, InSession
<1>2. CASE ~BuildRaises(memory_operations)
  <2> DEFINE request == BuildRequest(memory_operations, target)
  <2>1. memory_operations \in OperationLists \cup {{}} /\ target \in Targets
    BY DEF PrepareConfirmation, SessionInv, TypeOK
  <2>2. request \in Request \cup {NoRequest} /\ (Gated(memory_operations) # {} => request \in Request)
    BY <2>1, ListType, RequestType
  <2>3. confirmation_request' = request /\ ResetOutcome /\ UNCHANGED outcome
        /\ pc' = IF request = NoRequest THEN "profile_update" ELSE "request_confirmation"
    BY <1>2 DEF PrepareConfirmation
  <2>4. Rejection \in Decision /\ NoOutcome \in Outcome
    BY DEF Rejection, Decision, Record, NoOutcome, Outcome
  <2>5. TypeOK'
    BY <2>2, <2>3, <2>4
    DEF PrepareConfirmation, SessionInv, TypeOK, ResetOutcome, history_vars, loop_vars
  <2>6. CASE request = NoRequest
    <3>1. Gated(memory_operations) = {}
      BY <2>2, <2>6, MemoryGateAssumption
    <3>2. \A o \in memory_operations : o.tool \notin ConfirmTools
      BY <3>1 DEF Gated, Creates
    <3> QED BY <2>3, <2>5, <2>6, <3>2
            DEF PrepareConfirmation, SessionInv, Children, Known, history_vars, loop_vars,
                BeforeReply, BeforeWrite, InSession
  <2>7. CASE request # NoRequest
    <3>1. Gated(memory_operations) # {}
      BY <2>7 DEF BuildRequest
    <3> QED BY <2>1, <2>3, <2>5, <2>7, <3>1
            DEF PrepareConfirmation, SessionInv, Children, Known, history_vars, loop_vars,
                BeforeReply, BeforeWrite, InSession
  <2> QED BY <2>6, <2>7
<1> QED BY <1>1, <1>2 DEF PrepareConfirmation

LEMMA RequestConfirmationStep ==
  ASSUME NEW resume \in Resumes, SessionInv, RequestConfirmation(resume)
  PROVE  SessionInv'
<1>1. resume \in Decision \cup {Malformed}
  BY MemoryGateAssumption
<1>2. confirmation_request \in Request
  BY ListType, RequestType DEF RequestConfirmation, SessionInv, TypeOK
<1>3. consent' \in Consent
  BY <1>1, <1>2, DecisionType, ConsentType DEF RequestConfirmation
<1>4. TypeOK'
  BY <1>1, <1>3 DEF RequestConfirmation, SessionInv, TypeOK, loop_vars
<1> QED BY <1>4 DEF RequestConfirmation, SessionInv, loop_vars, Children, Known,
                    BeforeReply, BeforeWrite, InSession

LEMMA ApplyConfirmationStep == SessionInv /\ ApplyConfirmation => SessionInv'
<1> SUFFICES ASSUME SessionInv, ApplyConfirmation PROVE SessionInv'
  OBVIOUS
<1> DEFINE request  == BuildRequest(memory_operations, target)
           decision == ReadDecision(confirmation_decision)
           applied  == Applied(decision, memory_operations, request)
<1>1. memory_operations \in SUBSET Operation /\ request \in Request
  BY ListType, RequestType DEF ApplyConfirmation, SessionInv, TypeOK
<1>2. decision \in Decision
  BY DecisionType DEF SessionInv, TypeOK
<1>3. applied \in SUBSET Operation
  BY <1>1, <1>2, AppliedType
<1>4. Ungated(memory_operations) \in SUBSET Operation
  BY <1>1 DEF Ungated
<1>5. \A o \in Ungated(memory_operations) : o.tool \notin ConfirmTools
  BY DEF Ungated, Gated
<1>6. consent = ConsentTo(decision, request)
  BY DEF ApplyConfirmation, SessionInv
<1>7. ASSUME decision.approved, NEW o \in applied, o.tool \in ConfirmTools
      PROVE  Consented(o)
  <2> DEFINE child == Chosen(decision.child, request.child)
             member == Chosen(decision.member, request.member)
  <2>1. /\ consent.granted /\ consent.child = child /\ consent.member = member
        /\ consent.creating <=> request.kind = "save_child"
    BY <1>6, <1>7 DEF ConsentTo
  <2>2. request.kind = "save_child" <=> Creates(memory_operations)
    BY DEF ApplyConfirmation, SessionInv, BuildRequest
  <2>3. o \notin BundledSoft(memory_operations)
    BY <1>7 DEF BundledSoft
  <2>4. CASE child # NoRecord /\ o \in ChildOp(child, Creates(memory_operations))
    BY <2>1, <2>2, <2>4 DEF ChildOp, Write, Consented
  <2>5. CASE member # NoRecord /\ o \in MemberOp(member)
    BY <2>1, <2>5 DEF MemberOp, Write, Consented
  <2> QED BY <1>7, <2>3, <2>4, <2>5 DEF Applied
<1>8. memory_operations' \in SUBSET Operation /\ confirmation' \in Outcome
  BY <1>3, <1>4 DEF ApplyConfirmation, Outcome
<1>9. ASSUME decision.approved, NEW o \in applied, o.tool \notin ConfirmTools
      PROVE  o \in memory_operations
  <2>1. o \in BundledSoft(memory_operations)
    BY <1>9 DEF Applied, ChildOp, MemberOp, Write, ConfirmTools
  <2> QED BY <2>1 DEF BundledSoft, Gated
<1>10. \A o \in memory_operations' : IF o.tool \in ConfirmTools THEN Consented(o) ELSE o \in emitted
  <2>1. memory_operations = emitted /\ Ungated(memory_operations) \subseteq memory_operations
    BY DEF ApplyConfirmation, SessionInv, Ungated
  <2> QED BY <1>5, <1>7, <1>9, <2>1 DEF ApplyConfirmation
<1>11. confirmation_request # NoRequest /\ confirmation_request.target_child_id = target
  <2>1. confirmation_request = request /\ request # NoRequest
    BY <1>1, MemoryGateAssumption DEF ApplyConfirmation, SessionInv
  <2> QED BY <2>1 DEF BuildRequest
<1>12. /\ UNCHANGED <<consent, emitted, writes, returned, identity, before>>
       /\ UNCHANGED <<target, ctx_target, calls, confirmation_request>>
       /\ pc = "apply_confirmation" /\ pc' = "profile_update"
  BY DEF ApplyConfirmation, loop_vars, history_vars
<1>13. TypeOK'
  BY <1>8, <1>12 DEF ApplyConfirmation, SessionInv, TypeOK, loop_vars, history_vars
<1> QED BY <1>10, <1>11, <1>12, <1>13
        DEF SessionInv, Children, Known, Consented, BeforeReply, BeforeWrite, InSession

LEMMA ProfileUpdateStep == SessionInv /\ ProfileUpdate => SessionInv'
<1> SUFFICES ASSUME SessionInv, ProfileUpdate PROVE SessionInv'
  OBVIOUS
<1>1. CASE memory_operations = {}
  <2>1. Finish(confirmation, target) /\ UNCHANGED loop_vars
    BY <1>1 DEF ProfileUpdate
  <2> QED BY <1>1, <2>1
          DEF ProfileUpdate, Finish, SessionInv, TypeOK, loop_vars, history_vars, Children, Known, Consented, BeforeReply, BeforeWrite, InSession
<1>2. CASE memory_operations # {}
  <2>1. /\ NewSession(target) /\ pc' = "agent"
        /\ UNCHANGED <<thread, target, confirmation, outcome>>
    BY <1>2 DEF ProfileUpdate
  <2>2. 0 \in 0..MaxIterations /\ 0 \in 0..MaxBatch
    BY MemoryGateAssumption
  <2> QED BY <2>1, <2>2
          DEF ProfileUpdate, NewSession, SessionInv, TypeOK, history_vars, Children, Known, Consented, BeforeReply, BeforeWrite, InSession
<1> QED BY <1>1, <1>2

LEMMA AgentRepliesStep == SessionInv /\ AgentReplies => SessionInv'
<1> SUFFICES ASSUME SessionInv, AgentReplies PROVE SessionInv'
  OBVIOUS
<1>1. iterations' \in 0..MaxIterations /\ calls' \in 0..MaxBatch
  BY MemoryGateAssumption DEF AgentReplies, NextIteration, SessionInv, TypeOK
<1>2. pc' = "tools" => calls' > 0
  BY MemoryGateAssumption DEF AgentReplies
<1>3. TypeOK'
  BY <1>1 DEF AgentReplies, SessionInv, TypeOK, channel_vars, history_vars
<1> QED BY <1>2, <1>3
        DEF AgentReplies, SessionInv, channel_vars, history_vars, Children, Known, Consented, BeforeReply, BeforeWrite, InSession

LEMMA AgentRaisesStep == SessionInv /\ AgentRaises => SessionInv'
BY DEF AgentRaises, Fail, SessionInv, TypeOK, channel_vars, loop_vars, history_vars, Children, Known, Consented, BeforeReply, BeforeWrite, InSession

LEMMA OutOfIterationsStep == SessionInv /\ OutOfIterations => SessionInv'
BY DEF OutOfIterations, SessionInv, TypeOK, channel_vars, loop_vars, history_vars, Children, Known, Consented, BeforeReply, BeforeWrite, InSession

LEMMA ToolFailsStep == SessionInv /\ ToolFails => SessionInv'
<1> SUFFICES ASSUME SessionInv, ToolFails PROVE SessionInv'
  OBVIOUS
<1>1. calls' \in 0..MaxBatch /\ (pc' = "tools" => calls' > 0) /\ pc' \in {"agent", "tools"}
  BY MemoryGateAssumption DEF ToolFails, NextCall, SessionInv, TypeOK
<1> QED BY <1>1 DEF ToolFails, SessionInv, TypeOK, channel_vars, history_vars, Children, Known, Consented, BeforeReply, BeforeWrite, InSession

LEMMA RefetchStep == SessionInv /\ Refetch => SessionInv'
<1> SUFFICES ASSUME SessionInv, Refetch PROVE SessionInv'
  OBVIOUS
<1>1. [confirmation EXCEPT !.status = "error"] \in Outcome
  BY DEF SessionInv, TypeOK, Outcome
<1>2. confirmation' \in Outcome
  BY <1>1 DEF Refetch, Finish, SessionInv, TypeOK
<1>3. target' \in Targets /\ target' \in Children \cup {NoChild}
  BY DEF Refetch, Finish, SessionInv, TypeOK
<1>4. thread' \in [target_child_id : Targets, confirmation : Outcome]
  BY <1>2, <1>3 DEF Refetch, Finish
<1>5. TypeOK'
  BY <1>2, <1>3, <1>4 DEF Refetch, Finish, SessionInv, TypeOK, loop_vars, history_vars
<1> QED BY <1>3, <1>5
        DEF Refetch, Finish, SessionInv, loop_vars, history_vars, Children, Known, Consented, BeforeReply, BeforeWrite, InSession

\* A call of an identity tool is about a record of the right kind.
LEMMA ToolLandsOnRecord ==
  ASSUME SessionInv, NEW op \in Callable, NEW who \in Targets \cup {Member},
         NEW reply_lost \in BOOLEAN, ToolLands(op, who, reply_lost), op.tool \in IdentityTools
  PROVE  /\ who \in ChildIds \cup {Member}
         /\ op.tool = "create_child" => who \in ChildIds /\ identity[who] = NoRecord
         /\ op.tool # "create_child" => identity[who] \in Arguments
         /\ op.tool = "update_member_basic_info" => who = Member
         /\ op.tool \in {"update_child_basic_info", "update_school_information"} =>
               who = ctx_target /\ who \in ChildIds
<1>1. op.tool \in {"create_child", "update_child_basic_info", "update_member_basic_info",
                   "update_school_information"}
  BY DEF IdentityTools, ConfirmTools
<1>2. who \in Addressees(op) /\ ctx_target \in Children \cup {NoChild}
  BY DEF ToolLands, SessionInv
<1>3. CASE op.tool = "create_child"
  BY <1>2, <1>3 DEF Addressees, MemberTools, Children
<1>4. CASE op.tool = "update_member_basic_info"
  BY <1>2, <1>4 DEF Addressees, MemberTools, SessionInv, TypeOK, Record
<1>5. CASE op.tool \in {"update_child_basic_info", "update_school_information"}
  <2>1. who = ctx_target /\ who # NoChild
    BY <1>2, <1>5 DEF Addressees, MemberTools
  <2>2. who \in ChildIds /\ identity[who] # NoRecord
    BY <1>2, <2>1 DEF Children
  <2>3. identity[who] \in Arguments
    BY <2>2 DEF SessionInv, TypeOK, Record
  <2> QED BY <1>5, <2>1, <2>2, <2>3
<1> QED BY <1>1, <1>3, <1>4, <1>5

\* A tool writes a record, and no child leaves the file.
LEMMA ToolLandsOnFile ==
  ASSUME SessionInv, NEW op \in Callable, NEW who \in Targets \cup {Member},
         NEW reply_lost \in BOOLEAN, ToolLands(op, who, reply_lost)
  PROVE  /\ op \in Operation
         /\ identity' \in [ChildIds \cup {Member} -> Record]
         /\ Children \subseteq Children'
         /\ op.tool = "create_child" => who \in Children'
         /\ identity'[Member] # NoRecord
<1>1. op \in Operation
  BY MemoryGateAssumption DEF Callable, SessionInv, TypeOK
<1>2. op.arguments \in Arguments
  BY <1>1 DEF Operation
<1>3. CASE op.tool \notin IdentityTools
  <2>1. identity' = identity /\ op.tool # "create_child"
    BY <1>3 DEF ToolLands, IdentityTools, ConfirmTools
  <2> QED BY <1>1, <2>1 DEF SessionInv, TypeOK, Children
<1>4. CASE op.tool \in IdentityTools
  <2>1. Stored(op, who) \in Arguments
    <3>1. CASE op.tool = "create_child"
      BY <1>2, <3>1, WithDefaultsIsRecord DEF Stored
    <3>2. CASE op.tool = "update_school_information"
      <4>1. identity[who] \in Arguments /\ SchoolGrade(op.arguments) \in Arguments
        BY <1>2, <1>4, <3>2, ToolLandsOnRecord, SchoolGradeIsRecord
      <4> QED BY <3>2, <4>1, OverlayIsRecord DEF Stored
    <3>3. CASE op.tool \notin {"create_child", "update_school_information"}
      <4>1. identity[who] \in Arguments
        BY <1>4, <3>3, ToolLandsOnRecord
      <4> QED BY <1>2, <3>3, <4>1, OverlayIsRecord DEF Stored
    <3> QED BY <3>1, <3>2, <3>3
  <2>2. who \in ChildIds \cup {Member} /\ identity' = [identity EXCEPT ![who] = Stored(op, who)]
    BY <1>4, ToolLandsOnRecord DEF ToolLands
  <2>3. Stored(op, who) # NoRecord
    BY <2>1, ConfirmPolicyAssumption
  <2>4. identity' \in [ChildIds \cup {Member} -> Record]
    BY <2>1, <2>2 DEF SessionInv, TypeOK, Record
  <2>5. Children \subseteq Children' /\ identity'[Member] # NoRecord
    BY <2>2, <2>3 DEF Children, SessionInv, TypeOK
  <2>6. op.tool = "create_child" => who \in Children'
    BY <1>4, <2>2, <2>3, ToolLandsOnRecord DEF Children, SessionInv, TypeOK
  <2> QED BY <1>1, <2>4, <2>5, <2>6
<1> QED BY <1>3, <1>4

LEMMA ToolLandsStep ==
  ASSUME SessionInv, NEW op \in Callable, NEW who \in Targets \cup {Member},
         NEW reply_lost \in BOOLEAN, ToolLands(op, who, reply_lost)
  PROVE  SessionInv'
<1>1. pc = "tools" /\ calls \in 0..MaxBatch /\ calls > 0
  BY DEF ToolLands, SessionInv, TypeOK
<1>2. calls' \in 0..MaxBatch /\ (pc' = "tools" => calls' > 0) /\ pc' \in {"agent", "tools"}
  BY <1>1, MemoryGateAssumption DEF ToolLands, NextCall
<1>3. /\ identity' \in [ChildIds \cup {Member} -> Record] /\ identity'[Member] # NoRecord
      /\ Children \subseteq Children'
      /\ op.tool = "create_child" => who \in Children'
      /\ op \in Operation
  BY ToolLandsOnFile
<1>4. ctx_target' \in Children' \cup {NoChild}
  BY <1>3 DEF ToolLands, SessionInv
<1>5. TypeOK'
  <2>1. ctx_target' \in Targets
    BY <1>4 DEF Children, Targets
  <2>2. writes' \subseteq Landed
    <3>1. Creates(returned) \in BOOLEAN /\ target \in Targets
      BY DEF Creates, SessionInv, TypeOK
    <3>2. [tool |-> op.tool, arguments |-> op.arguments, who |-> who,
           created |-> Creates(returned), aimed |-> target] \in Landed
      BY <1>3, <3>1 DEF Landed, Operation
    <3> QED BY <3>2 DEF ToolLands, SessionInv, TypeOK
  <2>3. returned' \subseteq Operation
    BY <1>3 DEF ToolLands, SessionInv, TypeOK
  <2>4. UNCHANGED <<thread, channel_vars, iterations, made_calls, stopped_cleanly, emitted,
                    consent, before, turns, outcome>>
    BY DEF ToolLands
  <2>5. last_had_error' \in BOOLEAN
    BY DEF ToolLands, SessionInv, TypeOK
  <2>6. TypeOK /\ identity' \in [ChildIds \cup {Member} -> Record]
    BY <1>3 DEF SessionInv
  <2> QED BY <1>2, <2>1, <2>2, <2>3, <2>4, <2>5, <2>6 DEF TypeOK, channel_vars
<1>6. UNCHANGED <<memory_operations, confirmation_request, target, emitted, consent, before>>
  BY DEF ToolLands, channel_vars
<1>7. /\ \A o \in memory_operations' : IF o.tool \in ConfirmTools THEN Consented(o)'
                                       ELSE o \in emitted'
      /\ consent'.granted => /\ confirmation_request' # NoRequest
                             /\ confirmation_request'.target_child_id = target'
  BY <1>1, <1>6 DEF SessionInv, InSession, Consented
<1>8. target' \in Children' \cup {NoChild} /\ (Known \subseteq Children)'
  BY <1>3, <1>6 DEF SessionInv, Known
\* Of an obedient agent, a create is the accepted one.
<1>9. Obedient /\ ~consent'.creating => ctx_target' = target'
  <2>1. Obedient /\ op.tool = "create_child" => consent.creating
    BY <1>1 DEF Callable, SessionInv, InSession, Consented, ConfirmTools
  <2> QED BY <1>1, <1>6, <2>1 DEF ToolLands, SessionInv
<1> QED BY <1>2, <1>3, <1>4, <1>5, <1>7, <1>8, <1>9
        DEF SessionInv, BeforeReply, BeforeWrite, InSession

LEMMA StutterStep == SessionInv /\ UNCHANGED vars => SessionInv'
BY DEF vars, SessionInv, TypeOK, channel_vars, loop_vars, history_vars, Children, Known, Consented, BeforeReply, BeforeWrite, InSession

LEMMA NextStep == SessionInv /\ [Next]_vars => SessionInv'
<1> SUFFICES ASSUME SessionInv, [Next]_vars PROVE SessionInv'
  OBVIOUS
<1>1. CASE StartTurn
  BY <1>1, StartTurnStep
<1>2. ASSUME NEW resume \in Resumes, RequestConfirmation(resume) PROVE SessionInv'
  BY <1>2, RequestConfirmationStep
<1>3. ASSUME NEW op \in Callable, NEW who \in Targets \cup {Member},
             NEW reply_lost \in BOOLEAN, ToolLands(op, who, reply_lost)
      PROVE  SessionInv'
  BY <1>3, ToolLandsStep
<1>4. CASE MemoryPolicy \/ PrepareConfirmation \/ ApplyConfirmation \/ ProfileUpdate
  BY <1>4, MemoryPolicyStep, PrepareConfirmationStep, ApplyConfirmationStep, ProfileUpdateStep
<1>5. CASE AgentReplies \/ AgentRaises \/ OutOfIterations \/ ToolFails \/ Refetch
  BY <1>5, AgentRepliesStep, AgentRaisesStep, OutOfIterationsStep, ToolFailsStep, RefetchStep
<1>6. CASE UNCHANGED vars
  BY <1>6, StutterStep
<1> QED BY <1>1, <1>2, <1>3, <1>4, <1>5, <1>6 DEF Next, Node, User

-----------------------------------------------------------------------------
\* The facts: what the gate hands on and where it lands.

LEMMA InitFacts == Init => FactsInv
BY DEF Init, FactsInv, SoftFactsSurviveGate, FactsFollowNewChild

LEMMA StartTurnFacts == SessionInv /\ FactsInv /\ StartTurn => FactsInv'
<1> SUFFICES ASSUME SessionInv, FactsInv, StartTurn PROVE FactsInv'
  OBVIOUS
<1>1. Known' = Children
  BY DEF StartTurn, Known, Children
<1>2. /\ pc' = "memory_policy" /\ writes' = {}
      /\ target' \in Children \cup {NoChild} /\ (child_is_new' => target' = NoChild)
  BY DEF StartTurn
<1> QED BY <1>1, <1>2 DEF FactsInv, SoftFactsSurviveGate, FactsFollowNewChild

\* The reply: only a create that was not accepted takes facts with it.
LEMMA ApplyConfirmationFacts == SessionInv /\ FactsInv /\ ApplyConfirmation => FactsInv'
<1> SUFFICES ASSUME SessionInv, FactsInv, ApplyConfirmation PROVE FactsInv'
  OBVIOUS
<1> DEFINE request  == BuildRequest(memory_operations, target)
           decision == ReadDecision(confirmation_decision)
<1>1. memory_operations = emitted /\ pc' = "profile_update"
  BY DEF ApplyConfirmation, SessionInv
<1>2. consent.granted = decision.approved
  BY DEF ApplyConfirmation, SessionInv, ConsentTo
<1>3. ASSUME NEW o \in emitted, o.tool \in SoftTools
      PROVE  o \in memory_operations' \/ (Creates(emitted) /\ ~consent.granted)
  <2>1. o.tool \notin ConfirmTools
    BY <1>3, ConfirmPolicyAssumption
  <2>2. CASE o \in Ungated(emitted)
    BY <1>1, <2>2 DEF ApplyConfirmation
  <2>3. CASE o \notin Ungated(emitted)
    <3>1. o \in Gated(emitted) /\ Creates(emitted)
      BY <1>3, <2>1, <2>3 DEF Ungated, Gated
    <3>2. o \in BundledSoft(emitted)
      BY <2>1, <3>1 DEF BundledSoft
    <3>3. CASE decision.approved
      BY <1>1, <3>2, <3>3 DEF ApplyConfirmation, Applied
    <3>4. CASE ~decision.approved
      BY <1>2, <3>1, <3>4
    <3> QED BY <3>3, <3>4
  <2> QED BY <2>2, <2>3
<1>4. SoftFactsSurviveGate'
  BY <1>3 DEF ApplyConfirmation, history_vars, SoftFactsSurviveGate
<1> QED BY <1>1, <1>4
        DEF ApplyConfirmation, history_vars, FactsInv, FactsFollowNewChild, Known

\* A fact about a child lands on the target of the session, and a create makes
\* a child that was not there.
LEMMA ToolLandsFacts ==
  ASSUME SessionInv, FactsInv, NEW op \in Callable, NEW who \in Targets \cup {Member},
         NEW reply_lost \in BOOLEAN, ToolLands(op, who, reply_lost)
  PROVE  FactsInv'
<1> DEFINE write == [tool |-> op.tool, arguments |-> op.arguments, who |-> who,
                     created |-> Creates(returned), aimed |-> target]
<1>1. /\ pc = "tools" /\ pc' \in {"agent", "tools"} /\ who \in Addressees(op)
      /\ writes' = writes \cup {write}
      /\ UNCHANGED <<memory_operations, target, child_is_new, emitted, consent, before>>
  BY DEF ToolLands, NextCall, channel_vars
<1>2. Known' = Known
  BY <1>1 DEF Known
<1>3. SoftFactsSurviveGate'
  BY <1>1 DEF FactsInv, SoftFactsSurviveGate
<1>4. op.tool \in SoftTools /\ who \in ChildIds => who = ctx_target
  <2>1. op.tool \in SoftTools => op.tool # "create_child"
    BY ConfirmPolicyAssumption DEF ConfirmTools
  <2> QED BY <1>1, <2>1, MemoryGateAssumption DEF Addressees, Targets
<1>5. op.tool \in SoftTools /\ who \in ChildIds =>
        /\ IF Creates(returned) THEN who \notin Known ELSE who \in Known /\ who = target
        /\ child_is_new => Creates(returned)
  BY <1>1, <1>4, MemoryGateAssumption DEF FactsInv
<1>6. FactsFollowNewChild'
  <2>1. /\ write.tool = op.tool /\ write.who = who /\ write.created = Creates(returned)
        /\ write.aimed = target
    OBVIOUS
  <2> HIDE DEF write
  <2> QED BY <1>1, <1>2, <1>5, <2>1 DEF FactsInv, FactsFollowNewChild
<1>7. IF Creates(returned') THEN ctx_target' \in ChildIds \ Known ELSE ctx_target' = target
  <2>1. IF Creates(returned) THEN ctx_target \in ChildIds \ Known ELSE ctx_target = target
    BY <1>1 DEF FactsInv
  <2>2. CASE UNCHANGED <<ctx_target, returned>>
    BY <2>1, <2>2
  <2>3. CASE returned' = returned \cup {op} /\ op.tool # "create_child" /\ ctx_target' = ctx_target
    BY <2>1, <2>3 DEF Creates
  <2>4. CASE returned' = returned \cup {op} /\ op.tool = "create_child" /\ ctx_target' = who
    <3>1. who \in ChildIds /\ who \notin Children
      BY <1>1, <2>4 DEF Addressees, MemberTools
    <3> QED BY <2>4, <3>1 DEF Creates, SessionInv
  <2> QED BY <2>2, <2>3, <2>4 DEF ToolLands
<1> QED BY <1>1, <1>2, <1>3, <1>6, <1>7 DEF FactsInv

LEMMA OtherFacts ==
  ASSUME SessionInv, FactsInv,
         \/ MemoryPolicy \/ PrepareConfirmation \/ ProfileUpdate \/ AgentReplies \/ AgentRaises
         \/ OutOfIterations \/ ToolFails \/ Refetch
         \/ \E resume \in Resumes : RequestConfirmation(resume)
         \/ UNCHANGED vars
  PROVE  FactsInv'
<1> USE DEF FactsInv, SoftFactsSurviveGate, FactsFollowNewChild, Known
<1>1. CASE MemoryPolicy
  <2>1. /\ pc = "memory_policy"
        /\ UNCHANGED <<target, child_is_new, ctx_target, before, writes, consent>>
    BY <1>1 DEF MemoryPolicy, loop_vars
  <2>2. CASE Fail
    <3>1. writes = {}
      BY <2>1 DEF SessionInv, BeforeReply, BeforeWrite
    <3> QED BY <2>1, <2>2, <3>1 DEF Fail
  <2>3. CASE pc' = "prepare_confirmation"
    <3>1. memory_operations' = emitted' /\ writes = {}
      BY <1>1, <2>1, <2>3 DEF MemoryPolicy, Fail, SessionInv, BeforeReply, BeforeWrite
    <3> QED BY <2>1, <2>3, <3>1
  <2> QED BY <1>1, <2>2, <2>3 DEF MemoryPolicy
<1>2. CASE PrepareConfirmation
  <2>1. pc = "prepare_confirmation" /\ memory_operations = emitted /\ writes = {}
        /\ UNCHANGED <<memory_operations, target, child_is_new, history_vars>>
    BY <1>2 DEF PrepareConfirmation, SessionInv, BeforeReply, BeforeWrite
  <2>2. pc' \in {"idle", "profile_update", "request_confirmation"}
    BY <1>2 DEF PrepareConfirmation, Fail
  <2> QED BY <2>1, <2>2 DEF history_vars
<1>3. CASE ProfileUpdate
  <2>1. CASE memory_operations = {}
    BY <1>3, <2>1 DEF ProfileUpdate, Finish, loop_vars, history_vars
  <2>2. CASE memory_operations # {}
    <3>1. pc' = "agent" /\ ctx_target' = target /\ target' = target
      BY <1>3, <2>2 DEF ProfileUpdate, NewSession
    <3>2. ~Creates(returned)
      BY <1>3 DEF ProfileUpdate, SessionInv, BeforeWrite, Creates
    <3> QED BY <1>3, <3>1, <3>2 DEF ProfileUpdate, history_vars
  <2> QED BY <2>1, <2>2
<1>4. CASE AgentReplies
  BY <1>4 DEF AgentReplies, channel_vars, history_vars
<1>5. CASE AgentRaises
  BY <1>5 DEF AgentRaises, Fail, channel_vars, loop_vars, history_vars
<1>6. CASE OutOfIterations
  BY <1>6 DEF OutOfIterations, channel_vars, loop_vars, history_vars
<1>7. CASE ToolFails
  BY <1>7 DEF ToolFails, NextCall, channel_vars, history_vars
<1>8. CASE Refetch
  BY <1>8 DEF Refetch, Finish, loop_vars, history_vars
<1>9. CASE \E resume \in Resumes : RequestConfirmation(resume)
  BY <1>9 DEF RequestConfirmation, loop_vars
<1>10. CASE UNCHANGED vars
  BY <1>10 DEF vars, channel_vars, loop_vars, history_vars
<1> QED BY <1>1, <1>2, <1>3, <1>4, <1>5, <1>6, <1>7, <1>8, <1>9, <1>10

-----------------------------------------------------------------------------
\* What the parent is told is saved, and what landed.

LEMMA InitLanded == Init => LandedInv
BY DEF Init, LandedInv, AppliedMeansLanded

\* Before the session nothing is told: the outcome of the last turn is of no
\* matter any more, or the turn ends without one.
LEMMA BeforeSessionLanded ==
  ASSUME SessionInv, LandedInv,
         \/ StartTurn \/ MemoryPolicy \/ PrepareConfirmation
         \/ \E resume \in Resumes : RequestConfirmation(resume)
  PROVE  LandedInv'
<1> USE DEF LandedInv, AppliedMeansLanded
<1>1. CASE StartTurn
  BY <1>1 DEF StartTurn, NewSession
<1>2. CASE MemoryPolicy
  BY <1>2 DEF MemoryPolicy, Fail, loop_vars
<1>3. CASE PrepareConfirmation
  <2>1. CASE Fail /\ UNCHANGED <<confirmation_request, confirmation_decision, confirmation>>
    BY <1>3, <2>1 DEF PrepareConfirmation, Fail, loop_vars, history_vars
  <2>2. CASE ResetOutcome /\ pc' \in {"profile_update", "request_confirmation"} /\ UNCHANGED outcome
    BY <1>3, <2>2 DEF PrepareConfirmation, ResetOutcome, NoOutcome, loop_vars, history_vars
  <2> QED BY <1>3, <2>1, <2>2 DEF PrepareConfirmation
<1>4. CASE \E resume \in Resumes : RequestConfirmation(resume)
  BY <1>4 DEF RequestConfirmation, loop_vars
<1> QED BY <1>1, <1>2, <1>3, <1>4

\* The reply puts on the list whatever it says is applied.
LEMMA ApplyConfirmationLanded == SessionInv /\ LandedInv /\ ApplyConfirmation => LandedInv'
<1> SUFFICES ASSUME SessionInv, LandedInv, ApplyConfirmation PROVE LandedInv'
  OBVIOUS
<1>1. confirmation'.operations \subseteq memory_operations' /\ pc' = "profile_update"
  BY DEF ApplyConfirmation
<1>2. UNCHANGED <<thread, outcome, loop_vars, history_vars>>
  BY DEF ApplyConfirmation
<1> QED BY <1>1, <1>2 DEF LandedInv, AppliedMeansLanded, loop_vars, history_vars

\* Without operations nothing was applied.
LEMMA ProfileUpdateLanded == SessionInv /\ LandedInv /\ ProfileUpdate => LandedInv'
<1> SUFFICES ASSUME SessionInv, LandedInv, ProfileUpdate PROVE LandedInv'
  OBVIOUS
<1>1. pc = "profile_update" /\ UNCHANGED <<memory_operations, writes, returned>>
  BY DEF ProfileUpdate, history_vars
<1>2. CASE memory_operations = {}
  <2>1. Finish(confirmation, target)
    BY <1>2 DEF ProfileUpdate
  <2>2. confirmation.operations = {}
    BY <1>1, <1>2 DEF LandedInv
  <2>3. AppliedMeansLanded'
    BY <2>1, <2>2 DEF Finish, AppliedMeansLanded
  <2> QED BY <1>1, <2>1, <2>3 DEF Finish, LandedInv
<1>3. CASE memory_operations # {}
  BY <1>1, <1>3 DEF ProfileUpdate, NewSession, LandedInv, AppliedMeansLanded
<1> QED BY <1>2, <1>3

\* The loop: a diligent agent stops only when all has returned, and the loop
\* gives up only after it has made some calls.
LEMMA LoopLanded ==
  ASSUME SessionInv, LandedInv,
         AgentReplies \/ AgentRaises \/ OutOfIterations \/ ToolFails \/ UNCHANGED vars
  PROVE  LandedInv'
<1> USE DEF LandedInv, AppliedMeansLanded
<1>1. CASE AgentReplies
  BY <1>1 DEF AgentReplies, channel_vars, history_vars
<1>2. CASE AgentRaises
  BY <1>2 DEF AgentRaises, Fail, channel_vars, loop_vars, history_vars
<1>3. CASE OutOfIterations
  <2>1. MaxIterations # 0
    BY MemoryGateAssumption
  <2> QED BY <1>3, <2>1 DEF OutOfIterations, channel_vars, loop_vars, history_vars
<1>4. CASE ToolFails
  BY <1>4 DEF ToolFails, NextCall, channel_vars, history_vars
<1>5. CASE UNCHANGED vars
  BY <1>5 DEF vars, channel_vars, loop_vars, history_vars
<1> QED BY <1>1, <1>2, <1>3, <1>4, <1>5

LEMMA ToolLandsLanded ==
  ASSUME SessionInv, LandedInv, NEW op \in Callable, NEW who \in Targets \cup {Member},
         NEW reply_lost \in BOOLEAN, ToolLands(op, who, reply_lost)
  PROVE  LandedInv'
<1> DEFINE write == [tool |-> op.tool, arguments |-> op.arguments, who |-> who,
                     created |-> Creates(returned), aimed |-> target]
<1>1. /\ pc = "tools" /\ pc' \in {"agent", "tools"}
      /\ writes' = writes \cup {write} /\ returned' \subseteq returned \cup {op}
      /\ UNCHANGED <<thread, outcome, memory_operations, confirmation, stopped_cleanly, made_calls,
                     iterations>>
  BY DEF ToolLands, NextCall, channel_vars
<1>2. write.tool = op.tool /\ write.arguments = op.arguments
  OBVIOUS
<1> HIDE DEF write
<1>3. \A o \in returned' : \E w \in writes' : w.tool = o.tool /\ w.arguments = o.arguments
  BY <1>1, <1>2 DEF LandedInv
<1>4. Diligent => AppliedMeansLanded'
  BY <1>1 DEF LandedInv, AppliedMeansLanded
<1> QED BY <1>1, <1>3, <1>4 DEF LandedInv

\* The end: "applied" survives only a loop that stopped cleanly.
LEMMA RefetchLanded == SessionInv /\ LandedInv /\ Refetch => LandedInv'
<1> SUFFICES ASSUME SessionInv, LandedInv, Refetch PROVE LandedInv'
  OBVIOUS
<1>1. /\ pc = "refetch" /\ pc' = "idle"
      /\ UNCHANGED <<memory_operations, returned, writes, made_calls, stopped_cleanly>>
      /\ thread'.confirmation = IF WritesFailed /\ confirmation.status = "applied"
                                THEN [confirmation EXCEPT !.status = "error"] ELSE confirmation
  BY DEF Refetch, Finish, loop_vars, history_vars
<1>2. confirmation \in Outcome
  BY DEF SessionInv, TypeOK
<1>3. ASSUME Diligent, thread'.confirmation.status = "applied"
      PROVE  AppliedMeansLanded'
  <2>1. ~WritesFailed /\ thread'.confirmation = confirmation
    BY <1>1, <1>2, <1>3 DEF Outcome
  <2>2. stopped_cleanly
    BY <1>1, <2>1 DEF WritesFailed, LandedInv
  <2>3. confirmation.operations \subseteq returned
    BY <1>1, <1>3, <2>2 DEF LandedInv
  <2> QED BY <1>1, <2>1, <2>3 DEF LandedInv, AppliedMeansLanded
<1>4. Diligent => AppliedMeansLanded'
  BY <1>3 DEF AppliedMeansLanded
<1> QED BY <1>1, <1>4 DEF LandedInv

-----------------------------------------------------------------------------
(***************************************************************************)
(* The popup, the list and the targets stay consistent for every set of    *)
(* children, lists, replies and bounds, whatever the agent calls.          *)
(***************************************************************************)
THEOREM SessionInvariance == Spec => []SessionInv
<1>1. SessionInv /\ [Next]_vars => SessionInv'
  BY NextStep
<1> QED BY InitSession, <1>1, PTL DEF Spec

\* The channels, the loop's locals and the family's records keep their types.
THEOREM GateTypes == Spec => []TypeOK
<1>1. SessionInv => TypeOK
  BY DEF SessionInv
<1> QED BY <1>1, SessionInvariance, PTL

LEMMA NextFacts == SessionInv /\ FactsInv /\ [Next]_vars => FactsInv'
<1> SUFFICES ASSUME SessionInv, FactsInv, [Next]_vars PROVE FactsInv'
  OBVIOUS
<1>1. ASSUME NEW op \in Callable, NEW who \in Targets \cup {Member},
             NEW reply_lost \in BOOLEAN, ToolLands(op, who, reply_lost)
      PROVE  FactsInv'
  BY <1>1, ToolLandsFacts
<1>2. CASE StartTurn \/ ApplyConfirmation
  BY <1>2, StartTurnFacts, ApplyConfirmationFacts
<1> QED BY <1>1, <1>2, OtherFacts DEF Next, Node, User

THEOREM FactsInvariance == Spec => []FactsInv
<1>1. SessionInv /\ FactsInv /\ [Next]_vars => FactsInv'
  BY NextFacts
<1> QED BY InitFacts, <1>1, SessionInvariance, PTL DEF Spec

(***************************************************************************)
(* No soft fact is lost in the gate but with a create the parent did not   *)
(* accept, whatever the list, the reply and the agent are.                 *)
(***************************************************************************)
THEOREM FactsSurvive == Spec => []SoftFactsSurviveGate
<1>1. FactsInv => SoftFactsSurviveGate
  BY DEF FactsInv
<1> QED BY <1>1, FactsInvariance, PTL

(***************************************************************************)
(* A fact about a child lands on the child the turn is about until a       *)
(* create returns, and from then on only on a child that was not on file   *)
(* before the turn, whatever the agent calls and whichever calls fail.     *)
(***************************************************************************)
THEOREM FactsLandOnNewChild == Spec => []FactsFollowNewChild
<1>1. FactsInv => FactsFollowNewChild
  BY DEF FactsInv
<1> QED BY <1>1, FactsInvariance, PTL

LEMMA NextLanded == SessionInv /\ LandedInv /\ [Next]_vars => LandedInv'
<1> SUFFICES ASSUME SessionInv, LandedInv, [Next]_vars PROVE LandedInv'
  OBVIOUS
<1>1. ASSUME NEW op \in Callable, NEW who \in Targets \cup {Member},
             NEW reply_lost \in BOOLEAN, ToolLands(op, who, reply_lost)
      PROVE  LandedInv'
  BY <1>1, ToolLandsLanded
<1>2. CASE ApplyConfirmation \/ ProfileUpdate \/ Refetch
  BY <1>2, ApplyConfirmationLanded, ProfileUpdateLanded, RefetchLanded
<1> QED BY <1>1, <1>2, BeforeSessionLanded, LoopLanded DEF Next, Node, User

THEOREM LandedInvariance == Spec => []LandedInv
<1>1. SessionInv /\ LandedInv /\ [Next]_vars => LandedInv'
  BY NextLanded
<1> QED BY InitLanded, <1>1, SessionInvariance, PTL DEF Spec

(***************************************************************************)
(* What the parent is told is saved did land, for every pattern of lost    *)
(* replies, errors and exhausted iterations, if the agent stops only when  *)
(* each of its operations returned.                                        *)
(***************************************************************************)
THEOREM AppliedLanded == ASSUME Diligent PROVE Spec => []AppliedMeansLanded
<1>1. LandedInv => AppliedMeansLanded
  BY DEF LandedInv
<1> QED BY <1>1, LandedInvariance, PTL

-----------------------------------------------------------------------------
\* A record differs from the one before the turn only by what was agreed.
AgreedRecord(who, record) ==
  record # before[who] =>
     /\ before[who] = NoRecord => consent.granted /\ consent.creating
     /\ before[who] # NoRecord => DOMAIN before[who] \subseteq DOMAIN record
     /\ \A k \in DOMAIN record :
           \/ /\ before[who] # NoRecord /\ k \in DOMAIN before[who]
              /\ record[k] = before[who][k]
           \/ Agreed(who, k, record[k])
           \/ SchoolFact(who, k, record[k])

\* A write whose fields were all agreed keeps it so.
LEMMA OverlayAgreed ==
  ASSUME NEW who, NEW old \in Arguments, NEW new \in Arguments, AgreedRecord(who, old),
         \A k \in Provided(new) : Agreed(who, k, new[k]) \/ SchoolFact(who, k, new[k])
  PROVE  AgreedRecord(who, Overlay(old, new))
<1> DEFINE record == Overlay(old, new)
<1>1. DOMAIN record = DOMAIN old \cup Provided(new)
  BY OverlayIsRecord
<1>2. \A k \in DOMAIN record : record[k] = IF k \in Provided(new) THEN new[k] ELSE old[k]
  BY <1>1 DEF Overlay
<1> HIDE DEF record
<1>3. old # NoRecord
  BY ConfirmPolicyAssumption
<1> SUFFICES AgreedRecord(who, record)
  BY DEF record
<1>4. CASE old = before[who]
  <2>1. \A k \in DOMAIN record : \/ /\ before[who] # NoRecord /\ k \in DOMAIN before[who]
                                    /\ record[k] = before[who][k]
                                 \/ Agreed(who, k, record[k])
                                 \/ SchoolFact(who, k, record[k])
    BY <1>1, <1>2, <1>3, <1>4
  <2> QED BY <1>1, <1>3, <1>4, <2>1 DEF AgreedRecord
<1>5. CASE old # before[who]
  <2>1. \A k \in DOMAIN record : \/ /\ before[who] # NoRecord /\ k \in DOMAIN before[who]
                                    /\ record[k] = before[who][k]
                                 \/ Agreed(who, k, record[k])
                                 \/ SchoolFact(who, k, record[k])
    BY <1>1, <1>2, <1>5 DEF AgreedRecord
  <2> QED BY <1>1, <1>5, <2>1 DEF AgreedRecord
<1> QED BY <1>4, <1>5

\* An identity operation of the list writes what the parent agreed to, on the
\* record they agreed to; the accepted create makes a child that was not there.
LEMMA ConsentedIsGranted ==
  ASSUME Obedient, SessionInv, NEW op \in Callable, NEW who \in Targets \cup {Member},
         NEW reply_lost \in BOOLEAN, ToolLands(op, who, reply_lost), op.tool \in ConfirmTools
  PROVE  /\ consent.granted
         /\ op.tool = "create_child" => consent.creating
         /\ \E w \in GrantedWrites : /\ w.tool = op.tool /\ w.arguments = op.arguments
                                    /\ w.who = IF op.tool = "create_child" THEN NoChild ELSE who
<1>1. /\ pc = "tools" /\ Consented(op)
  BY DEF ToolLands, Callable, SessionInv, InSession
<1>2. consent.granted
  BY <1>1 DEF Consented
<1>3. op.tool \in {"create_child", "update_child_basic_info", "update_member_basic_info"}
  BY DEF ConfirmTools
<1>4. CASE op.tool = "create_child"
  <2>1. consent.creating /\ consent.child # NoRecord /\ op.arguments = Named(consent.child)
    BY <1>1, <1>4 DEF Consented
  <2> DEFINE w == [tool |-> "create_child", who |-> NoChild, arguments |-> Named(consent.child)]
  <2>2. w \in GrantedWrites
    BY <1>2, <2>1 DEF GrantedWrites, Granted
  <2>3. w.tool = op.tool /\ w.arguments = op.arguments /\ w.who = NoChild
    BY <1>4, <2>1
  <2> QED BY <1>2, <1>4, <2>1, <2>2, <2>3
<1>5. CASE op.tool = "update_child_basic_info"
  <2>1. ~consent.creating /\ consent.child # NoRecord /\ op.arguments = consent.child
    BY <1>1, <1>5 DEF Consented
  <2>2. who = confirmation_request.target_child_id
    BY <1>1, <1>2, <1>5, <2>1, ToolLandsOnRecord DEF SessionInv, InSession, IdentityTools
  <2> DEFINE w == [tool |-> "update_child_basic_info",
                   who |-> confirmation_request.target_child_id, arguments |-> consent.child]
  <2>3. w \in GrantedWrites
    BY <1>2, <2>1 DEF GrantedWrites, Granted
  <2>4. w.tool = op.tool /\ w.arguments = op.arguments /\ w.who = who
    BY <1>5, <2>1, <2>2
  <2> QED BY <1>2, <1>5, <2>3, <2>4
<1>6. CASE op.tool = "update_member_basic_info"
  <2>1. consent.member # NoRecord /\ op.arguments = consent.member
    BY <1>1, <1>6 DEF Consented
  <2>2. who = Member
    BY <1>6, ToolLandsOnRecord DEF IdentityTools
  <2> DEFINE w == [tool |-> "update_member_basic_info", who |-> Member, arguments |-> consent.member]
  <2>3. w \in GrantedWrites
    BY <1>2, <2>1 DEF GrantedWrites, Granted
  <2>4. w.tool = op.tool /\ w.arguments = op.arguments /\ w.who = who
    BY <1>6, <2>1, <2>2
  <2> QED BY <1>2, <1>6, <2>3, <2>4
<1> QED BY <1>3, <1>4, <1>5, <1>6

\* What an identity tool of an obedient agent makes of a record was agreed.
LEMMA StoredAgreed ==
  ASSUME Obedient, SessionInv, NEW op \in Callable, NEW who \in Targets \cup {Member},
         NEW reply_lost \in BOOLEAN, ToolLands(op, who, reply_lost), op.tool \in IdentityTools,
         AgreedRecord(who, identity[who])
  PROVE  AgreedRecord(who, Stored(op, who))
<1>1. op \in Operation /\ op.arguments \in Arguments
  BY ToolLandsOnFile DEF Operation
<1>2. CASE op.tool = "create_child"
  <2>1. consent.granted /\ consent.creating
    BY <1>2, ConsentedIsGranted DEF ConfirmTools
  <2>2. PICK w \in GrantedWrites : w.tool = "create_child" /\ w.arguments = op.arguments
    BY <1>2, ConsentedIsGranted DEF ConfirmTools
  <2>3. who \in ChildIds \ Known /\ before[who] = NoRecord
    BY <1>2, ToolLandsOnRecord DEF SessionInv, Known, Children
  <2>4. \A k \in DOMAIN WithDefaults(op.arguments) : Agreed(who, k, WithDefaults(op.arguments)[k])
    BY <2>2, <2>3 DEF Agreed
  <2>5. Stored(op, who) = WithDefaults(op.arguments)
    BY <1>2 DEF Stored
  <2> QED BY <2>1, <2>3, <2>4, <2>5 DEF AgreedRecord
<1>3. CASE op.tool \in {"update_child_basic_info", "update_member_basic_info"}
  <2>1. PICK w \in GrantedWrites : w.who = who /\ w.arguments = op.arguments
    BY <1>3, ConsentedIsGranted DEF ConfirmTools
  <2>2. \A k \in Provided(op.arguments) : Agreed(who, k, op.arguments[k])
    BY <2>1 DEF Agreed, Provided
  <2>3. identity[who] \in Arguments
    BY <1>3, ToolLandsOnRecord
  <2>4. Stored(op, who) = Overlay(identity[who], op.arguments)
    BY <1>3 DEF Stored
  <2> QED BY <1>1, <2>2, <2>3, <2>4, OverlayAgreed
<1>4. CASE op.tool = "update_school_information"
  <2>1. op \in emitted
    BY <1>4 DEF ToolLands, Callable, SessionInv, InSession, ConfirmTools
  <2>2. who \in ChildIds /\ identity[who] \in Arguments
    BY <1>4, ToolLandsOnRecord
  <2>3. \A k \in Provided(SchoolGrade(op.arguments)) : SchoolFact(who, k, SchoolGrade(op.arguments)[k])
    BY <1>4, <2>1, <2>2 DEF SchoolFact, SchoolGrade, Provided
  <2>4. Stored(op, who) = Overlay(identity[who], SchoolGrade(op.arguments))
    BY <1>4 DEF Stored
  <2>5. SchoolGrade(op.arguments) \in Arguments
    BY <1>1, SchoolGradeIsRecord
  <2> QED BY <2>2, <2>3, <2>4, <2>5, OverlayAgreed
<1> QED BY <1>2, <1>3, <1>4 DEF IdentityTools, ConfirmTools

\* Within a turn what was agreed stays so.
LEMMA SameAgreement ==
  ASSUME UNCHANGED <<before, emitted, consent, confirmation_request>>,
         \A who \in ChildIds \cup {Member} : AgreedRecord(who, identity'[who])
  PROVE  IdentityWritesConsented'
<1>1. GrantedWrites' = GrantedWrites
  BY DEF GrantedWrites, Granted
<1>2. Known' = Known
  BY DEF Known
<1> QED BY <1>1, <1>2 DEF IdentityWritesConsented, AgreedRecord, Agreed, SchoolFact

\* With an obedient agent the records differ from those before the turn by what
\* was agreed, as the list holds nothing else.
LEMMA NextConsented ==
  ASSUME Obedient, SessionInv, IdentityWritesConsented, [Next]_vars
  PROVE  IdentityWritesConsented'
<1> DEFINE Same == UNCHANGED <<identity, before, emitted, consent, confirmation_request>>
<1>1. CASE Same
  BY <1>1, SameAgreement DEF IdentityWritesConsented, AgreedRecord
<1>2. CASE identity' = before'
  BY <1>2 DEF IdentityWritesConsented
<1>3. ASSUME NEW op \in Callable, NEW who \in Targets \cup {Member},
             NEW reply_lost \in BOOLEAN, ToolLands(op, who, reply_lost)
      PROVE  IdentityWritesConsented'
  <2>1. UNCHANGED <<before, emitted, consent, confirmation_request>>
    BY <1>3 DEF ToolLands, channel_vars
  <2>2. CASE op.tool \notin IdentityTools
    <3>1. Same
      BY <1>3, <2>1, <2>2 DEF ToolLands
    <3> QED BY <1>1, <3>1
  <2>3. CASE op.tool \in IdentityTools
    <3>1. who \in ChildIds \cup {Member} /\ identity' = [identity EXCEPT ![who] = Stored(op, who)]
      BY <1>3, <2>3, ToolLandsOnRecord DEF ToolLands
    <3>2. ASSUME NEW c \in ChildIds \cup {Member}
          PROVE  AgreedRecord(c, identity'[c])
      <4>1. AgreedRecord(c, identity[c])
        BY DEF IdentityWritesConsented, AgreedRecord
      <4>2. CASE c # who
        BY <3>1, <4>1, <4>2
      <4>3. CASE c = who
        <5>1. AgreedRecord(who, Stored(op, who))
          BY <1>3, <2>3, <4>1, <4>3, StoredAgreed
        <5>2. identity'[who] = Stored(op, who)
          BY <3>1, <4>3 DEF SessionInv, TypeOK
        <5> QED BY <4>3, <5>1, <5>2
      <4> QED BY <4>2, <4>3
    <3> QED BY <2>1, <3>2, SameAgreement
  <2> QED BY <2>2, <2>3
<1>4. CASE StartTurn \/ MemoryPolicy \/ PrepareConfirmation \/ ApplyConfirmation \/ ProfileUpdate
  <2>1. identity' = before'
    BY <1>4 DEF StartTurn, MemoryPolicy, PrepareConfirmation, ApplyConfirmation, ProfileUpdate,
                history_vars, SessionInv, BeforeReply, BeforeWrite
  <2> QED BY <1>2, <2>1
<1>5. ASSUME NEW resume \in Resumes, RequestConfirmation(resume) PROVE IdentityWritesConsented'
  <2>1. identity' = before'
    BY <1>5 DEF RequestConfirmation, SessionInv, BeforeReply, BeforeWrite
  <2> QED BY <1>2, <2>1
<1>6. CASE AgentReplies \/ AgentRaises \/ OutOfIterations \/ ToolFails \/ Refetch
  <2>1. Same
    BY <1>6 DEF AgentReplies, AgentRaises, OutOfIterations, ToolFails, Refetch, history_vars,
                channel_vars
  <2> QED BY <1>1, <2>1
<1>7. CASE UNCHANGED vars
  <2>1. Same
    BY <1>7 DEF vars, history_vars, channel_vars
  <2> QED BY <1>1, <2>1
<1> QED BY <1>3, <1>4, <1>5, <1>6, <1>7 DEF Next, Node, User

(***************************************************************************)
(* In every turn of an obedient agent, the children on file change only by *)
(* an accepted new child, no identity field vanishes, and a field changes  *)
(* only to a value the parent agreed to for that very child or member, or  *)
(* else it is a child's grade and a school fact of the list: whatever the  *)
(* policy emits, the parent replies and the service does.                  *)
(***************************************************************************)
THEOREM GatePromise == ASSUME Obedient PROVE Spec => []IdentityWritesConsented
<1>1. Init => IdentityWritesConsented
  BY DEF Init, IdentityWritesConsented
<1>2. SessionInv /\ IdentityWritesConsented /\ [Next]_vars => IdentityWritesConsented'
  BY NextConsented
<1> QED BY <1>1, <1>2, SessionInvariance, PTL DEF Spec

(***************************************************************************)
(* GateInv, all of the above, is an invariant of the gate with an obedient *)
(* agent.                                                                  *)
(***************************************************************************)
THEOREM GateInvariance == ASSUME Obedient PROVE Spec => []GateInv
<1>1. SessionInv /\ FactsInv /\ LandedInv /\ IdentityWritesConsented => GateInv
  BY DEF GateInv
<1> QED BY <1>1, SessionInvariance, FactsInvariance, LandedInvariance, GatePromise, PTL
-----------------------------------------------------------------------------
\* Seen through ConfirmedWrites.

\* Without consent nothing is granted.
LEMMA NothingGranted == ~consent.granted => GrantedWrites = {}
BY DEF GrantedWrites

\* What a reply grants is identity writes on the popup's child, a new child or
\* the requester.
LEMMA GrantType ==
  ASSUME consent \in Consent, confirmation_request \in Request
  PROVE  GrantedWrites \in SUBSET [tool : ConfirmTools, arguments : Arguments,
                                   who : Targets \cup {Member}]
<1>1. /\ consent.child \in Record /\ consent.member \in Record
      /\ confirmation_request.target_child_id \in Targets /\ NoChild \in Targets
  BY DEF Consent, Request, Targets
<1>2. ASSUME NEW tool \in ConfirmTools, NEW who \in Targets \cup {Member}, NEW records \in SUBSET Arguments
      PROVE  Granted(tool, who, records) \in SUBSET [tool : ConfirmTools, arguments : Arguments,
                                                     who : Targets \cup {Member}]
  BY <1>2 DEF Granted
<1>3. {"create_child", "update_child_basic_info", "update_member_basic_info"} \subseteq ConfirmTools
  BY DEF ConfirmTools
<1> DEFINE child  == {consent.child} \ {NoRecord}
           member == {consent.member} \ {NoRecord}
           named  == {Named(r) : r \in child}
<1>4. child \in SUBSET Arguments /\ member \in SUBSET Arguments
  BY <1>1 DEF Record
<1>5. named \in SUBSET Arguments
  BY <1>4, NamedIsRecord
<1>6. GrantedWrites \subseteq
        Granted("update_member_basic_info", Member, member)
          \cup Granted("create_child", NoChild, named)
          \cup Granted("update_child_basic_info", confirmation_request.target_child_id, child)
  BY DEF GrantedWrites
<1> HIDE DEF child, member, named
<1> QED BY <1>1, <1>2, <1>3, <1>4, <1>5, <1>6

\* Changing no field changes nothing.
LEMMA OverlayNothing ==
  ASSUME NEW old \in Arguments, NEW new, Provided(new) = {}
  PROVE  Overlay(old, new) = old
<1>1. old = [k \in DOMAIN old |-> old[k]]
  BY RecordElim
<1> QED BY <1>1 DEF Overlay

LEMMA InitPromise == Init => Promise!Init
<1> SUFFICES ASSUME Init PROVE Promise!Init
  OBVIOUS
<1>1. identity \in [ChildIds \cup {Member} -> Record] /\ ~consent.granted
  BY InitSession, NoConsentType DEF SessionInv, TypeOK, Init
<1> QED BY <1>1, NothingGranted DEF Promise!Init, Record, Arguments, Promise!Arguments

\* A reply grants, the next message withdraws.
LEMMA UserPromise == SessionInv /\ User => [Promise!Next]_<<identity, GrantedWrites>>
<1>1. ASSUME SessionInv, StartTurn PROVE Promise!Withdraw
  <2>1. ~consent'.granted
    BY <1>1, NoConsentType DEF StartTurn
  <2>2. GrantedWrites' = {}
    BY <2>1 DEF GrantedWrites
  <2> QED BY <1>1, <2>2 DEF StartTurn, Promise!Withdraw
<1>2. ASSUME SessionInv, NEW resume \in Resumes, RequestConfirmation(resume) PROVE Promise!Grant
  <2>1. GrantedWrites = {}
    BY <1>2, NothingGranted DEF RequestConfirmation, SessionInv, BeforeReply
  <2>2. consent' \in Consent /\ confirmation_request' \in Request
    BY <1>2, RequestConfirmationStep, ListType, RequestType
    DEF RequestConfirmation, SessionInv, TypeOK
  <2>3. (consent \in Consent /\ confirmation_request \in Request =>
           GrantedWrites \in SUBSET [tool : ConfirmTools, arguments : Arguments,
                                     who : Targets \cup {Member}])'
    BY GrantType, PTL
  <2> QED BY <1>2, <2>1, <2>2, <2>3 DEF RequestConfirmation, Promise!Grant
<1> QED BY <1>1, <1>2 DEF User, Promise!Next

\* An identity write of an obedient agent is a granted one, or a grade.
LEMMA ToolPromise ==
  ASSUME Obedient, SessionInv, NEW op \in Callable, NEW who \in Targets \cup {Member},
         NEW reply_lost \in BOOLEAN, ToolLands(op, who, reply_lost)
  PROVE  [Promise!Next]_<<identity, GrantedWrites>>
<1>1. GrantedWrites' = GrantedWrites
  BY DEF ToolLands, channel_vars, GrantedWrites, Granted
<1>2. CASE op.tool \notin IdentityTools
  BY <1>1, <1>2 DEF ToolLands
<1>3. CASE op.tool \in ConfirmTools
  <2>1. PICK w \in GrantedWrites :
          /\ w.tool = op.tool /\ w.arguments = op.arguments
          /\ w.who = IF op.tool = "create_child" THEN NoChild ELSE who
    BY <1>3, ConsentedIsGranted
  <2>2. who \in ChildIds \cup {Member} /\ identity' = [identity EXCEPT ![who] = Stored(op, who)]
    BY <1>3, ToolLandsOnRecord DEF ToolLands, IdentityTools
  <2>3. CASE op.tool = "create_child"
    <3>1. who \in ChildIds /\ identity[who] = NoRecord
      BY <1>3, <2>3, ToolLandsOnRecord DEF IdentityTools
    <3>2. Stored(op, who) = Promise!WithDefaults(w.arguments)
      BY <2>1, <2>3 DEF Stored, WithDefaults, Promise!WithDefaults
    <3>3. Promise!AddChild(w, who)
      BY <2>1, <2>2, <2>3, <3>1, <3>2 DEF Promise!AddChild
    <3>4. Promise!GrantedWrite
      BY <1>1, <3>1, <3>3 DEF Promise!GrantedWrite
    <3> QED BY <3>4 DEF Promise!Next
  <2>4. CASE op.tool # "create_child"
    <3>1. op.tool = IF who = Member THEN "update_member_basic_info" ELSE "update_child_basic_info"
      BY <1>3, <2>4, ToolLandsOnRecord, MemoryGateAssumption DEF IdentityTools, ConfirmTools, Targets
    <3>2. identity[who] # NoRecord
      BY <1>3, <2>4, ToolLandsOnRecord, ConfirmPolicyAssumption DEF IdentityTools
    <3>3. Stored(op, who) = Promise!Overlay(identity[who], w.arguments)
      <4>1. Stored(op, who) = Overlay(identity[who], w.arguments)
        BY <1>3, <2>1, <2>4 DEF Stored, ConfirmTools
      <4>2. Overlay(identity[who], w.arguments) = Promise!Overlay(identity[who], w.arguments)
        BY DEF Overlay, Provided, None, Promise!Overlay, Promise!Provided, Promise!None
      <4> QED BY <4>1, <4>2
    <3>4. Promise!Edit(w, who)
      BY <2>1, <2>2, <2>4, <3>1, <3>2, <3>3 DEF Promise!Edit
    <3>5. Promise!GrantedWrite
      BY <1>1, <2>2, <3>4 DEF Promise!GrantedWrite
    <3> QED BY <3>5 DEF Promise!Next
  <2> QED BY <2>3, <2>4
<1>4. CASE op.tool = "update_school_information"
  <2>1. /\ who \in ChildIds /\ identity[who] \in Arguments
        /\ identity' = [identity EXCEPT ![who] = Stored(op, who)]
    BY <1>4, ToolLandsOnRecord DEF ToolLands, IdentityTools
  <2>2. Stored(op, who) = Overlay(identity[who], SchoolGrade(op.arguments))
    BY <1>4 DEF Stored
  <2>3. CASE "grade" \notin DOMAIN op.arguments
    <3>1. Provided(SchoolGrade(op.arguments)) = {}
      BY <2>3 DEF Provided, SchoolGrade
    <3>2. Stored(op, who) = identity[who]
      BY <2>1, <2>2, <3>1, OverlayNothing
    <3>3. identity' = identity
      BY <2>1, <3>2 DEF SessionInv, TypeOK
    <3> QED BY <1>1, <3>3
  <2>4. CASE "grade" \in DOMAIN op.arguments
    <3>1. op.arguments \in Arguments
      BY ToolLandsOnFile DEF Operation
    <3>2. op.arguments["grade"] \in Values
      BY <2>4, <3>1, RecordElim
    <3>3. SchoolGrade(op.arguments) = [k \in {"grade"} |-> op.arguments["grade"]]
      BY <2>4 DEF SchoolGrade
    <3>4. Stored(op, who) = Promise!Overlay(identity[who], [k \in {"grade"} |-> op.arguments["grade"]])
      BY <2>2, <3>3 DEF Overlay, Provided, None, Promise!Overlay, Promise!Provided, Promise!None
    <3>5. identity[who] # NoRecord
      BY <2>1, ConfirmPolicyAssumption
    <3>6. Promise!ChangeGrade
      BY <1>1, <2>1, <3>2, <3>4, <3>5 DEF Promise!ChangeGrade
    <3> QED BY <3>6 DEF Promise!Next
  <2> QED BY <2>3, <2>4
<1> QED BY <1>2, <1>3, <1>4 DEF IdentityTools

\* No other node writes a record or changes what was granted: the popup is
\* built before anything is.
LEMMA OtherPromise ==
  ASSUME SessionInv,
         \/ MemoryPolicy \/ PrepareConfirmation \/ ApplyConfirmation \/ ProfileUpdate
         \/ AgentReplies \/ AgentRaises \/ OutOfIterations \/ Refetch \/ ToolFails
         \/ UNCHANGED vars
  PROVE  UNCHANGED <<identity, GrantedWrites>>
<1>1. UNCHANGED <<identity, consent>>
  BY DEF MemoryPolicy, PrepareConfirmation, ApplyConfirmation, ProfileUpdate, AgentReplies,
         AgentRaises, OutOfIterations, Refetch, ToolFails, vars, history_vars
<1>2. CASE PrepareConfirmation
  <2>1. ~consent.granted
    BY <1>2 DEF PrepareConfirmation, SessionInv, BeforeReply
  <2> QED BY <1>1, <2>1 DEF GrantedWrites
<1>3. CASE UNCHANGED confirmation_request
  BY <1>1, <1>3 DEF GrantedWrites, Granted
<1>4. CASE ~PrepareConfirmation
  <2>1. UNCHANGED confirmation_request
    BY <1>4 DEF MemoryPolicy, ApplyConfirmation, ProfileUpdate, AgentReplies, AgentRaises,
                OutOfIterations, Refetch, ToolFails, vars, channel_vars
  <2> QED BY <1>3, <2>1
<1> QED BY <1>2, <1>4

(***************************************************************************)
(* The subgraph with an obedient agent implements ConfirmedWrites: every   *)
(* change of a record of the family is one the parent granted since their  *)
(* last message, on the record the popup was about, overlaid on what was   *)
(* there - or it is the grade of a child on file and nothing else.         *)
(***************************************************************************)
THEOREM ImplementsPromise == ASSUME Obedient PROVE Spec => KeepsPromise
<1>1. SessionInv /\ [Next]_vars => [Promise!Next]_<<identity, GrantedWrites>>
  <2> SUFFICES ASSUME SessionInv, [Next]_vars PROVE [Promise!Next]_<<identity, GrantedWrites>>
    OBVIOUS
  <2>1. ASSUME NEW op \in Callable, NEW who \in Targets \cup {Member},
               NEW reply_lost \in BOOLEAN, ToolLands(op, who, reply_lost)
        PROVE  [Promise!Next]_<<identity, GrantedWrites>>
    BY <2>1, ToolPromise
  <2>2. CASE User
    BY <2>2, UserPromise
  <2> QED BY <2>1, <2>2, OtherPromise DEF Next, Node
<1> QED BY <1>1, InitPromise, SessionInvariance, PTL DEF Spec, KeepsPromise, Promise!Spec
==============================================================================
