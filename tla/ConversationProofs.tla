-------------------------- MODULE ConversationProofs --------------------------
(***************************************************************************)
(* Theorems about Conversation: the pipeline's invariant, the properties   *)
(* it implies, and the order of the turn protocol.                         *)
(***************************************************************************)
EXTENDS Conversation, FiniteSetTheorems, TLAPS

USE ConversationAssumption DEF Targets, thread_vars, branch_vars, memory_vars, history_vars

-----------------------------------------------------------------------------
\* The pin is a child on file or None, and the sole child when there is one.
LEMMA PinOnFile ==
  ASSUME NEW c, NEW kids
  PROVE  /\ Pin(c, kids) \in kids \cup {NoChild}
         /\ Cardinality(kids) = 1 /\ NoChild \notin kids => Pin(c, kids) # NoChild
<1>1. Cardinality(kids) = 1 => kids # {}
  BY FS_EmptySet
<1>2. kids # {} => (CHOOSE kid \in kids : TRUE) \in kids
  OBVIOUS
<1> QED BY <1>1, <1>2 DEF Pin

\* The resolved child is on file or None, ambiguous only without a pin, and
\* the switch, if any, leads to it.
LEMMA ResolveChildOnFile ==
  ASSUME NEW ref \in References, NEW kids, NEW preset \in kids \cup {NoChild}
  PROVE  LET found == ResolveChild(ref, kids, preset) IN
         /\ found.target \in kids \cup {NoChild}
         /\ found.child_is_new \in BOOLEAN /\ found.child_ambiguous \in BOOLEAN
         /\ found.child_ambiguous => preset \notin kids
         /\ SwitchTo(ref, found.target, preset) \in {NoChild, found.target}
BY DEF ResolveChild, Resolution, SwitchTo

\* Every task intent has a capability.
LEMMA TaskIntentsHaveCapabilities == \A i \in TaskIntents : Capability[i] \in Capabilities
BY DEF TaskIntents, Capability, Capabilities, RequiredInputs

\* Dropped branches have the types of their variables.
LEMMA NoBranchesType == NoBranches => BranchTypeOK'
<1> SUFFICES ASSUME NoBranches PROVE BranchTypeOK'
  OBVIOUS
<1>1. 0 \in 0..MaxTurns
  OBVIOUS
<1>2. outcome' \in Outcome
  BY <1>1 DEF NoBranches, Outcome
<1>3. /\ execute' \in {"waiting", "done"}
      /\ memory' \in {"memory_policy", "prepare_confirmation", "request_confirmation",
                      "apply_confirmation", "profile_update", "done"}
      /\ results' \subseteq Capabilities
      /\ operations' \in OperationKinds
      /\ new_target' \in Targets
      /\ refetched' \subseteq ChildIds
  BY DEF NoBranches, OperationKinds
<1>4. approved' \in BOOLEAN
  BY DEF NoBranches
<1> QED BY <1>2, <1>3, <1>4 DEF BranchTypeOK

\* So do channels and branches that a step leaves alone.
LEMMA UnchangedTypes ==
  /\ ThreadTypeOK /\ UNCHANGED thread_vars => ThreadTypeOK'
  /\ BranchTypeOK /\ UNCHANGED branch_vars => BranchTypeOK'
BY DEF ThreadTypeOK, BranchTypeOK

-----------------------------------------------------------------------------
\* A new message drops the branches and keeps the channels.
LEMMA NewMessageStep ==
  ASSUME PipelineInv, NEW c \in Targets, NewMessage(c)
  PROVE  PipelineInv'
<1>1. TypeOK'
  <2>1. ThreadTypeOK'
    BY UnchangedTypes DEF PipelineInv, TypeOK, NewMessage
  <2>2. BranchTypeOK'
    BY NoBranchesType DEF NewMessage
  <2>3. turn' \in 0..MaxTurns
    BY DEF PipelineInv, TypeOK, NewMessage
  <2>4. collided' \in BOOLEAN /\ reemits' \in BOOLEAN
    BY DEF PipelineInv, TypeOK, NewMessage
  <2>5. recorded' \in [child : Targets, made_for : Targets]
    BY DEF NewMessage, NoRecommendation
  <2> QED BY <2>1, <2>2, <2>3, <2>4, <2>5 DEF PipelineInv, TypeOK, NewMessage
<1>2. RespondReadsThisTurn' /\ TargetOnFile' /\ SoleChildNeverAsked' /\ StageInv'
  BY DEF PipelineInv, TypeOK, ThreadTypeOK, BranchTypeOK, RespondReadsThisTurn, TargetOnFile,
     SoleChildNeverAsked, StageInv, FilesInv, BranchInv, NewMessage, Paused, NoRecommendation,
     NoBranches
<1>3. SwitchMatchesTarget' /\ RecordedForItsChild'
  BY DEF PipelineInv, TypeOK, ThreadTypeOK, SwitchMatchesTarget, RecordedForItsChild, StageInv,
     NoRecommendation, NewMessage, Paused, NoBranches
<1>4. FilesInv' /\ BranchInv' /\ CountInv'
  BY DEF PipelineInv, TypeOK, ThreadTypeOK, BranchTypeOK, FilesInv, BranchInv, CountInv,
     NewMessage, Paused, NoRecommendation, NoBranches
<1> QED BY <1>1, <1>2, <1>3, <1>4 DEF PipelineInv

\* A refusal is the only reply of its turn.
LEMMA GuardStep ==
  ASSUME PipelineInv, Guard
  PROVE  PipelineInv'
<1>1. TypeOK'
  BY UnchangedTypes DEF PipelineInv, CountInv, TypeOK, Guard, Ends
<1>2. RespondReadsThisTurn' /\ TargetOnFile' /\ SoleChildNeverAsked' /\ StageInv'
  BY DEF PipelineInv, TypeOK, ThreadTypeOK, BranchTypeOK, RespondReadsThisTurn, TargetOnFile,
     SoleChildNeverAsked, StageInv, FilesInv, BranchInv, Guard, Ends
<1>3. SwitchMatchesTarget' /\ RecordedForItsChild'
  BY DEF PipelineInv, TypeOK, ThreadTypeOK, SwitchMatchesTarget, RecordedForItsChild, StageInv,
     NoRecommendation, Guard, Ends
<1>4. FilesInv' /\ BranchInv' /\ CountInv'
  BY DEF PipelineInv, TypeOK, ThreadTypeOK, BranchTypeOK, FilesInv, BranchInv, CountInv, Guard,
     Ends
<1> QED BY <1>1, <1>2, <1>3, <1>4 DEF PipelineInv

\* The pin is a child just read.
LEMMA LoadContextStep ==
  ASSUME PipelineInv, LoadContext
  PROVE  PipelineInv'
<1>0. /\ children' = on_file /\ on_file \subseteq ChildIds
      /\ target_child_id' \in on_file \cup {NoChild}
      /\ Cardinality(on_file) = 1 => target_child_id' # NoChild
  BY PinOnFile DEF LoadContext, PipelineInv, TypeOK
<1>1. TypeOK'
  <2>1. ThreadTypeOK'
    BY <1>0 DEF PipelineInv, TypeOK, ThreadTypeOK, BranchTypeOK, Outcome, LoadContext
  <2>2. BranchTypeOK'
    BY UnchangedTypes DEF PipelineInv, TypeOK, LoadContext
  <2> QED BY <2>1, <2>2 DEF PipelineInv, TypeOK, LoadContext
<1>2. RespondReadsThisTurn' /\ TargetOnFile' /\ SoleChildNeverAsked' /\ StageInv'
  BY <1>0 DEF PipelineInv, TypeOK, ThreadTypeOK, BranchTypeOK, RespondReadsThisTurn, TargetOnFile,
     SoleChildNeverAsked, StageInv, FilesInv, BranchInv, LoadContext
<1>3. SwitchMatchesTarget' /\ RecordedForItsChild'
  BY DEF PipelineInv, TypeOK, ThreadTypeOK, SwitchMatchesTarget, RecordedForItsChild, StageInv,
     NoRecommendation, LoadContext
<1>4. FilesInv' /\ BranchInv' /\ CountInv'
  BY DEF PipelineInv, TypeOK, ThreadTypeOK, BranchTypeOK, FilesInv, BranchInv, CountInv,
     LoadContext
<1> QED BY <1>1, <1>2, <1>3, <1>4 DEF PipelineInv

\* The resolved child is on file, and the switch leads to it.
LEMMA UnderstandStep ==
  ASSUME PipelineInv, Understand
  PROVE  PipelineInv'
<1> DEFINE Found(ref)  == ResolveChild(ref, children, target_child_id)
           Switch(ref) == SwitchTo(ref, Found(ref).target, target_child_id)
<1>0. PICK ref \in References, intents \in IntentSets, books \in BOOLEAN, signals \in BOOLEAN :
        /\ understanding' = [turn |-> turn, intents |-> intents, books |-> books,
                             signals |-> signals, child_is_new |-> Found(ref).child_is_new,
                             child_ambiguous |-> Found(ref).child_ambiguous]
        /\ target_child_id' = Found(ref).target
        /\ child_switch' = [turn |-> turn, to |-> Switch(ref),
                            from |-> IF Switch(ref) = NoChild THEN NoChild ELSE target_child_id]
  BY DEF Understand
<1>a. /\ Found(ref).target \in children \cup {NoChild}
      /\ Found(ref).child_is_new \in BOOLEAN /\ Found(ref).child_ambiguous \in BOOLEAN
      /\ Found(ref).child_ambiguous => target_child_id \notin children
      /\ Switch(ref) \in {NoChild, Found(ref).target}
  BY ResolveChildOnFile DEF PipelineInv, TargetOnFile
<1> HIDE DEF Found, Switch
<1>b. intents \in SUBSET Intents
  OBVIOUS
<1>c. /\ understanding' \in [turn : 0..MaxTurns, intents : SUBSET Intents, child_is_new : BOOLEAN,
                            child_ambiguous : BOOLEAN, books : BOOLEAN, signals : BOOLEAN]
      /\ child_switch' \in [turn : 0..MaxTurns, from : Targets, to : Targets]
      /\ target_child_id' \in children \cup {NoChild}
  BY <1>0, <1>a, <1>b DEF PipelineInv, TypeOK, ThreadTypeOK
<1>1. TypeOK'
  <2>1. ThreadTypeOK'
    BY <1>c DEF PipelineInv, TypeOK, ThreadTypeOK, BranchTypeOK, Outcome, Understand
  <2>2. BranchTypeOK'
    BY UnchangedTypes DEF PipelineInv, TypeOK, Understand
  <2> QED BY <2>1, <2>2 DEF PipelineInv, TypeOK, Understand
<1>2. RespondReadsThisTurn' /\ TargetOnFile' /\ SoleChildNeverAsked' /\ StageInv'
  BY <1>0, <1>a DEF PipelineInv, TypeOK, ThreadTypeOK, BranchTypeOK, RespondReadsThisTurn,
     TargetOnFile, SoleChildNeverAsked, StageInv, FilesInv, BranchInv, Understand
<1>3. SwitchMatchesTarget' /\ RecordedForItsChild'
  BY DEF PipelineInv, TypeOK, ThreadTypeOK, SwitchMatchesTarget, RecordedForItsChild, StageInv,
     NoRecommendation, Understand
<1>4. FilesInv' /\ BranchInv' /\ CountInv'
  BY DEF PipelineInv, TypeOK, ThreadTypeOK, BranchTypeOK, FilesInv, BranchInv, CountInv,
     Understand
<1> QED BY <1>1, <1>2, <1>3, <1>4 DEF PipelineInv

\* Planned steps are capabilities.
LEMMA PlanStep ==
  ASSUME PipelineInv, Plan
  PROVE  PipelineInv'
<1>0. plan'.turn = turn /\ plan' \in [turn : 0..MaxTurns, steps : SUBSET Capabilities]
  BY TaskIntentsHaveCapabilities DEF PipelineInv, TypeOK, ThreadTypeOK, Plan
<1>1. TypeOK'
  <2>1. ThreadTypeOK'
    BY <1>0 DEF PipelineInv, TypeOK, ThreadTypeOK, BranchTypeOK, Outcome, Plan
  <2>2. BranchTypeOK'
    BY UnchangedTypes DEF PipelineInv, TypeOK, Plan
  <2> QED BY <2>1, <2>2 DEF PipelineInv, TypeOK, Plan
<1>2. RespondReadsThisTurn' /\ TargetOnFile' /\ SoleChildNeverAsked' /\ StageInv'
  BY <1>0 DEF PipelineInv, TypeOK, ThreadTypeOK, BranchTypeOK, RespondReadsThisTurn, TargetOnFile,
     SoleChildNeverAsked, StageInv, FilesInv, BranchInv, Plan
<1>3. SwitchMatchesTarget' /\ RecordedForItsChild'
  BY DEF PipelineInv, TypeOK, ThreadTypeOK, SwitchMatchesTarget, RecordedForItsChild, StageInv,
     NoRecommendation, Plan
<1>4. FilesInv' /\ BranchInv' /\ CountInv'
  BY DEF PipelineInv, TypeOK, ThreadTypeOK, BranchTypeOK, FilesInv, BranchInv, CountInv, Plan
<1> QED BY <1>1, <1>2, <1>3, <1>4 DEF PipelineInv

\* A question ends the turn; else both branches start afresh.
LEMMA ClarifyStep ==
  ASSUME PipelineInv, Clarify
  PROVE  PipelineInv'
<1>1. TypeOK'
  <2>1. ThreadTypeOK'
    BY DEF PipelineInv, TypeOK, ThreadTypeOK, BranchTypeOK, Outcome, Clarify, Decisions,
       RouteAfterClarify, OperationKinds
  <2>2. BranchTypeOK'
    BY DEF PipelineInv, TypeOK, ThreadTypeOK, BranchTypeOK, Outcome, Clarify, Decisions,
       RouteAfterClarify, OperationKinds
  <2> QED BY <2>1, <2>2 DEF PipelineInv, CountInv, TypeOK, Clarify, Decisions, RouteAfterClarify
<1>2. RespondReadsThisTurn' /\ TargetOnFile' /\ SoleChildNeverAsked' /\ StageInv'
  BY DEF PipelineInv, TypeOK, ThreadTypeOK, BranchTypeOK, RespondReadsThisTurn, TargetOnFile,
     SoleChildNeverAsked, StageInv, FilesInv, BranchInv, Clarify, Decisions, RouteAfterClarify,
     OperationKinds
<1>3. SwitchMatchesTarget' /\ RecordedForItsChild'
  BY DEF PipelineInv, TypeOK, ThreadTypeOK, SwitchMatchesTarget, RecordedForItsChild, StageInv,
     NoRecommendation, Clarify, Decisions, RouteAfterClarify, OperationKinds
<1>4. FilesInv' /\ BranchInv' /\ CountInv'
  BY DEF PipelineInv, TypeOK, ThreadTypeOK, BranchTypeOK, FilesInv, BranchInv, CountInv, Clarify,
     Decisions, RouteAfterClarify, OperationKinds
<1> QED BY <1>1, <1>2, <1>3, <1>4 DEF PipelineInv

\* execute only fills its own channel.
LEMMA ExecuteStep ==
  ASSUME PipelineInv, Execute
  PROVE  PipelineInv'
<1>1. TypeOK'
  <2>1. ThreadTypeOK'
    BY UnchangedTypes DEF PipelineInv, TypeOK, Execute
  <2>2. BranchTypeOK'
    BY DEF PipelineInv, TypeOK, ThreadTypeOK, BranchTypeOK, Outcome, Execute
  <2> QED BY <2>1, <2>2 DEF PipelineInv, TypeOK, Execute
<1>2. RespondReadsThisTurn' /\ TargetOnFile' /\ SoleChildNeverAsked' /\ StageInv'
  BY DEF PipelineInv, TypeOK, ThreadTypeOK, BranchTypeOK, RespondReadsThisTurn, TargetOnFile,
     SoleChildNeverAsked, StageInv, FilesInv, BranchInv, Execute
<1>3. SwitchMatchesTarget' /\ RecordedForItsChild'
  BY DEF PipelineInv, TypeOK, ThreadTypeOK, SwitchMatchesTarget, RecordedForItsChild, StageInv,
     NoRecommendation, Execute
<1>4. FilesInv' /\ BranchInv' /\ CountInv'
  BY DEF PipelineInv, TypeOK, ThreadTypeOK, BranchTypeOK, FilesInv, BranchInv, CountInv, Execute
<1> QED BY <1>1, <1>2, <1>3, <1>4 DEF PipelineInv

\* memory_policy only replaces the list.
LEMMA MemoryPolicyStep ==
  ASSUME PipelineInv, MemoryPolicy
  PROVE  PipelineInv'
<1>1. TypeOK'
  <2>1. ThreadTypeOK'
    BY UnchangedTypes DEF PipelineInv, TypeOK, MemoryPolicy, OperationKinds
  <2>2. BranchTypeOK'
    BY DEF PipelineInv, TypeOK, ThreadTypeOK, BranchTypeOK, Outcome, MemoryPolicy, OperationKinds
  <2> QED BY <2>1, <2>2 DEF PipelineInv, TypeOK, MemoryPolicy
<1>2. RespondReadsThisTurn' /\ TargetOnFile' /\ SoleChildNeverAsked' /\ StageInv'
  BY DEF PipelineInv, TypeOK, ThreadTypeOK, BranchTypeOK, RespondReadsThisTurn, TargetOnFile,
     SoleChildNeverAsked, StageInv, FilesInv, BranchInv, MemoryPolicy, OperationKinds
<1>3. SwitchMatchesTarget' /\ RecordedForItsChild'
  BY DEF PipelineInv, TypeOK, ThreadTypeOK, SwitchMatchesTarget, RecordedForItsChild, StageInv,
     NoRecommendation, MemoryPolicy, OperationKinds
<1>4. FilesInv' /\ BranchInv' /\ CountInv'
  BY DEF PipelineInv, TypeOK, ThreadTypeOK, BranchTypeOK, FilesInv, BranchInv, CountInv,
     MemoryPolicy, OperationKinds
<1> QED BY <1>1, <1>2, <1>3, <1>4 DEF PipelineInv

\* The outcome is this turn's from here on.
LEMMA PrepareConfirmationStep ==
  ASSUME PipelineInv, PrepareConfirmation
  PROVE  PipelineInv'
<1>1. TypeOK'
  <2>1. ThreadTypeOK'
    BY UnchangedTypes DEF PipelineInv, TypeOK, PrepareConfirmation, ClearedOutcome
  <2>2. BranchTypeOK'
    BY DEF PipelineInv, TypeOK, ThreadTypeOK, BranchTypeOK, Outcome, PrepareConfirmation, ClearedOutcome
  <2> QED BY <2>1, <2>2 DEF PipelineInv, TypeOK, PrepareConfirmation, ClearedOutcome
<1>2. RespondReadsThisTurn' /\ TargetOnFile' /\ SoleChildNeverAsked' /\ StageInv'
  BY DEF PipelineInv, TypeOK, ThreadTypeOK, BranchTypeOK, RespondReadsThisTurn, TargetOnFile,
     SoleChildNeverAsked, StageInv, FilesInv, BranchInv, PrepareConfirmation, ClearedOutcome
<1>3. SwitchMatchesTarget' /\ RecordedForItsChild'
  BY DEF PipelineInv, TypeOK, ThreadTypeOK, SwitchMatchesTarget, RecordedForItsChild, StageInv,
     NoRecommendation, PrepareConfirmation, ClearedOutcome
<1>4. FilesInv' /\ BranchInv' /\ CountInv'
  BY DEF PipelineInv, TypeOK, ThreadTypeOK, BranchTypeOK, FilesInv, BranchInv, CountInv,
     PrepareConfirmation, ClearedOutcome
<1> QED BY <1>1, <1>2, <1>3, <1>4 DEF PipelineInv

\* The popup is answered once.
LEMMA ResumeStep ==
  ASSUME PipelineInv, NEW yes \in BOOLEAN, Resume(yes)
  PROVE  PipelineInv'
<1>1. TypeOK'
  <2>1. ThreadTypeOK'
    BY UnchangedTypes DEF PipelineInv, TypeOK, Resume, Paused
  <2>2. BranchTypeOK'
    BY DEF PipelineInv, TypeOK, ThreadTypeOK, BranchTypeOK, Outcome, Resume, Paused
  <2> QED BY <2>1, <2>2 DEF PipelineInv, CountInv, TypeOK, Resume, Paused
<1>2. RespondReadsThisTurn' /\ TargetOnFile' /\ SoleChildNeverAsked' /\ StageInv'
  BY DEF PipelineInv, TypeOK, ThreadTypeOK, BranchTypeOK, RespondReadsThisTurn, TargetOnFile,
     SoleChildNeverAsked, StageInv, FilesInv, BranchInv, Resume, Paused
<1>3. SwitchMatchesTarget' /\ RecordedForItsChild'
  BY DEF PipelineInv, TypeOK, ThreadTypeOK, SwitchMatchesTarget, RecordedForItsChild, StageInv,
     NoRecommendation, Resume, Paused
<1>4. FilesInv' /\ BranchInv' /\ CountInv'
  BY DEF PipelineInv, TypeOK, ThreadTypeOK, BranchTypeOK, FilesInv, BranchInv, CountInv, Resume,
     Paused
<1> QED BY <1>1, <1>2, <1>3, <1>4 DEF PipelineInv

\* No child has been made before the list is final.
LEMMA ApplyConfirmationStep ==
  ASSUME PipelineInv, ApplyConfirmation
  PROVE  PipelineInv'
<1>1. TypeOK'
  <2>1. ThreadTypeOK'
    BY UnchangedTypes DEF PipelineInv, TypeOK, ApplyConfirmation, OperationKinds
  <2>2. BranchTypeOK'
    BY DEF PipelineInv, TypeOK, ThreadTypeOK, BranchTypeOK, Outcome, ApplyConfirmation,
       OperationKinds
  <2> QED BY <2>1, <2>2 DEF PipelineInv, TypeOK, ApplyConfirmation
<1>2. RespondReadsThisTurn' /\ TargetOnFile' /\ SoleChildNeverAsked' /\ StageInv'
  BY DEF PipelineInv, TypeOK, ThreadTypeOK, BranchTypeOK, RespondReadsThisTurn, TargetOnFile,
     SoleChildNeverAsked, StageInv, FilesInv, BranchInv, ApplyConfirmation, OperationKinds
<1>3. SwitchMatchesTarget' /\ RecordedForItsChild'
  BY DEF PipelineInv, TypeOK, ThreadTypeOK, SwitchMatchesTarget, RecordedForItsChild, StageInv,
     NoRecommendation, ApplyConfirmation, OperationKinds
<1>4. FilesInv' /\ BranchInv' /\ CountInv'
  BY DEF PipelineInv, TypeOK, ThreadTypeOK, BranchTypeOK, FilesInv, BranchInv, CountInv,
     ApplyConfirmation, OperationKinds
<1> QED BY <1>1, <1>2, <1>3, <1>4 DEF PipelineInv

\* A new target is a child of this turn.
LEMMA CreateChildStep ==
  ASSUME PipelineInv, NEW c \in ChildIds, NEW reply_lost \in BOOLEAN, CreateChild(c, reply_lost)
  PROVE  PipelineInv'
<1>1. TypeOK'
  <2>1. ThreadTypeOK'
    BY UnchangedTypes DEF PipelineInv, TypeOK, CreateChild
  <2>2. BranchTypeOK'
    BY DEF PipelineInv, TypeOK, ThreadTypeOK, BranchTypeOK, Outcome, CreateChild
  <2> QED BY <2>1, <2>2 DEF PipelineInv, TypeOK, CreateChild
<1>2. RespondReadsThisTurn' /\ TargetOnFile' /\ SoleChildNeverAsked' /\ StageInv'
  BY DEF PipelineInv, TypeOK, ThreadTypeOK, BranchTypeOK, RespondReadsThisTurn, TargetOnFile,
     SoleChildNeverAsked, StageInv, FilesInv, BranchInv, CreateChild
<1>3. SwitchMatchesTarget' /\ RecordedForItsChild'
  BY DEF PipelineInv, TypeOK, ThreadTypeOK, SwitchMatchesTarget, RecordedForItsChild, StageInv,
     NoRecommendation, CreateChild
<1>4. FilesInv' /\ BranchInv' /\ CountInv'
  BY DEF PipelineInv, TypeOK, ThreadTypeOK, BranchTypeOK, FilesInv, BranchInv, CountInv,
     CreateChild
<1> QED BY <1>1, <1>2, <1>3, <1>4 DEF PipelineInv

\* A child made in the session is in the context read after it.
LEMMA ProfileUpdateStep ==
  ASSUME PipelineInv, ProfileUpdate
  PROVE  PipelineInv'
<1>1. TypeOK'
  <2>1. ThreadTypeOK'
    BY UnchangedTypes DEF PipelineInv, TypeOK, ProfileUpdate
  <2>2. BranchTypeOK'
    BY DEF PipelineInv, TypeOK, ThreadTypeOK, BranchTypeOK, Outcome, ProfileUpdate
  <2> QED BY <2>1, <2>2 DEF PipelineInv, TypeOK, ProfileUpdate
<1>2. RespondReadsThisTurn' /\ TargetOnFile' /\ SoleChildNeverAsked' /\ StageInv'
  BY DEF PipelineInv, TypeOK, ThreadTypeOK, BranchTypeOK, RespondReadsThisTurn, TargetOnFile,
     SoleChildNeverAsked, StageInv, FilesInv, BranchInv, ProfileUpdate
<1>3. SwitchMatchesTarget' /\ RecordedForItsChild'
  BY DEF PipelineInv, TypeOK, ThreadTypeOK, SwitchMatchesTarget, RecordedForItsChild, StageInv,
     NoRecommendation, ProfileUpdate
<1>4. FilesInv' /\ BranchInv' /\ CountInv'
  <2>1. outcome'.turn = outcome.turn
    BY DEF PipelineInv, TypeOK, BranchTypeOK, Outcome, ProfileUpdate
  <2>2. BranchInv'
    BY <2>1 DEF PipelineInv, FilesInv, BranchInv, ProfileUpdate
  <2> QED BY <2>2 DEF PipelineInv, TypeOK, ThreadTypeOK, FilesInv, CountInv, ProfileUpdate
<1> QED BY <1>1, <1>2, <1>3, <1>4 DEF PipelineInv

\* The channels change together, or not at all.
LEMMA FanInStep ==
  ASSUME PipelineInv, FanIn
  PROVE  PipelineInv'
<1>1. TypeOK'
  <2>1. ThreadTypeOK'
    BY DEF PipelineInv, TypeOK, ThreadTypeOK, BranchTypeOK, Outcome, FanIn, Aggregate, FinalTarget
  <2>2. BranchTypeOK'
    BY NoBranchesType DEF FanIn, Aggregate, FinalTarget
  <2> QED BY <2>1, <2>2 DEF PipelineInv, TypeOK, FanIn
<1>2. RespondReadsThisTurn' /\ TargetOnFile' /\ SoleChildNeverAsked' /\ StageInv'
  BY DEF PipelineInv, TypeOK, ThreadTypeOK, BranchTypeOK, RespondReadsThisTurn, TargetOnFile,
     SoleChildNeverAsked, StageInv, FilesInv, BranchInv, FanIn, Aggregate, FinalTarget, NoBranches
<1>3. SwitchMatchesTarget' /\ RecordedForItsChild'
  BY DEF PipelineInv, TypeOK, ThreadTypeOK, SwitchMatchesTarget, RecordedForItsChild, StageInv,
     BranchInv, NoRecommendation, FanIn, Aggregate, FinalTarget, NoBranches
<1>4. FilesInv' /\ BranchInv' /\ CountInv'
  BY DEF PipelineInv, TypeOK, ThreadTypeOK, BranchTypeOK, FilesInv, BranchInv, CountInv, FanIn,
     Aggregate, FinalTarget, NoBranches
<1> QED BY <1>1, <1>2, <1>3, <1>4 DEF PipelineInv

\* What is stored is about the target.
LEMMA RespondStep ==
  ASSUME PipelineInv, Respond
  PROVE  PipelineInv'
<1>1. TypeOK'
  <2>1. recorded' \in [child : Targets, made_for : Targets]
    BY DEF PipelineInv, TypeOK, ThreadTypeOK, Respond
  <2> QED BY <2>1, UnchangedTypes DEF PipelineInv, TypeOK, Respond
<1>2. RespondReadsThisTurn' /\ TargetOnFile' /\ SoleChildNeverAsked' /\ StageInv'
  BY DEF PipelineInv, TypeOK, ThreadTypeOK, BranchTypeOK, RespondReadsThisTurn, TargetOnFile,
     SoleChildNeverAsked, StageInv, FilesInv, BranchInv, Respond
<1>3. SwitchMatchesTarget' /\ RecordedForItsChild'
  BY DEF PipelineInv, TypeOK, ThreadTypeOK, SwitchMatchesTarget, RecordedForItsChild, StageInv,
     NoRecommendation, Respond
<1>4. FilesInv' /\ BranchInv' /\ CountInv'
  BY DEF PipelineInv, TypeOK, ThreadTypeOK, BranchTypeOK, FilesInv, BranchInv, CountInv, Respond
<1> QED BY <1>1, <1>2, <1>3, <1>4 DEF PipelineInv

\* The reply is the only one of its turn.
LEMMA ReplyStep ==
  ASSUME PipelineInv, Reply
  PROVE  PipelineInv'
<1>1. TypeOK'
  BY UnchangedTypes DEF PipelineInv, CountInv, TypeOK, Reply, Ends
<1>2. RespondReadsThisTurn' /\ TargetOnFile' /\ SoleChildNeverAsked' /\ StageInv'
  BY DEF PipelineInv, TypeOK, ThreadTypeOK, BranchTypeOK, RespondReadsThisTurn, TargetOnFile,
     SoleChildNeverAsked, StageInv, FilesInv, BranchInv, Reply, Ends
<1>3. SwitchMatchesTarget' /\ RecordedForItsChild'
  BY DEF PipelineInv, TypeOK, ThreadTypeOK, SwitchMatchesTarget, RecordedForItsChild, StageInv,
     NoRecommendation, Reply, Ends
<1>4. FilesInv' /\ BranchInv' /\ CountInv'
  BY DEF PipelineInv, TypeOK, ThreadTypeOK, BranchTypeOK, FilesInv, BranchInv, CountInv, Reply,
     Ends
<1> QED BY <1>1, <1>2, <1>3, <1>4 DEF PipelineInv

\* A failed superstep leaves the channels alone.
LEMMA TurnFailsStep ==
  ASSUME PipelineInv, TurnFails
  PROVE  PipelineInv'
<1>1. TypeOK'
  <2>1. ThreadTypeOK'
    BY UnchangedTypes DEF PipelineInv, TypeOK, TurnFails, Ends, Paused
  <2>2. BranchTypeOK'
    BY NoBranchesType DEF TurnFails, Ends, Paused
  <2> QED BY <2>1, <2>2 DEF PipelineInv, CountInv, TypeOK, TurnFails, Ends, Paused
<1>2. RespondReadsThisTurn' /\ TargetOnFile' /\ SoleChildNeverAsked' /\ StageInv'
  BY DEF PipelineInv, TypeOK, ThreadTypeOK, BranchTypeOK, RespondReadsThisTurn, TargetOnFile,
     SoleChildNeverAsked, StageInv, FilesInv, BranchInv, TurnFails, Ends, Paused, NoBranches
<1>3. SwitchMatchesTarget' /\ RecordedForItsChild'
  BY DEF PipelineInv, TypeOK, ThreadTypeOK, SwitchMatchesTarget, RecordedForItsChild, StageInv,
     NoRecommendation, TurnFails, Ends, Paused, NoBranches
<1>4. FilesInv' /\ BranchInv' /\ CountInv'
  BY DEF PipelineInv, TypeOK, ThreadTypeOK, BranchTypeOK, FilesInv, BranchInv, CountInv,
     TurnFails, Ends, Paused, NoBranches
<1> QED BY <1>1, <1>2, <1>3, <1>4 DEF PipelineInv

\* Accounts only gains children.
LEMMA OtherConversationStep ==
  ASSUME PipelineInv, NEW c \in ChildIds, OtherConversation(c)
  PROVE  PipelineInv'
<1>1. TypeOK'
  BY UnchangedTypes DEF PipelineInv, TypeOK, OtherConversation
<1>2. RespondReadsThisTurn' /\ TargetOnFile' /\ SoleChildNeverAsked' /\ StageInv'
  BY DEF PipelineInv, TypeOK, ThreadTypeOK, BranchTypeOK, RespondReadsThisTurn, TargetOnFile,
     SoleChildNeverAsked, StageInv, FilesInv, BranchInv, OtherConversation
<1>3. SwitchMatchesTarget' /\ RecordedForItsChild'
  BY DEF PipelineInv, TypeOK, ThreadTypeOK, SwitchMatchesTarget, RecordedForItsChild, StageInv,
     NoRecommendation, OtherConversation
<1>4. FilesInv' /\ BranchInv' /\ CountInv'
  BY DEF PipelineInv, TypeOK, ThreadTypeOK, BranchTypeOK, FilesInv, BranchInv, CountInv,
     OtherConversation
<1> QED BY <1>1, <1>2, <1>3, <1>4 DEF PipelineInv

-----------------------------------------------------------------------------
\* A fresh thread satisfies the invariant.
LEMMA InitPipeline == Init => PipelineInv
<1> SUFFICES ASSUME Init PROVE PipelineInv
  OBVIOUS
<1>1. ThreadTypeOK
  BY DEF Init, ThreadTypeOK, Outcome
<1>2. BranchTypeOK
  <2>1. outcome \in Outcome
    BY DEF Init, Outcome
  <2>2. operations \in OperationKinds /\ approved \in BOOLEAN
    BY DEF Init, OperationKinds
  <2> QED BY <2>1, <2>2 DEF Init, BranchTypeOK
<1>3. recorded \in [child : Targets, made_for : Targets] /\ reemits \in BOOLEAN /\ collided \in BOOLEAN
  BY DEF Init, NoRecommendation
<1>4. TypeOK
  BY <1>1, <1>2, <1>3 DEF Init, TypeOK
<1>5. StageInv /\ FilesInv /\ BranchInv /\ CountInv
  BY DEF Init, StageInv, FilesInv, BranchInv, CountInv
<1>6. RespondReadsThisTurn /\ TargetOnFile /\ SoleChildNeverAsked
  BY DEF Init, RespondReadsThisTurn, TargetOnFile, SoleChildNeverAsked
<1>7. SwitchMatchesTarget /\ RecordedForItsChild
  BY DEF Init, SwitchMatchesTarget, RecordedForItsChild
<1> QED BY <1>4, <1>5, <1>6, <1>7 DEF PipelineInv

\* Every step keeps the invariant.
LEMMA NextPipeline == PipelineInv /\ [Next]_vars => PipelineInv'
<1> SUFFICES ASSUME PipelineInv, [Next]_vars PROVE PipelineInv'
  OBVIOUS
<1>1. CASE Node
  BY <1>1, GuardStep, LoadContextStep, UnderstandStep, PlanStep, ClarifyStep, ExecuteStep,
     MemoryPolicyStep, PrepareConfirmationStep, ApplyConfirmationStep, CreateChildStep,
     ProfileUpdateStep, FanInStep, RespondStep, ReplyStep DEF Node
<1>2. CASE Parent
  BY <1>2, NewMessageStep, ResumeStep DEF Parent
<1>3. CASE TurnFails
  BY <1>3, TurnFailsStep
<1>4. CASE \E c \in ChildIds : OtherConversation(c)
  BY <1>4, OtherConversationStep
<1>5. CASE UNCHANGED vars
  <2>1. TypeOK'
    BY <1>5, UnchangedTypes DEF PipelineInv, TypeOK, vars
  <2>2. StageInv' /\ FilesInv' /\ BranchInv' /\ CountInv'
    BY <1>5 DEF PipelineInv, StageInv, FilesInv, BranchInv, CountInv, vars
  <2>3. RespondReadsThisTurn' /\ TargetOnFile' /\ SoleChildNeverAsked'
    BY <1>5 DEF PipelineInv, RespondReadsThisTurn, TargetOnFile, SoleChildNeverAsked, vars
  <2>4. SwitchMatchesTarget' /\ RecordedForItsChild'
    BY <1>5 DEF PipelineInv, SwitchMatchesTarget, RecordedForItsChild, vars
  <2> QED BY <2>1, <2>2, <2>3, <2>4 DEF PipelineInv
<1> QED BY <1>1, <1>2, <1>3, <1>4, <1>5 DEF Next

(***************************************************************************)
(* PipelineInv is an invariant of the thread.                              *)
(***************************************************************************)
THEOREM PipelineInvariance == Spec => []PipelineInv
BY InitPipeline, NextPipeline, PTL DEF Spec

(***************************************************************************)
(* Every channel, branch variable and counter keeps its type.              *)
(***************************************************************************)
THEOREM PipelineTypes == Spec => []TypeOK
<1>1. PipelineInv => TypeOK
  BY DEF PipelineInv
<1> QED BY <1>1, PipelineInvariance, PTL

(***************************************************************************)
(* respond never composes or stores a product of an earlier turn, for any  *)
(* number of turns, whatever raised, was abandoned or was answered.        *)
(***************************************************************************)
THEOREM NothingStaleIsComposed == Spec => []RespondReadsThisTurn
<1>1. PipelineInv => RespondReadsThisTurn
  BY DEF PipelineInv
<1> QED BY <1>1, PipelineInvariance, PTL

(***************************************************************************)
(* No turn looks up a child that is not in the context it holds.           *)
(***************************************************************************)
THEOREM TargetsAreOnFile == Spec => []TargetOnFile
<1>1. PipelineInv => TargetOnFile
  BY DEF PipelineInv
<1> QED BY <1>1, PipelineInvariance, PTL

(***************************************************************************)
(* A recommendation is never stored for a child on file other than the one *)
(* it was made for.                                                        *)
(***************************************************************************)
THEOREM RecommendationsFollowTheirChild == Spec => []RecordedForItsChild
<1>1. PipelineInv => RecordedForItsChild
  BY DEF PipelineInv
<1> QED BY <1>1, PipelineInvariance, PTL

(***************************************************************************)
(* However children come and go, in this thread or in others, a turn that  *)
(* holds one child does not ask which child the parent meant.              *)
(***************************************************************************)
THEOREM SoleChildIsPinned == Spec => []SoleChildNeverAsked
<1>1. PipelineInv => SoleChildNeverAsked
  BY DEF PipelineInv
<1> QED BY <1>1, PipelineInvariance, PTL

(***************************************************************************)
(* The child the reply says it switched to is the target that the fan-in   *)
(* leaves, or the turn created another one in the meantime.                *)
(***************************************************************************)
THEOREM SwitchesAreReal == Spec => []SwitchMatchesTarget
<1>1. PipelineInv => SwitchMatchesTarget
  BY DEF PipelineInv
<1> QED BY <1>1, PipelineInvariance, PTL

-----------------------------------------------------------------------------
\* A fresh thread is a quiet one.
LEMMA InitTurn == Init => Turn!Init
BY DEF Init, Turn!Init, Paused

\* The nodes before the fan-out are busy steps, or give the turn's reply.
LEMMA FrontTurnStep ==
  ASSUME PipelineInv, Guard \/ LoadContext \/ Understand \/ Plan \/ Clarify
  PROVE  [Turn!Next]_(Turn!vars)
<1>1. CASE Guard
  BY <1>1 DEF Guard, Ends, PipelineInv, CountInv, Paused, Turn!Next, Turn!Reply, Turn!vars
<1>2. CASE LoadContext
  BY <1>2 DEF LoadContext, Paused, Turn!vars
<1>3. CASE Understand
  BY <1>3 DEF Understand, Paused, Turn!vars
<1>4. CASE Plan
  BY <1>4 DEF Plan, Paused, Turn!vars
<1>5. CASE Clarify
  BY <1>5 DEF Clarify, RouteAfterClarify, PipelineInv, CountInv, Paused, Turn!Next, Turn!Reply,
     Turn!vars
<1> QED BY <1>1, <1>2, <1>3, <1>4, <1>5

\* In the superstep the popup shows when both branches have come to rest.
LEMMA BranchTurnStep ==
  ASSUME PipelineInv,
         \/ Execute \/ MemoryPolicy \/ PrepareConfirmation \/ ApplyConfirmation
         \/ \E c \in ChildIds, reply_lost \in BOOLEAN : CreateChild(c, reply_lost)
         \/ ProfileUpdate \/ FanIn
  PROVE  [Turn!Next]_(Turn!vars)
<1>1. CASE Execute
  BY <1>1 DEF Execute, PipelineInv, CountInv, Paused, Turn!Next, Turn!Popup, Turn!vars
<1>2. CASE MemoryPolicy
  BY <1>2 DEF MemoryPolicy, Paused, Turn!vars
<1>3. CASE PrepareConfirmation
  BY <1>3 DEF PrepareConfirmation, PipelineInv, CountInv, Paused, Turn!Next, Turn!Popup, Turn!vars
<1>4. CASE ApplyConfirmation
  BY <1>4 DEF ApplyConfirmation, Paused, Turn!vars
<1>5. CASE \E c \in ChildIds, reply_lost \in BOOLEAN : CreateChild(c, reply_lost)
  BY <1>5 DEF CreateChild, Paused, Turn!vars
<1>6. CASE ProfileUpdate
  BY <1>6 DEF ProfileUpdate, Paused, Turn!vars
<1>7. CASE FanIn
  BY <1>7 DEF FanIn, NoBranches, Paused, Turn!Next, Turn!Error, Turn!vars
<1> QED BY <1>1, <1>2, <1>3, <1>4, <1>5, <1>6, <1>7

\* The rest: the reply, an error, what the parent does, and other threads.
LEMMA OtherTurnStep ==
  ASSUME PipelineInv,
         \/ Respond \/ Reply \/ Parent \/ TurnFails
         \/ \E c \in ChildIds : OtherConversation(c)
         \/ UNCHANGED vars
  PROVE  [Turn!Next]_(Turn!vars)
<1>1. CASE Respond
  BY <1>1 DEF Respond, Paused, Turn!vars
<1>2. CASE Reply
  BY <1>2 DEF Reply, Ends, PipelineInv, CountInv, Paused, Turn!Next, Turn!Reply, Turn!vars
<1>3. CASE \E c \in Targets : NewMessage(c)
  BY <1>3 DEF NewMessage, NoBranches, Paused, Turn!Next, Turn!Message, Turn!vars
<1>4. CASE \E yes \in BOOLEAN : Resume(yes)
  BY <1>4 DEF Resume, PipelineInv, CountInv, Paused, Turn!Next, Turn!Answer, Turn!vars
<1>5. CASE TurnFails
  BY <1>5 DEF TurnFails, Ends, NoBranches, PipelineInv, CountInv, TypeOK, Paused, Turn!Next,
     Turn!Error, Turn!vars
<1>6. CASE \E c \in ChildIds : OtherConversation(c)
  BY <1>6 DEF OtherConversation, Paused, Turn!vars
<1>7. CASE UNCHANGED vars
  BY <1>7 DEF vars, Paused, Turn!vars
<1> QED BY <1>1, <1>2, <1>3, <1>4, <1>5, <1>6, <1>7 DEF Parent

(***************************************************************************)
(* The thread implements the order of the turn protocol: at most one popup *)
(* and one reply per turn, in this order, and no reply with an error.      *)
(***************************************************************************)
THEOREM ConversationKeepsOrder == Spec => Turn!Order
<1>1. PipelineInv /\ [Next]_vars => [Turn!Next]_(Turn!vars)
  BY FrontTurnStep, BranchTurnStep, OtherTurnStep DEF Next, Node
<1> QED BY <1>1, InitTurn, PipelineInvariance, PTL DEF Spec, Turn!Order
===============================================================================
