-------------------------- MODULE ConfirmPolicyCheck --------------------------
(***************************************************************************)
(* The operators of ConfirmPolicy against the code's own way of computing  *)
(* them: a list is read from front to back, each operation's arguments     *)
(* updating one dict, and then the parent replies.                         *)
(***************************************************************************)
EXTENDS ConfirmPolicy

CONSTANTS Menu,      \* what memory_policy may put in a list: [tool, arguments]
          Resumes,   \* what the frontend may reply
          MaxLength  \* bound: operations in a list

\* The records the frontend may send back: the schema drops unknown fields.
Record(fields) ==
  {r \in Arguments :
     /\ DOMAIN r \subseteq fields
     /\ \A k \in DOMAIN r : r[k] # None /\ (k = "aliases" => r[k] # NoAliases)}

ASSUME ConfirmPolicyCheckAssumption ==
  /\ Menu \subseteq [tool : Tools, arguments : Arguments]
  /\ Resumes \subseteq {Malformed} \cup
       [approved : BOOLEAN, child : Record(ChildFields) \cup {NoRecord},
        member : Record(MemberFields) \cup {NoRecord}]
  /\ MaxLength \in Nat

VARIABLES ops,     \* the list so far
          merged,  \* the dict of child arguments, updated operation by operation
          written  \* the operations left after the reply, or {} before it
vars == <<ops, merged, written>>

Init == ops = {} /\ merged = [k \in {} |-> None] /\ written = {}

\* merged.update(o.get("arguments") or {})
Update(dict, args) ==
  [k \in DOMAIN dict \cup DOMAIN args |-> IF k \in DOMAIN args THEN args[k] ELSE dict[k]]

Length == IF ops = {} THEN 0 ELSE CHOOSE n \in {o.at : o \in ops} : \A o \in ops : o.at <= n

Emit(m) ==
  /\ Length < MaxLength /\ written = {}
  /\ ops' = ops \cup {[at |-> Length + 1, tool |-> m.tool, arguments |-> m.arguments]}
  /\ merged' = IF m.tool \in ChildTools THEN Update(merged, m.arguments) ELSE merged
  /\ UNCHANGED written

Answer(resume) ==
  LET decision == ReadDecision(resume) IN
  /\ Gated(ops) # {} /\ written = {} /\ ~BuildRaises(ops)
  /\ written' = Ungated(ops) \cup
                  (IF decision.approved THEN Applied(decision, ops, BuildRequest(ops, None)) ELSE {})
  /\ UNCHANGED <<ops, merged>>

Next == (\E m \in Menu : Emit(m)) \/ (\E r \in Resumes : Answer(r))
Spec == Init /\ [][Next]_vars

-----------------------------------------------------------------------------
\* What the schema makes of the dict: unknown keys and None fields are dropped.
Cleaned(dict) ==
  LET canon == [k \in DOMAIN dict |-> IF k = "gender" THEN CanonGender(dict[k]) ELSE dict[k]]
  IN  [k \in {k \in DOMAIN canon \cap ChildFields :
                ~(canon[k] = None \/ (k = "aliases" /\ canon[k] = NoAliases))} |-> canon[k]]

(***************************************************************************)
(* The child record the popup shows is the dict the identity operations    *)
(* update in list order, so that a later value, a later null and a later   *)
(* unrecognised gender all win (_fold, _build_child).                      *)
(***************************************************************************)
FoldUpdatesInOrder == Fold(ChildOps(ops), ChildFields) = Cleaned(merged)

(***************************************************************************)
(* A create that the parent approved always carries a name, edited or not, *)
(* which is blank only if the first alias it falls back on is: a tool call *)
(* without one fails, and every fact bundled with the create is lost       *)
(* (_child_op).                                                            *)
(***************************************************************************)
ApprovedCreateIsNamed ==
  \A o \in written : o.tool = "create_child" =>
     /\ "display_name" \in DOMAIN o.arguments
     /\ \/ o.arguments["display_name"] # Blank
        \/ "aliases" \in DOMAIN o.arguments /\ o.arguments["aliases"] = Blank

(***************************************************************************)
(* One popup, one consequence: whatever the list and the reply, what is    *)
(* left holds soft facts of the list and, counting the raw operations of   *)
(* the list that were handed on, at most one identity write of a child and *)
(* at most one of the member, none of which names a field that the popup   *)
(* could not have shown (_apply_decision).                                 *)
(***************************************************************************)
SameRecord(o, p) ==
  \/ {o.tool, p.tool} \subseteq ChildTools
  \/ {o.tool, p.tool} = {"update_member_basic_info"}

OneWritePerRecord ==
  /\ \A o, p \in written : SameRecord(o, p) => o = p
  /\ \A o \in written :
       /\ o.tool \in ChildTools => DOMAIN o.arguments \subseteq ChildFields
       /\ o.tool = "update_member_basic_info" => DOMAIN o.arguments \subseteq MemberFields
       /\ o.tool \in SoftTools => o \in ops
==============================================================================
