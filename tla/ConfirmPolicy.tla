---------------------------- MODULE ConfirmPolicy ----------------------------
(***************************************************************************)
(* The pure policy of the confirmation gate (agent/memory/confirm_policy): *)
(* which memory operations need the parent's approval, the popup they are  *)
(* folded into, and the operations that remain once the parent replied.    *)
(*                                                                         *)
(* A list of memory operations is a set of records numbered by their place *)
(* `at' in the list: order matters only to _fold (later operations win),   *)
(* because what follows reads the list as text.  An operation's name is    *)
(* its normalised tool name (_norm), and its arguments a partial function  *)
(* from parameter names to values.  A record (ChildRecord, MemberRecord)   *)
(* is the function model_dump(exclude_none=True) returns, without an empty *)
(* list of aliases: an absent key is a None field.  Another list of        *)
(* aliases stands for its first element.                                   *)
(***************************************************************************)
EXTENDS Naturals

CONSTANTS
  SoftTools,    \* operations that are not identity writes
  Keys,         \* every argument name an operation may carry
  Values,       \* every argument value
  NoRecord,     \* Python None where a record is optional
  NoRequest,    \* the empty confirmation_request {}
  Malformed     \* a resume value that is not a well-formed decision

None      == "None"      \* an explicit null argument
Blank     == ""          \* an empty string
NoAliases == "[]"        \* an empty list
IllTyped  == "ill-typed" \* a value the record's schema rejects

\* _CONFIRM_TOOLS and _CHILD_ID_NORM.
ConfirmTools == {"create_child", "update_child_basic_info", "update_member_basic_info"}
ChildTools   == {"create_child", "update_child_basic_info"}
Tools        == ConfirmTools \cup SoftTools

\* The fields of ChildRecord and MemberRecord; other argument names are dropped.
ChildFields  == {"display_name", "aliases", "gender", "birth_date", "grade",
                 "primary_language", "reading_language"}
MemberFields == {"display_name", "role", "gender", "birth_date", "language_preference"}

\* The records and contracts of memory/schemas.
Arguments == UNION {[S -> Values] : S \in SUBSET Keys}
Operation == [at : Nat, tool : Tools, arguments : Arguments]

\* _GENDER, reached through _canon_gender: words are compared in lower case.
CanonGender(word) ==
  IF word \in {"Male", "male", "m", "boy"} THEN "Male"
  ELSE IF word \in {"Female", "female", "f", "girl"} THEN "Female"
  ELSE None

ASSUME ConfirmPolicyAssumption ==
  /\ SoftTools \cap ConfirmTools = {}
  /\ "display_name" \in Keys
  /\ {None, "New child", "Male", "Female"} \subseteq Values
  /\ NoRecord \notin Arguments

-----------------------------------------------------------------------------
Creates(ops) == \E o \in ops : o.tool = "create_child"

\* classify: a create gates the whole list, otherwise only identity writes are.
Gated(ops) == IF Creates(ops) THEN ops ELSE {o \in ops : o.tool \in ConfirmTools}

\* Mutant: a rejection hands on the whole list.
Ungated_keeps_all(ops) == ops

Ungated(ops)  == ops \ Gated(ops)

ChildOps(ops)    == {o \in Gated(ops) : o.tool \in ChildTools}
MemberOps(ops)   == {o \in Gated(ops) : o.tool = "update_member_basic_info"}

\* Mutant: an approval hands on the identity writes only.
BundledSoft_forgotten(ops) == {}

\* Mutant: an approval hands on the identity writes of the list as well.
BundledSoft_all(ops) == Gated(ops)

BundledSoft(ops) == {o \in Gated(ops) : o.tool \notin ConfirmTools}

\* Mutant: the first operation that gives a key wins.
Last_is_first(ops, k) == CHOOSE o \in ops :
                           /\ k \in DOMAIN o.arguments
                           /\ \A p \in ops : k \in DOMAIN p.arguments => o.at <= p.at

\* _fold: per key the last operation that gives it wins, then gender is
\* mapped to the value the tools accept, or to None.
Last(ops, k) == CHOOSE o \in ops :
                  /\ k \in DOMAIN o.arguments
                  /\ \A p \in ops : k \in DOMAIN p.arguments => p.at <= o.at

Folded(ops, k) ==
  LET v == Last(ops, k).arguments[k]
  IN  IF k = "gender" THEN CanonGender(v) ELSE v

FoldedKeys(ops, fields) == {k \in fields \cap Keys : \E o \in ops : k \in DOMAIN o.arguments}

\* _build_child / _build_member: unknown keys are dropped, None fields and an
\* empty list of aliases left out.
Fold(ops, fields) ==
  [k \in {k \in FoldedKeys(ops, fields) :
            Folded(ops, k) \notin (IF k = "aliases" THEN {None, NoAliases} ELSE {None})}
     |-> Folded(ops, k)]

\* model_validate raises: a value of the wrong type, or a null list of aliases.
Rejects(ops, fields) ==
  \E k \in FoldedKeys(ops, fields) :
     Folded(ops, k) \in (IF k = "aliases" THEN {IllTyped, None} ELSE {IllTyped})

BuildRaises(ops) == Rejects(ChildOps(ops), ChildFields) \/ Rejects(MemberOps(ops), MemberFields)

-----------------------------------------------------------------------------
\* A list has a last operation among any of its operations.
Ordered(ops) ==
  \A S \in SUBSET ops : S # {} => \E o \in S : \A p \in S : p.at <= o.at

\* _build_request: the popup, or nothing when no operation is gated.
BuildRequest(ops, target) ==
  IF Gated(ops) = {} THEN NoRequest
  ELSE [kind            |-> IF Creates(ops) THEN "save_child" ELSE "profile_update",
        target_child_id |-> target,
        child           |-> IF ChildOps(ops) = {} THEN NoRecord
                            ELSE Fold(ChildOps(ops), ChildFields),
        member          |-> IF MemberOps(ops) = {} THEN NoRecord
                            ELSE Fold(MemberOps(ops), MemberFields)]

Rejection == [approved |-> FALSE, child |-> NoRecord, member |-> NoRecord]

\* _read_decision: anything but a well-formed decision is a rejection.
ReadDecision(resume) == IF resume = Malformed THEN Rejection ELSE resume

\* Mutant: an edited record with a blank name is written as it is.
Named_if_absent(record) ==
  IF "display_name" \in DOMAIN record THEN record
  ELSE [k \in DOMAIN record \cup {"display_name"} |->
          IF k = "display_name" THEN "New child" ELSE record[k]]

\* _child_op: a create always gets a display name, an empty update disappears.
Named(record) ==
  IF "display_name" \in DOMAIN record /\ record["display_name"] # Blank THEN record
  ELSE [k \in DOMAIN record \cup {"display_name"} |->
          IF k # "display_name" THEN record[k]
          ELSE IF "aliases" \in DOMAIN record THEN record["aliases"] ELSE "New child"]

Write(tool, args) == [at |-> 0, tool |-> tool, arguments |-> args]

ChildOp(record, creating) ==
  IF creating THEN {Write("create_child", Named(record))}
  ELSE IF DOMAIN record = {} THEN {}
  ELSE {Write("update_child_basic_info", record)}

MemberOp(record) ==
  IF DOMAIN record = {} THEN {} ELSE {Write("update_member_basic_info", record)}

\* The parent's edited record, when the reply carries one, wins over the popup's.
Chosen(edited, shown) == IF edited # NoRecord THEN edited ELSE shown

\* _apply_decision on an approval: the identity writes, and the bundled facts.
Applied(decision, ops, request) ==
  LET child  == Chosen(decision.child, request.child)
      member == Chosen(decision.member, request.member)
  IN  BundledSoft(ops)
        \cup (IF child = NoRecord THEN {} ELSE ChildOp(child, Creates(ops)))
        \cup (IF member = NoRecord THEN {} ELSE MemberOp(member))

-----------------------------------------------------------------------------
\* create_child fills in the language nobody chose.
WithDefaults(record) ==
  IF "reading_language" \in DOMAIN record THEN record
  ELSE [k \in DOMAIN record \cup {"reading_language"} |->
          IF k = "reading_language" THEN "English" ELSE record[k]]

\* The other tools send only the fields that are provided, and accounts changes
\* only what is sent.
Provided(args) == {k \in DOMAIN args : args[k] # None}

Overlay(old, new) ==
  [k \in DOMAIN old \cup Provided(new) |-> IF k \in Provided(new) THEN new[k] ELSE old[k]]
==============================================================================
