--------------------------- MODULE ConfirmedWrites ---------------------------
(***************************************************************************)
(* What the confirmation gate promises the parent, without a pipeline: the *)
(* identity records of a family change only by writes the parent granted   *)
(* after the last message they sent, and on the record the grant names.    *)
(* One field is promised less: a child's grade, which the popup shows and  *)
(* confirms, may also change as a school fact, without a grant.  A grant   *)
(* lasts until the next message withdraws it; a granted write may fail, or *)
(* be made twice.                                                          *)
(***************************************************************************)
EXTENDS ConfirmPolicy

CONSTANTS
  ChildIds, Member,  \* whose records these are
  Grants             \* the sets of writes a parent may grant: [tool, arguments, who]

VARIABLES
  identity,  \* the record of each child and of the member, or NoRecord
  granted    \* the writes the parent agreed to

Init ==
  /\ identity \in [ChildIds \cup {Member} -> Arguments \cup {NoRecord}]
  /\ granted = {}

Grant ==
  /\ granted = {}
  /\ granted' \in Grants
  /\ UNCHANGED identity

Withdraw ==
  /\ granted' = {}
  /\ UNCHANGED identity

\* A child comes into being with the granted record.
AddChild(write, c) ==
  /\ write.tool = "create_child"
  /\ identity[c] = NoRecord
  /\ identity' = [identity EXCEPT ![c] = WithDefaults(write.arguments)]

\* The record on file that the grant names changes in the granted fields.
Edit(write, who) ==
  /\ write.who = who
  /\ write.tool = IF who = Member THEN "update_member_basic_info" ELSE "update_child_basic_info"
  /\ identity[who] # NoRecord
  /\ identity' = [identity EXCEPT ![who] = Overlay(identity[who], write.arguments)]

GrantedWrite ==
  \E write \in granted :
     /\ \/ \E c \in ChildIds : AddChild(write, c)
        \/ \E who \in ChildIds \cup {Member} : Edit(write, who)
     /\ UNCHANGED granted

\* A school fact about a child on file.
ChangeGrade ==
  /\ \E c \in ChildIds, grade \in Values :
        /\ identity[c] # NoRecord
        /\ identity' = [identity EXCEPT ![c] = Overlay(@, [k \in {"grade"} |-> grade])]
  /\ UNCHANGED granted

Next == Grant \/ Withdraw \/ GrantedWrite \/ ChangeGrade

Spec == Init /\ [][Next]_<<identity, granted>>
==============================================================================
