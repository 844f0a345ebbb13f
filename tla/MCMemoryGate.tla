----------------------------- MODULE MCMemoryGate -----------------------------
(***************************************************************************)
(* Instances of MemoryGate for TLC.                                        *)
(***************************************************************************)
EXTENDS MemoryGate, TLC

Op(i, name, args) == [at |-> i, tool |-> name, arguments |-> args]

NoArguments == [k \in {} |-> None]
Ada         == [display_name |-> "Ada"]

MCKeys   == {"display_name", "aliases", "gender", "grade", "reading_language"}
MCValues == {None, Blank, IllTyped, "New child", "Male", "Female", "Ada", "Zed", "boy", "junk",
             "third", "English"}

Soft   == Op(2, "update_reading_interest", NoArguments)
School == Op(2, "update_school_information", [grade |-> "third"])

\* Nothing durable; a policy; a fact about the parent and a school fact; two edits
\* of which the later wins, with a fact; an edit and a school fact; an edit that
\* folds to an empty record; a new child without a name, and a school fact with
\* another grade; a new child and the member; a record the popup's schema rejects.
MCOperationLists ==
  { {}, {Op(1, "update_family_reading_policy", NoArguments)},
    {Op(1, "update_member_profile", NoArguments), School},
    {Op(1, "update_child_basic_info", [aliases |-> "Zed", gender |-> "junk"]), Soft,
     Op(3, "update_child_basic_info", [gender |-> "boy"])},
    {Op(1, "update_child_basic_info", [gender |-> "boy", grade |-> None]), School},
    {Op(1, "update_child_basic_info", [gender |-> "junk"])},
    {Op(1, "create_child", [aliases |-> "Ada", gender |-> None, grade |-> "Zed"]), School},
    {Op(1, "create_child", Ada), Op(3, "update_member_basic_info", [display_name |-> "Zed"])},
    {Op(1, "create_child", [grade |-> IllTyped])} }

Reply(yes, kid, adult) == [approved |-> yes, child |-> kid, member |-> adult]

\* A broken reply, a rejection, a plain approval, and approvals with edited
\* records, one of them emptied.
MCResumes ==
  { Malformed, Reply(FALSE, Ada, NoRecord), Reply(TRUE, NoRecord, NoRecord),
    Reply(TRUE, Ada, NoRecord), Reply(TRUE, NoArguments, Ada) }

MCStrayCalls == { Op(0, "update_child_basic_info", Ada) }

Symmetric == Permutations(ChildIds)
==============================================================================
