---------------------------- MODULE MCConfirmPolicy ----------------------------
(***************************************************************************)
(* Instance of ConfirmPolicyCheck for TLC: lists of up to three of nine    *)
(* operations, among them nulls, blanks, unknown keys and wrong types.     *)
(***************************************************************************)
EXTENDS ConfirmPolicyCheck

MCKeys   == {"display_name", "aliases", "gender", "grade", "school_system"}
MCValues == {None, Blank, NoAliases, IllTyped, "New child", "Male", "Female", "Ada", "Zed",
             "boy", "junk"}

Call(name, args) == [tool |-> name, arguments |-> args]
NoArguments == [k \in {} |-> None]

MCMenu ==
  { Call("create_child", NoArguments),
    Call("create_child", [aliases |-> "Zed", school_system |-> "Ada"]),
    Call("update_child_basic_info", [display_name |-> "Ada", gender |-> "boy"]),
    Call("update_child_basic_info", [display_name |-> None, gender |-> "junk"]),
    Call("update_child_basic_info", [grade |-> IllTyped]),
    Call("update_child_basic_info", [aliases |-> NoAliases, grade |-> "Zed"]),
    Call("update_child_basic_info", [aliases |-> Blank]),
    Call("update_member_basic_info", [gender |-> "boy", grade |-> "Ada"]),
    Call("update_reading_interest", [display_name |-> "Zed"]) }

Reply(yes, kid, adult) == [approved |-> yes, child |-> kid, member |-> adult]
MCResumes ==
  { Malformed, Reply(FALSE, NoRecord, NoRecord), Reply(TRUE, NoRecord, NoRecord),
    Reply(TRUE, [display_name |-> Blank], NoRecord), Reply(TRUE, [gender |-> "Female"], NoArguments) }
==============================================================================
