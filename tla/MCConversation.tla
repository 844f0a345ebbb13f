---------------------------- MODULE MCConversation ----------------------------
(***************************************************************************)
(* Instances of Conversation for TLC.                                      *)
(***************************************************************************)
EXTENDS Conversation

\* A request for books with a fact on the side, and a greeting.
MCIntentSets == { {"book_recommendation", "child_profile_update"}, {"clarify"} }
===============================================================================
