--------------------------- MODULE MCUsageTracker ---------------------------
(***************************************************************************)
(* An instance of UsageTracker for TLC: two nodes of one turn and one of   *)
(* another, one of them resumed without its context.                       *)
(***************************************************************************)
EXTENDS UsageTracker

CONSTANTS turn1, turn2, memory, profile_update, respond

Replying == [turn |-> turn1, path |-> <<respond>>, named |-> TRUE, identified |-> TRUE,
               strategy |-> "STANDARD", use |-> "stream"]
Written    == [turn |-> turn2, path |-> <<memory, profile_update>>, named |-> FALSE,
               identified |-> TRUE, strategy |-> "HEAVY", use |-> "structured"]
Resumed    == [Written EXCEPT !.identified = FALSE]

SomeJobs == {Replying, Written, Resumed}
=============================================================================
