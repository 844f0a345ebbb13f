------------------------------- MODULE MCExecute -------------------------------
(***************************************************************************)
(* Instances of Execute for TLC.                                           *)
(***************************************************************************)
EXTENDS Execute, TLC

CONSTANTS b1, b2, b3

\* Two books of one title, and one with a title of its own.
MCTitles == (b1 :> "one") @@ (b2 :> "one") @@ (b3 :> "two")

\* Nothing, one call, each loop beside a call, and both loops together.
MCPlans == { {}, {"compare"}, {"recommend", "content"}, {"evaluate", "compare", "path"},
             {"recommend", "evaluate", "discussion"} }
===============================================================================
