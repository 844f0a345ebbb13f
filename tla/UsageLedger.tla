----------------------------- MODULE UsageLedger -----------------------------
(***************************************************************************)
(* What usage accounting promises: the usage of an answered call of a turn *)
(* is owed once, and then either billed, once, or given up for good.       *)
(***************************************************************************)
VARIABLES
  owed,    \* runs whose usage is on its way
  billed,  \* runs with a row
  lost     \* runs whose usage was given up

vars == <<owed, billed, lost>>

Init == owed = {} /\ billed = {} /\ lost = {}

Answer ==
  /\ \E run \in owed' \ (owed \cup billed \cup lost) : owed' = owed \cup {run}
  /\ UNCHANGED <<billed, lost>>

Bill(run) ==
  /\ run \in owed
  /\ owed' = owed \ {run} /\ billed' = billed \cup {run}
  /\ UNCHANGED lost

GiveUp(run) ==
  /\ run \in owed
  /\ owed' = owed \ {run} /\ lost' = lost \cup {run}
  /\ UNCHANGED billed

\* The process stops, and perhaps one row made it.
Stop ==
  \E written \in SUBSET owed :
     /\ \A p, q \in written : p = q
     /\ owed' = {}
     /\ billed' = billed \cup written
     /\ lost' = lost \cup (owed \ written)

Settle == \E run \in owed : Bill(run) \/ GiveUp(run)

Next == Answer \/ Settle \/ Stop

\* Nothing that is owed is promised to be billed, but it does not wait forever.
Ledger == Init /\ [][Next]_vars
Spec   == Ledger /\ WF_vars(Settle)
==============================================================================
