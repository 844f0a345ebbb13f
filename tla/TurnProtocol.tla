----------------------------- MODULE TurnProtocol -----------------------------
(***************************************************************************)
(* What a chat client sees of a conversation thread, whatever happens in   *)
(* the pipeline: a message starts a turn, the turn may stop once to show a *)
(* popup and goes on when it is answered, and it ends with one reply, or   *)
(* with an error and none.  A new message, instead of an answer to the     *)
(* popup, starts the next turn.                                            *)
(***************************************************************************)
EXTENDS Naturals

CONSTANT MaxTurns  \* bound: messages the parent sends

VARIABLES
  phase,    \* "quiet", "busy", or "waiting" for an answer to the popup
  popups,   \* popups shown in this turn
  replies,  \* replies given in this turn
  turn      \* number of the turn

vars == <<phase, popups, replies, turn>>

Init == phase = "quiet" /\ popups = 0 /\ replies = 0 /\ turn = 0

Message ==
  /\ phase \in {"quiet", "waiting"}
  /\ turn < MaxTurns
  /\ phase' = "busy" /\ popups' = 0 /\ replies' = 0 /\ turn' = turn + 1

Popup ==
  /\ phase = "busy"
  /\ popups = 0
  /\ phase' = "waiting" /\ popups' = 1
  /\ UNCHANGED <<replies, turn>>

Answer ==
  /\ phase = "waiting"
  /\ phase' = "busy"
  /\ UNCHANGED <<popups, replies, turn>>

Reply ==
  /\ phase = "busy"
  /\ phase' = "quiet" /\ replies' = 1
  /\ UNCHANGED <<popups, turn>>

Error ==
  /\ phase = "busy"
  /\ phase' = "quiet"
  /\ UNCHANGED <<popups, replies, turn>>

Next == Message \/ Popup \/ Answer \/ Reply \/ Error

\* The order of what a client sees.
Order == Init /\ [][Next]_vars

\* Once busy, a turn ends or shows its popup; nobody is bound to write.
Spec == Order /\ WF_vars(Popup \/ Reply \/ Error)
===============================================================================
