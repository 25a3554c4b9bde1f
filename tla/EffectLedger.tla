---------------------------- MODULE EffectLedger ----------------------------
(***************************************************************************)
(* What a fiber promises (fiber.rs:1-19), free of slots, handles and       *)
(* threads: an effect is registered while its owner is open, and is undone *)
(* exactly once; when the owner closes, every effect it owns is undone     *)
(* without anyone having to ask.                                           *)
(***************************************************************************)
CONSTANT Effects

VARIABLES
  open,    \* does the owner accept effects
  status   \* of each effect: "none", "live" or "undone"

vars == <<open, status>>

Init ==
  /\ open = TRUE
  /\ status = [e \in Effects |-> "none"]

Register(e) ==
  /\ open
  /\ status[e] = "none"
  /\ status' = [status EXCEPT ![e] = "live"]
  /\ UNCHANGED open

Undo(e) ==
  /\ status[e] = "live"
  /\ status' = [status EXCEPT ![e] = "undone"]
  /\ UNCHANGED open

Close ==
  /\ open
  /\ open' = FALSE
  /\ UNCHANGED status

Next == Close \/ \E e \in Effects : Register(e) \/ Undo(e)

(* A closed owner undoes what it owns. *)
Unwind == ~open /\ \E e \in Effects : Undo(e)

(* What an owner may do, and what it must. *)
Safety == Init /\ [][Next]_vars
Spec == Safety /\ WF_vars(Unwind)
=============================================================================
