---------------------------- MODULE MCAgentTurn ----------------------------
(* Small instances of AgentTurn: two prompts where drivers overlap, three  *)
(* where they take turns.                                                  *)
EXTENDS AgentTurn, TLC

CONSTANTS d1, d2

MCMaxTurns == [e \in TurnEnvironments |-> IF e \cap {"overlap", "refuse"} # {} THEN 2 ELSE 3]

DriversAlike == Permutations(Drivers)
=============================================================================
