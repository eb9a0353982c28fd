------------------------- MODULE MCAgentSupervisor --------------------------
(* Finite instances of AgentSupervisor. *)
EXTENDS AgentSupervisor

\* The first manager's plugin may be restarted once, the others' for ever.
OneLimited == [m \in 1..NumManagers |-> IF m = 1 THEN 1 ELSE Unlimited]
NoLimits == [m \in 1..NumManagers |-> Unlimited]
=============================================================================
