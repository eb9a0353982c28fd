--------------------------- MODULE MCIndexerStore ---------------------------
(* Finite instances of IndexerStore. *)
EXTENDS IndexerStore, TLC

CONSTANTS x1, bad, u1, a1, b1

MCSize == [x \in Contents |-> IF x = x1 THEN 2 ELSE 1]
MCSymmetry == Permutations(Conns)

\* Bounds what clients and administrators do, to two scenes: with one agent_id
\* and one batch anything may happen; with another agent_id or another batch,
\* there are the agents of one user, which stay, and nothing is pruned.  What a
\* handler does never leaves the scenes.
OneAgentId ==
  /\ \A c \in Conns : msg[c] # None =>
       IF "wants" \in DOMAIN msg[c] THEN msg[c].wants = a1 ELSE msg[c].key[2] = b1
  /\ \A a \in AgentIds : agents[a].pk # 0 => a = a1
  /\ \A k \in Keys : receipts[k] # None => k[2] = b1
OneUser ==
  /\ \A c \in Conns : user[c] \in {u1, None}
  /\ \A a \in AgentIds : agents[a].pk # 0 => agents[a].owner # None
  /\ \A k \in Keys : pruned[k] = 0
  /\ nextPk = 1 + Cardinality({a \in AgentIds : agents[a].pk # 0})
Scenes == OneAgentId \/ OneUser
=============================================================================
