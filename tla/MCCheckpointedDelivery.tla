------------------------ MODULE MCCheckpointedDelivery ------------------------
(* Finite instances of CheckpointedDelivery: the plans of each run. *)
EXTENDS CheckpointedDelivery

Only(limits) == [f \in Faults |-> IF f \in DOMAIN limits THEN limits[f] ELSE 0]
MCPlan(size, records, limits) ==
  [batchSize |-> size, records |-> records, poison |-> {}, skipsFailed |-> TRUE,
   limit |-> Only(limits)]

\* One long outage made of every kind of loss between plugin and database.
LossyLink == MCPlan(2, <<3, 0>>,
  [senderExit |-> 1, linkDrop |-> 2, ackTimeout |-> 1, writeFailed |-> 1])
\* The plugin process dies while batches are under way.
PluginDies == MCPlan(2, <<3, 0>>, [pluginCrash |-> 2, linkDrop |-> 1, ackTimeout |-> 1])
\* Two kube_logs targets, one refused for good, with a heartbeat between the
\* batches and an agent refused on resume.
SharedQueue ==
  [MCPlan(1, <<2, 2>>, [otherEvent |-> 1, resumeRefused |-> 1]) EXCEPT
     !.poison = {<<1, 1>>}, !.skipsFailed = FALSE]
FaultPlans == {LossyLink, PluginDies, SharedQueue}

\* Every process and the connection fail once, with a heartbeat in the queue.
OneOutage == {MCPlan(1, <<2>>, [senderExit |-> 1, linkDrop |-> 1, pluginCrash |-> 1,
                                otherEvent |-> 1])}
\* Nothing but a heartbeat.
OnlyHeartbeats == {MCPlan(1, <<2>>, [otherEvent |-> 1])}
\* A kube_logs target is refused for good.
OneRefused == {[MCPlan(1, <<1, 1>>, <<>>) EXCEPT !.poison = {<<1, 1>>}, !.skipsFailed = FALSE]}
=============================================================================
