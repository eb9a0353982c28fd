------------------------------ MODULE Chunking ------------------------------
(***************************************************************************)
(* How the Kubernetes and the Keycloak plugin cut what a poll has brought  *)
(* into batches: in the order of time, and never between two entries of    *)
(* one time stamp (src/agent/plugins/kube_logs_plugin.py and               *)
(* keycloak_events_plugin.py).                                             *)
(***************************************************************************)
EXTENDS Integers

\* For each time up to `last`, the number of the chunk that what has this time
\* stamp goes into, and the time at which that chunk begins.  Full has <<b, t>>
\* when a chunk that began at b is closed before the entries of t.
Place(stamps, last, Full) ==
  LET place[t \in 0..last] ==
        LET was == IF t = 0 THEN [number |-> 0, begin |-> 0] ELSE place[t - 1]
        IN IF t \in stamps /\ (was.number = 0 \/ <<was.begin, t>> \in Full)
           THEN [number |-> was.number + 1, begin |-> t]
           ELSE was
  IN place
=============================================================================
