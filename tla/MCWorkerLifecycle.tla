-------------------------- MODULE MCWorkerLifecycle --------------------------
(* Instances of WorkerLifecycle for TLC: two connections, since a new one    *)
(* can exist beside the one that was lost, and its own two consumers.        *)
EXTENDS WorkerLifecycle

MCConsumers == {"moderation", "aggregation"}
=============================================================================
