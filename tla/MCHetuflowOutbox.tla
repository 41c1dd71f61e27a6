-------------------------- MODULE MCHetuflowOutbox --------------------------
(***************************************************************************)
(* Instances of HetuflowOutbox for TLC: every process its own worker_id,   *)
(* or every process the default one.                                       *)
(***************************************************************************)
EXTENDS HetuflowOutbox, TLC

\* A worker_id of its own for every process.
OwnIds == Worker
OwnIdOf == [w \in Worker |-> w]

\* WorkerConfig::default(): one constant worker_id.
DefaultId == {"hetuflow-worker"}
DefaultIdOf == [w \in Worker |-> "hetuflow-worker"]

=============================================================================
