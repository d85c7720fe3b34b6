------------------------------ MODULE MCPipeline ------------------------------
(* Instances of Pipeline for TLC. *)
EXTENDS PipelineInv, TLC

AllFaults == FaultKinds

\* Documents, replicas and job slots are interchangeable.
Symmetric == Permutations(Docs) \cup Permutations(Replicas) \cup Permutations(JobSlots)
==============================================================================
