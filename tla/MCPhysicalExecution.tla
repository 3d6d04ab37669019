------------------------ MODULE MCPhysicalExecution ------------------------
(* Small instances of PhysicalExecution for TLC.                           *)
EXTENDS PhysicalExecution, TLC

\* Two jobs that share one device.
OneDevice == [j \in Jobs |-> "d1"]

\* The first job has the tighter deadline.
Deadlines == [j \in Jobs |-> j]

\* The coroutines of a batch are interchangeable.
WorkerSymmetry == Permutations(Workers)

AttemptIds == 1 .. (Cardinality(Jobs) * MaxGeneration)
=============================================================================
