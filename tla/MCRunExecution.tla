--------------------------- MODULE MCRunExecution ---------------------------
(* Instances of RunExecution for TLC. *)
EXTENDS RunExecution, TLC

\* Workers are interchangeable: no action or property names one of them.
WorkerSymmetry == Permutations(Workers)
=============================================================================
