-------------------------- MODULE MCStreamSession --------------------------
(* Instances of StreamSession for TLC. *)
EXTENDS StreamSession, TLC

\* Workers are interchangeable: no action or property names one of them.
WorkerSymmetry == Permutations(Workers)
=============================================================================
