--------------------------- MODULE MCRunPipeline ---------------------------
(***************************************************************************)
(* TLC instances of RunPipeline.                                           *)
(***************************************************************************)
EXTENDS RunPipeline, TLC

\* Runs, worker slots and cancel requests are interchangeable.
Symmetry == Permutations(RunIds) \cup Permutations(Workers) \cup Permutations(Cancellers)
=============================================================================
