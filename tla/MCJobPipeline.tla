--------------------------- MODULE MCJobPipeline ---------------------------
(* TLC instances of JobPipeline. *)
EXTENDS JobPipeline, TLC

CONSTANTS w1, w2, j1, r1, r2, r3

Symmetry == Permutations(Worker) \cup Permutations(Request)
=============================================================================
