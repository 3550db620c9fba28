--------------------------- MODULE MCEpisodeFlow ---------------------------
(* TLC instances of EpisodeFlow. *)
EXTENDS EpisodeFlow, TLC

CONSTANTS w1, w2

Symmetry == Permutations(Worker)
=============================================================================
