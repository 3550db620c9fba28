-------------------------------- MODULE Sums --------------------------------
(* The sum of a sequence of numbers, for the token budgets and the split   *)
(* planner of the TTS modules.                                             *)
EXTENDS Integers, Sequences, SequencesExt

Total(s) == FoldLeft(+, 0, s)
=============================================================================
