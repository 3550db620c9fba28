---------------------------- MODULE MCTtsSharing -----------------------------
(* Two requests on one process that grants two permits, plain ones or ones *)
(* that run LoRA candidates.                                               *)
EXTENDS TtsSharing, TLC

CONSTANTS r1, r2

MCThreads == {r1, r2}
==============================================================================
