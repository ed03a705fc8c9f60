--------------------------- MODULE AudioOutputMC ---------------------------
(* TLC instance of AudioOutput: the players are interchangeable.            *)
EXTENDS AudioOutput, TLC

MCSymmetry == Permutations(Session)
=============================================================================
