----------------------------- MODULE DecodersMC -----------------------------
(* TLC instance of Decoders: the players are interchangeable.               *)
EXTENDS Decoders, TLC

MCSymmetry == Permutations(Player)
=============================================================================
