--------------------------- MODULE VideoOutputMC ---------------------------
(* TLC instance of VideoOutput: sizes that differ in width and in height,    *)
(* sources of which one is narrower and higher than the other, and a request *)
(* too large for the header's bytes, cut to a size unknown to the program.   *)
EXTENDS VideoOutput

MCSources == {<<2, 2>>, <<1, 3>>}
MCKnown == {<<1, 1>>}
MCRequests == {<<0, 0>>, <<5, 5>>}
=============================================================================
