--------------------------- MODULE MC_AudioPlayer ---------------------------
(* TLC instances of AudioPlayer: three players, of which the first may       *)
(* linger while the second is replaced by the third.                         *)
EXTENDS AudioPlayer
=============================================================================
