-------------------------- MODULE MC_FilterBuffer2 --------------------------
(* TLC instances of FilterBuffer2, scaled down: a ring of three frames and a *)
(* rest that is shorter than a frame's audio, as 8 kHz and 16 kHz rings have *)
(* (176 of 816 bytes, 976 of 1616); and one whose rest is longer.            *)
EXTENDS FilterBuffer2
=============================================================================
