---------------------------- MODULE MC_Canceller ----------------------------
(* TLC instances of Canceller: three inits, so that two record threads meet *)
(* a third canceller; 10 ms are one unit or two, and a frame has three, so  *)
(* that it is not a whole number of chunks at the higher rate.              *)
EXTENDS Canceller
=============================================================================
