--------------------------- MODULE MC_FilterBuffer ---------------------------
(* TLC instances of FilterBuffer: MC_FilterBuffer.cfg puts whole frames into *)
(* a ring of three or four frames, as playBuffer and filterBuffer are used;  *)
(* MC_FilterBufferRagged.cfg puts runs of any length.                        *)
EXTENDS FilterBuffer

WholeFrames == {TakeSize, 2 * TakeSize}
AnyLength   == 1 .. Capacity - 1
=============================================================================
