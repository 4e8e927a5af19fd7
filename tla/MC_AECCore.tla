------------------------------ MODULE MC_AECCore ------------------------------
(* TLC instances of AECCore.  The counts are scaled down, in their order:    *)
(* WarmUp <= UnderrunAfter < Rollover.                                       *)
EXTENDS AECCore
=============================================================================
