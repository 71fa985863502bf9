------------------------- MODULE MCPositionLifecycle -------------------------
(***************************************************************************)
(* Instances of PositionLifecycle for TLC.                                 *)
(***************************************************************************)
EXTENDS PositionLifecycle, TLC

CONSTANTS t1, c1
=============================================================================
