----------------------------- MODULE MCSx1262 -----------------------------
(***************************************************************************)
(* Instances of Sx1262 for TLC.                                            *)
(***************************************************************************)
EXTENDS Sx1262, TLC

=============================================================================
