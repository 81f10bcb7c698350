------------------------- MODULE MCTemporalFeatures -------------------------
(***************************************************************************)
(* One v2 series in two boots and one v1 series, four scans of each.  The  *)
(* sequence number has four values and starts at the third, so it wraps    *)
(* after scan 1, and no two scans of a boot share a number.                *)
(***************************************************************************)
EXTENDS TemporalFeatures

=============================================================================
