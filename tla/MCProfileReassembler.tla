------------------------ MODULE MCProfileReassembler ------------------------
(***************************************************************************)
(* Three scans compete for one or two places in the table.  The metadata   *)
(* m1 announces one fragment and m2 two, so that a fragment may disagree   *)
(* with its scan's metadata and point past the end of a finished scan.     *)
(***************************************************************************)
EXTENDS ProfileReassembler, TLC

CONSTANTS m1, m2

Counts == (m1 :> 1) @@ (m2 :> 2)

=============================================================================
