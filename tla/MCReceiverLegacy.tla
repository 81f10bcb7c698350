-------------------------- MODULE MCReceiverLegacy --------------------------
(***************************************************************************)
(* Instances of ReceiverLegacy for TLC: one scan of three fragments.       *)
(***************************************************************************)
EXTENDS ReceiverLegacy, TLC

CONSTANTS k1, m1, s1, s2

Counts == [m \in Meta |-> 3]

OneIdentity == [k \in Key |-> "boot id zero"]

Fragment(i, s) ==
    [key |-> k1, metadata |-> CHOOSE m \in Meta : TRUE, fragment_index |-> i, steps |-> s]

\* The scan, and a conflicting copy of its first fragment.
Copies == {Fragment(i, s1) : i \in Index} \cup {Fragment(0, s2)}

=============================================================================
