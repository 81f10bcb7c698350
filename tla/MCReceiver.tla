----------------------------- MODULE MCReceiver -----------------------------
(***************************************************************************)
(* Instances of Receiver for TLC.                                          *)
(***************************************************************************)
EXTENDS ReceiverLedger, TLC

CONSTANTS
    k1, k2,         \* keys
    one, two, other,
                    \* metadata
    s1, s2          \* the steps of a fragment

Counts == [m \in Meta |-> IF m = one THEN 1 ELSE 2]
LongCounts == [m \in Meta |-> 3]

\* A key with an unavailable boot id and one with a valid boot id of zero have
\* the same columns in v2_packet_decodes.
SharedIdentity == [k \in Key |-> "boot id zero"]

Fragment(k, m, i, s) == [key |-> k, metadata |-> m, fragment_index |-> i, steps |-> s]

\* One scan of two fragments.  Fragment 0 also arrives with other steps, and
\* fragment 1 under other metadata.
OneScan ==
    {Fragment(k1, two, 0, s1), Fragment(k1, two, 1, s1),
     Fragment(k1, two, 0, s2), Fragment(k1, other, 1, s1)}

\* The same when the scan has three fragments, with the third, and the first of another scan.
TwoScans == OneScan \cup {Fragment(k1, two, 2, s1), Fragment(k2, two, 0, s1)}

\* One key under metadata that disagrees on the number of fragments.
MixedCounts == {Fragment(k1, one, 0, s1), Fragment(k1, two, 1, s1)}

=============================================================================
