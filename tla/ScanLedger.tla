----------------------------- MODULE ScanLedger -----------------------------
(***************************************************************************)
(* What the receiver promises to a reader of its database, without saying  *)
(* how: the archive only grows, and for each scan there is at most one     *)
(* record, built from archived fragments of one metadata.  The record      *)
(* gains fragments and never changes or loses one; it is tainted once the  *)
(* archive contradicts it, and stays so; it is withdrawn only while        *)
(* incomplete, after a codec upgrade has rejected one of its fragments.    *)
(***************************************************************************)
EXTENDS Naturals

CONSTANTS
    Key, PacketId, OwnedFragment,
    Index,          \* fragment indices
    Expected(_),    \* the indices of a scan with this metadata
    None

VARIABLES
    archive,        \* of each packet: its fragment, or None
    scan,           \* of each key: its record, or None
    rejected        \* fragments the installed codec does not accept

vars == <<archive, scan, rejected>>

Archived == {archive[p] : p \in PacketId} \ {None}

\* The archived fragments a record may be built from.
Sources(k, m) == {f \in Archived : f.key = k /\ f.metadata = m}

IsComplete(r) == \A i \in Expected(r.metadata) : r.fragments[i] # None

Supported(k, r) ==
    /\ \E i \in Index : r.fragments[i] # None
    /\ \A i \in Index : r.fragments[i] # None =>
          r.fragments[i] \in Sources(k, r.metadata) /\ r.fragments[i].fragment_index = i

\* An archived fragment of the key that does not fit into the record.
Contradicted(k, r) ==
    \E f \in Archived :
        f.key = k /\ (f.metadata # r.metadata \/ r.fragments[f.fragment_index] # f)

\* The new record continues the old one.
Extends(old, new) ==
    /\ new.metadata = old.metadata
    /\ \A i \in Index : old.fragments[i] # None => new.fragments[i] = old.fragments[i]
    /\ old.tainted => new.tainted

Init ==
    /\ archive = [p \in PacketId |-> None]
    /\ scan = [k \in Key |-> None]
    /\ rejected = {}

Archive(p) ==
    /\ archive[p] = None
    /\ \E f \in OwnedFragment : archive' = [archive EXCEPT ![p] = f]
    /\ UNCHANGED <<scan, rejected>>

Report(k) ==
    /\ scan'[k] # None
    /\ scan' = [scan EXCEPT ![k] = scan'[k]]
    /\ Supported(k, scan'[k])
    /\ scan[k] # None => Extends(scan[k], scan'[k])
    /\ scan'[k].tainted => Contradicted(k, scan'[k])
    /\ UNCHANGED <<archive, rejected>>

Withdraw(k) ==
    /\ scan[k] # None
    /\ ~ IsComplete(scan[k])
    /\ \E i \in Index : scan[k].fragments[i] \in rejected
    /\ scan' = [scan EXCEPT ![k] = None]
    /\ UNCHANGED <<archive, rejected>>

Reject ==
    /\ rejected \subseteq rejected'
    /\ rejected' \subseteq OwnedFragment
    /\ UNCHANGED <<archive, scan>>

Next == (\E p \in PacketId : Archive(p)) \/ (\E k \in Key : Report(k) \/ Withdraw(k)) \/ Reject

Spec == Init /\ [][Next]_vars

=============================================================================
