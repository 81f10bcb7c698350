--------------------------- MODULE ReceiverLedger ---------------------------
(***************************************************************************)
(* The receiver implements ScanLedger: the database, read by someone who   *)
(* knows nothing of statuses, memory, restarts and replay, is a ledger.    *)
(***************************************************************************)
EXTENDS Receiver

\* What a reader gets of a scan.
Record ==
    [metadata : Meta, fragments : [Index -> OwnedFragment \cup {None}], tainted : BOOLEAN]

\* None is neither a record nor a fragment of one.
ASSUME RecordNoneAssumption == None \notin Record /\ None \notin OwnedFragment

\* The fragment whose payload packet p holds; None also for a source that is missing.
FragmentOf(p) ==
    IF p \in Archived(db) THEN db.packets[p].fragment ELSE None

\* The row of a key as a reader sees it: its fragments, and whether it was contradicted.
RecordOf(row) ==
    [metadata |-> row.metadata,
     fragments |-> [i \in Index |-> FragmentOf(row.fragments[i])],
     tainted |-> row.conflicts > 0]

ScanOf(k) ==
    IF \E row \in db.scans : row.key = k
    THEN RecordOf(CHOOSE row \in db.scans : row.key = k) ELSE None

Ledger == INSTANCE ScanLedger WITH
    Expected <- fragment_mask,
    archive <- [p \in PacketId |-> FragmentOf(p)],
    scan <- [k \in Key |-> ScanOf(k)]

\* Every step of the receiver, crashes, replay and quarantine included, is a step of the ledger or
\* leaves it alone: README.md:44-53, what is archived stays, a scan has one record that only gains
\* fragments, and a conflict invalidates it for good.
ImplementsLedger == Ledger!Spec

=============================================================================
