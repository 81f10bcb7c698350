--------------------------- MODULE TelemetryStore ---------------------------
(***************************************************************************)
(* The durable half of protocol-v2 reassembly: the transactions that       *)
(* crates/vesta-receiver/src/database.rs runs on radio_packets,            *)
(* v2_packet_decodes, v2_profile_scans and v2_profile_fragments.           *)
(*                                                                         *)
(* A store is [packets, scans].  packets[p] is the archived packet p with  *)
(* its reassembly_status; "invalid" stands for disposition 'invalid' with  *)
(* the decode row deleted.  scans is the set of v2_profile_scans rows, in  *)
(* which fragments[i] is the packet v2_profile_fragments links at index i. *)
(* Every operator below is one transaction: SQLite commits all of it or,   *)
(* when it reports an error, none of it.  The errors are predicates of     *)
(* their own, for the caller to test.                                      *)
(*                                                                         *)
(* Payloads are equal exactly when their fragments are: the wire format    *)
(* has one encoding of each fragment.  Radio metadata, receive times,      *)
(* steps and the JSON copy of a row follow the fields modelled here and    *)
(* are left out.                                                           *)
(***************************************************************************)
EXTENDS Reassembly

CONSTANTS
    ReplayLimit,    \* MAX_STARTUP_PENDING_FRAGMENTS
    Identity        \* of each key: its columns in v2_packet_decodes, which
                    \* leave out boot_id_valid

ASSUME StoreAssumption ==
    /\ IsFiniteSet(PacketId)
    /\ PacketId = 1 .. Cardinality(PacketId)
    /\ ReplayLimit \in Nat \ {0}
    /\ Key \subseteq DOMAIN Identity

Status ==
    {"pending", "assembled", "incomplete", "duplicate", "conflict", "invalid"}

PacketRow == [fragment : OwnedFragment, status : Status]

ScanRow ==
    [id : Nat \ {0},
     key : Key,
     metadata : Meta,
     fragments : [Index -> PacketId \cup {None}],
     duplicates : Count,
     conflicts : Count]

\* None is none of the rows and ids it stands beside.
ASSUME StoreNoneAssumption ==
    /\ None \notin PacketId
    /\ None \notin PacketRow
    /\ None \notin ScanRow
    /\ None \notin {"duplicate", "conflict"}

Store == [packets : [PacketId -> PacketRow \cup {None}], scans : SUBSET ScanRow]

EmptyStore == [packets |-> [p \in PacketId |-> None], scans |-> {}]

Archived(db) == {p \in PacketId : db.packets[p] # None}

WithStatus(db, status) == {p \in Archived(db) : db.packets[p].status = status}

Linked(row) == {row.fragments[i] : i \in Received(row.fragments)}

\* transport_complete, computed when the row is inserted.
TransportComplete(row) == Received(row.fragments) = fragment_mask(row.metadata)

CompleteRows(db, k) == {row \in db.scans : row.key = k /\ TransportComplete(row)}

IncompleteRows(db, k) == {row \in db.scans : row.key = k /\ ~ TransportComplete(row)}

\* UPDATE v2_packet_decodes: a packet without a decode row is left alone.
SetStatus(packets, set, status) ==
    [p \in PacketId |->
        IF p \in set /\ packets[p] # None /\ packets[p].status # "invalid"
        THEN [packets[p] EXCEPT !.status = status] ELSE packets[p]]

\* disposition = 'invalid' with the decode row deleted.
Invalidate(packets, set) ==
    [p \in PacketId |->
        IF p \in set THEN [packets[p] EXCEPT !.status = "invalid"] ELSE packets[p]]

\* The next INTEGER PRIMARY KEY: one more than the largest in the table.
NextScanId(scans) ==
    IF scans = {} THEN 1
    ELSE 1 + (CHOOSE row \in scans : \A other \in scans : other.id <= row.id).id

\* Mutant: the counters are overwritten.
SetCounts(row, duplicates, conflicts) ==
    [row EXCEPT !.duplicates = duplicates, !.conflicts = conflicts]

\* Add to the saturating receiver counters of a row.
AddCounts(row, duplicates, conflicts) ==
    [row EXCEPT !.duplicates = saturating_add(@, duplicates),
                !.conflicts = saturating_add(@, conflicts)]

-----------------------------------------------------------------------------
\* The packet and its 'pending' decode row, in one transaction.
archive_v2_profile_fragment(db, f, p) ==
    [db EXCEPT !.packets[p] = [fragment |-> f, status |-> "pending"]]

\* A packet that does not decode is archived and never looked at again.
archive_packet(db, f, p) ==
    [db EXCEPT !.packets[p] = [fragment |-> f, status |-> "invalid"]]

PendingReplayLimitExceeded(db) == Cardinality(WithStatus(db, "pending")) > ReplayLimit

quarantine_pending_profile_fragment(db, p) ==
    [db EXCEPT !.packets = Invalidate(@, {p})]

\* Mutant: incomplete rows are not loaded.
incomplete_profiles_none(db, keys) == {}

\* The transport-incomplete rows a restore loads, of one key or of all: their
\* values now.  The caller works through them by id and then fragment index.
incomplete_profiles(db, keys) == UNION {IncompleteRows(db, k) : k \in keys}

IncompleteReplayLimitExceeded(db, keys) ==
    Cardinality(UNION {Linked(row) : row \in incomplete_profiles(db, keys)}) > ReplayLimit

-----------------------------------------------------------------------------
(***************************************************************************)
(* reconcile_persisted_profile_fragment: packet p of fragment f against    *)
(* every row of its key with a source at its index.                        *)
(***************************************************************************)
\* Mutant: complete scans are not looked at.
PersistedRows_incomplete(db, f) ==
    {row \in IncompleteRows(db, f.key) : row.fragments[f.fragment_index] # None}

PersistedRows(db, f) ==
    {row \in db.scans : row.key = f.key /\ row.fragments[f.fragment_index] # None}

PersistedFragmentMatch(db, f) ==
    LET rows == PersistedRows(db, f)
    IN IF rows = {} THEN None
       ELSE IF \A row \in rows : db.packets[row.fragments[f.fragment_index]].fragment = f
       THEN "duplicate"
       ELSE "conflict"

CountOf(match, status) == IF match = status THEN 1 ELSE 0

\* Mutant: the row is updated and the packet stays pending.
reconcile_row_only(db, f, p) ==
    LET match == PersistedFragmentMatch(db, f)
        rows  == PersistedRows(db, f)
    IN [db EXCEPT !.scans = (@ \ rows) \cup
           {AddCounts(row, CountOf(match, "duplicate"), CountOf(match, "conflict")) :
               row \in rows}]

reconcile_persisted_profile_fragment(db, f, p) ==
    LET match   == PersistedFragmentMatch(db, f)
        rows    == PersistedRows(db, f)
        counted == {AddCounts(row, CountOf(match, "duplicate"), CountOf(match, "conflict")) :
                       row \in rows}
    IN [packets |-> SetStatus(db.packets, {p}, match),
        scans |-> (db.scans \ rows) \cup counted]

-----------------------------------------------------------------------------
(***************************************************************************)
(* coalesce_incomplete_profile_into_completed: the loaded copy of an       *)
(* incomplete row is folded into the complete rows of its key.  The row    *)
(* may be gone by then; its copy is folded all the same.                   *)
(***************************************************************************)
\* The sources of complete rows at the index of one of the copy's sources.
CompletedAt(db, k, i) ==
    {row.fragments[i] : row \in {c \in CompleteRows(db, k) : c.fragments[i] # None}}

CorruptIncompleteProfile(db, profile) ==
    \E i \in Received(profile.fragments) : CompletedAt(db, profile.key, i) = {}

CoalescedDuplicates(db, profile) ==
    {i \in Received(profile.fragments) :
        \A p \in CompletedAt(db, profile.key, i) :
            db.packets[p].fragment = db.packets[profile.fragments[i]].fragment}

\* Mutants: the obsolete row stays; the conflicts get no verdict; the copy's own
\* counters are all that is merged.
coalesce_without_delete(db, profile) ==
    LET complete   == CompleteRows(db, profile.key)
        duplicates == CoalescedDuplicates(db, profile)
        conflicts  == Received(profile.fragments) \ duplicates
        merged     == {AddCounts(row,
                          profile.duplicates + Cardinality(duplicates),
                          profile.conflicts + Cardinality(conflicts)) : row \in complete}
        classified == SetStatus(db.packets, {profile.fragments[i] : i \in duplicates}, "duplicate")
    IN [packets |-> SetStatus(classified, {profile.fragments[i] : i \in conflicts}, "conflict"),
        scans |-> (db.scans \ complete) \cup merged]

coalesce_own_counts(db, profile) ==
    LET complete   == CompleteRows(db, profile.key)
        duplicates == CoalescedDuplicates(db, profile)
        conflicts  == Received(profile.fragments) \ duplicates
        merged     == {AddCounts(row, profile.duplicates, profile.conflicts) : row \in complete}
        obsolete   == {row \in db.scans : row.id = profile.id /\ ~ TransportComplete(row)}
        classified == SetStatus(db.packets, {profile.fragments[i] : i \in duplicates}, "duplicate")
    IN [packets |-> SetStatus(classified, {profile.fragments[i] : i \in conflicts}, "conflict"),
        scans |-> (db.scans \ (complete \cup obsolete)) \cup merged]

coalesce_incomplete_profile_into_completed(db, profile) ==
    LET complete   == CompleteRows(db, profile.key)
        duplicates == CoalescedDuplicates(db, profile)
        conflicts  == Received(profile.fragments) \ duplicates
        merged     == {AddCounts(row,
                          profile.duplicates + Cardinality(duplicates),
                          profile.conflicts + Cardinality(conflicts)) : row \in complete}
        obsolete   == {row \in db.scans : row.id = profile.id /\ ~ TransportComplete(row)}
        classified == SetStatus(db.packets, {profile.fragments[i] : i \in duplicates}, "duplicate")
    IN [packets |-> SetStatus(classified, {profile.fragments[i] : i \in conflicts}, "conflict"),
        scans |-> (db.scans \ (complete \cup obsolete)) \cup merged]

-----------------------------------------------------------------------------
(***************************************************************************)
(* insert_profile_scan and insert_profile_integrity_snapshot: every        *)
(* incomplete row of the key is replaced by a row of the given scan, and   *)
(* the packet that moved a counter, if any, gets its status.               *)
(***************************************************************************)
\* Mutant: the partial rows of the key are not deleted.
Surviving_all(db, k) == db.scans

Surviving(db, k) == db.scans \ IncompleteRows(db, k)

\* UNIQUE (packet_id): a source still linked by another row.
UniquePacketViolation(db, profile) ==
    Packets(profile.fragments) \cap UNION {Linked(row) : row \in Surviving(db, profile.key)} # {}

InsertedRow(db, profile) ==
    [id |-> NextScanId(Surviving(db, profile.key)),
     key |-> profile.key,
     metadata |-> profile.metadata,
     fragments |-> [i \in Index |->
         IF profile.fragments[i] = None THEN None ELSE profile.fragments[i].packet],
     duplicates |-> profile.duplicates,
     conflicts |-> profile.conflicts]

insert_profile_scan(db, profile) ==
    LET row == InsertedRow(db, profile)
    IN [packets |-> SetStatus(db.packets, Linked(row),
            IF TransportComplete(row) THEN "assembled" ELSE "incomplete"),
        scans |-> Surviving(db, profile.key) \cup {row}]

insert_profile_integrity_snapshot(db, profile, p, status) ==
    [insert_profile_scan(db, profile) EXCEPT !.packets = SetStatus(@, {p}, status)]

-----------------------------------------------------------------------------
(***************************************************************************)
(* quarantine_incomplete_profile_fragment: packet p, linked by the         *)
(* incomplete row scan_id of key k, no longer decodes.  Every incomplete   *)
(* row of the key is dismantled; what still decodes goes back to pending.  *)
(* decodes is the set of fragments the running codec accepts.              *)
(***************************************************************************)
\* Mutant: the source is looked for in complete rows.
MissingV2Packet_complete(db, scan_id, p) ==
    ~ \E row \in db.scans : row.id = scan_id /\ TransportComplete(row) /\ p \in Linked(row)

MissingV2Packet(db, scan_id, p) ==
    ~ \E row \in db.scans :
         row.id = scan_id /\ ~ TransportComplete(row) /\ p \in Linked(row)

\* Mutant: the key of the decoded fragment is not compared.
Decodes(db, decodes, k, p) == db.packets[p].fragment \in decodes

DecodesTo(db, decodes, k, p) ==
    db.packets[p].fragment \in decodes /\ db.packets[p].fragment.key = k

\* Duplicate and conflict events of the scan, which no row links.  They are
\* found by the decode row's identity and then matched on the exact key.
IntegrityEvents(db, decodes, k) ==
    {p \in WithStatus(db, "duplicate") \cup WithStatus(db, "conflict") :
        /\ Identity[db.packets[p].fragment.key] = Identity[k]
        /\ DecodesTo(db, decodes, k, p)}

ReplayCandidates(db, decodes, k, p) ==
    LET sources == UNION {Linked(row) : row \in IncompleteRows(db, k)}
        sourced == sources \cap UNION {WithStatus(db, s) :
                      s \in {"pending", "incomplete", "duplicate", "conflict"}}
        events  == IF CompleteRows(db, k) = {} THEN IntegrityEvents(db, decodes, k) ELSE {}
    IN (sourced \cup events) \ {p}

quarantine_incomplete_profile_fragment(db, decodes, k, p) ==
    LET candidates == ReplayCandidates(db, decodes, k, p)
        matching   == {q \in candidates : DecodesTo(db, decodes, k, q)}
        requeued   == SetStatus(db.packets, matching, "pending")
    IN [packets |-> Invalidate(requeued, (candidates \ matching) \cup {p}),
        scans |-> Surviving(db, k)]

=============================================================================
