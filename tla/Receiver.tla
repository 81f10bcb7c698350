------------------------------ MODULE Receiver ------------------------------
(***************************************************************************)
(* The receiver process of crates/vesta-receiver/src/main.rs: the listen   *)
(* loop, startup recovery, and the path of one profile fragment from the   *)
(* radio through the archive and the reassembler into the scan table.      *)
(*                                                                         *)
(* One action performs at most one transaction of TelemetryStore together  *)
(* with the work in memory around it, so Crash can fall between any two    *)
(* transactions.  A failed write, to SQLite or to standard output, ends    *)
(* the process and is a Crash as well.  systemd starts it again            *)
(* (Restart=on-failure, no start limit).                                   *)
(*                                                                         *)
(* The radio delivers any fragment at any time: losses, repetitions and    *)
(* reordering need no action of their own.                                 *)
(***************************************************************************)
EXTENDS TelemetryStore

CONSTANTS
    Delivered,      \* the fragments the radio may deliver
    MaxExits,       \* bound: how often the process is stopped or crashes
    MaxRejected     \* bound: how many fragments a codec upgrade may reject

ASSUME ReceiverAssumption ==
    /\ Delivered \subseteq OwnedFragment
    /\ MaxExits \in Nat
    /\ MaxRejected \in Nat

VARIABLES
    db,             \* the SQLite database: all that outlives the process
    rejected,       \* fragments the installed codec no longer accepts
    exits,          \* how often the process was stopped or crashed
    failure,        \* the error the last run ended with, if any
    phase,          \* "down", "restore", "replay", "live" or "stopping"
    reassembler,    \* the ProfileReassembler
    clock,          \* orders observation times within one run
    profiles,       \* restore: loaded copies of incomplete rows, to do
    profile,        \* restore: the copy being replayed, if any
    left,           \* restore: its fragment indices still to replay
    counts_restored,
    quarantined,    \* restore: quarantined_keys
    pending,        \* startup: pending packets still to replay
    current,        \* the packet in ingest_archived_profile_fragment, if any
    stage,          \* where in it: "idle", "reconcile", "ingest" or "handle"
    backlog,        \* scans that left the reassembler, to be persisted
    event           \* the ingest result to be handled after them, if any

durable == <<db, rejected, exits>>
restore == <<profiles, profile, left, counts_restored, quarantined>>
fragment == <<current, stage>>
output == <<backlog, event>>
vars == <<durable, failure, phase, reassembler, clock, restore, pending, fragment, output>>

decodes == OwnedFragment \ rejected

\* No process has run yet on the database at hand.
InitProcess ==
    /\ rejected = {}
    /\ exits = 0
    /\ failure = None
    /\ phase = "down"
    /\ reassembler = EmptyReassembler
    /\ clock = 0
    /\ profiles = {} /\ profile = None /\ left = {}
    /\ counts_restored = FALSE /\ quarantined = {}
    /\ pending = {}
    /\ current = None /\ stage = "idle"
    /\ backlog = {} /\ event = None

Init == db = EmptyStore /\ InitProcess

\* The process is gone and its memory with it.
Forget ==
    /\ phase' = "down"
    /\ reassembler' = EmptyReassembler
    /\ clock' = 0
    /\ profiles' = {} /\ profile' = None /\ left' = {}
    /\ counts_restored' = FALSE /\ quarantined' = {}
    /\ pending' = {}
    /\ current' = None /\ stage' = "idle"
    /\ backlog' = {} /\ event' = None

\* An error returned through listen: the transaction under way is rolled back.
Exit(error) ==
    /\ failure' = error
    /\ Forget
    /\ UNCHANGED durable

\* ReassemblyError::InternalState.  Startup replay of a pending fragment
\* quarantines that fragment and goes on; everywhere else the process ends.
ReassemblyFailure ==
    IF phase = "replay" /\ current # None
    THEN IF db.packets[current].status = "pending"
         THEN /\ db' = quarantine_pending_profile_fragment(db, current)
              /\ profiles' = {} /\ profile' = None /\ left' = {}
              /\ backlog' = {} /\ event' = None
              /\ current' = None /\ stage' = "idle"
              /\ UNCHANGED <<rejected, exits, failure, phase, reassembler, clock,
                             counts_restored, quarantined, pending>>
         ELSE Exit("MissingV2Packet")
    ELSE Exit("InternalState")

-----------------------------------------------------------------------------
\* No scan and no event waits to be written.
Written == backlog = {} /\ event = None

\* ... and no row copy waits to be replayed.
Restored == Written /\ profile = None /\ profiles = {}

Least(S) == CHOOSE n \in S : \A m \in S : n <= m

\* handle_profile_fragment_result has nothing to write for a pending fragment.
EventOf(result, p) ==
    IF result.event = "Pending" THEN None
    ELSE [event |-> result.event,
          profile |-> IF result.event = "Complete" THEN result.profile
                      ELSE result.integrity_snapshot,
          packet |-> p]

\* The fragment in hand is done once its result is written.
FinishFragment(nextStage) ==
    IF nextStage = "handle" /\ backlog' = {} /\ event' = None
    THEN current' = None /\ stage' = "idle"
    ELSE stage' = nextStage /\ UNCHANGED current

-----------------------------------------------------------------------------
(***************************************************************************)
(* Startup: listen opens the store, reconcile_pending_profiles loads every *)
(* transport-incomplete row, replays them, then loads and replays every    *)
(* pending packet, and only then opens the radio.                          *)
(***************************************************************************)
Start ==
    /\ phase = "down"
    /\ IF IncompleteReplayLimitExceeded(db, Key)
       THEN Exit("IncompleteReplayLimitExceeded")
       ELSE /\ phase' = "restore"
            /\ failure' = None
            /\ profiles' = incomplete_profiles(db, Key)
            /\ UNCHANGED <<durable, reassembler, clock, profile, left, counts_restored,
                           quarantined, pending, fragment, output>>

\* Mutant: the receiver goes live without replaying pending packets.
LoadPending_none ==
    /\ phase = "restore"
    /\ Restored
    /\ phase' = "replay"
    /\ UNCHANGED <<durable, failure, reassembler, clock, restore, pending, fragment, output>>

LoadPending ==
    /\ phase = "restore"
    /\ Restored
    /\ IF PendingReplayLimitExceeded(db)
       THEN Exit("PendingReplayLimitExceeded")
       ELSE /\ phase' = "replay"
            /\ pending' = WithStatus(db, "pending")
            /\ UNCHANGED <<durable, failure, reassembler, clock, restore, fragment, output>>

\* The next packet of the loaded list, in id order: quarantined if it no longer
\* decodes, else taken through ingest_archived_profile_fragment.
ReplayPending ==
    /\ phase = "replay"
    /\ stage = "idle"
    /\ pending # {}
    /\ LET p == Least(pending)
           f == db.packets[p].fragment
       IN IF f \in decodes
          THEN /\ current' = p
               /\ stage' = "reconcile"
               /\ pending' = pending \ {p}
               /\ clock' = clock + 1
               /\ UNCHANGED <<durable, failure, phase, reassembler, restore, output>>
          ELSE IF db.packets[p].status = "pending"
          THEN /\ db' = quarantine_pending_profile_fragment(db, p)
               /\ pending' = pending \ {p}
               /\ UNCHANGED <<rejected, exits, failure, phase, reassembler, clock,
                              restore, fragment, output>>
          ELSE Exit("MissingV2Packet")

OpenRadio ==
    /\ phase = "replay"
    /\ stage = "idle"
    /\ pending = {}
    /\ phase' = "live"
    /\ UNCHANGED <<durable, failure, reassembler, clock, restore, pending, fragment, output>>

-----------------------------------------------------------------------------
(***************************************************************************)
(* restore_incomplete_profiles, over the copies loaded by its caller: at   *)
(* startup all of them, for a late fragment those of its key.              *)
(***************************************************************************)
NextProfile == CHOOSE row \in profiles : \A other \in profiles : row.id <= other.id

OpenProfile ==
    /\ Written
    /\ profile = None
    /\ profiles # {}
    /\ LET row == NextProfile
       IN IF row.key \in quarantined
          THEN /\ profiles' = profiles \ {row}
               /\ UNCHANGED <<db, profile, left, counts_restored,
                              rejected, exits, failure, phase, reassembler, clock,
                              quarantined, pending, fragment, output>>
          ELSE IF CompleteRows(db, row.key) = {}
          THEN /\ profiles' = profiles \ {row}
               /\ profile' = row
               /\ left' = Received(row.fragments)
               /\ counts_restored' = FALSE
               /\ UNCHANGED <<durable, failure, phase, reassembler, clock,
                              quarantined, pending, fragment, output>>
          ELSE IF CorruptIncompleteProfile(db, row)
          THEN Exit("CorruptIncompleteProfile")
          ELSE /\ profiles' = profiles \ {row}
               /\ db' = coalesce_incomplete_profile_into_completed(db, row)
               /\ UNCHANGED <<rejected, exits, failure, phase, reassembler, clock, profile,
                              left, counts_restored, quarantined, pending, fragment, output>>

\* A source that no longer decodes: its key is dismantled and forgotten.
QuarantineSource ==
    LET p == profile.fragments[Least(left)]
    IN IF MissingV2Packet(db, profile.id, p)
       THEN Exit("MissingV2Packet")
       ELSE /\ db' = quarantine_incomplete_profile_fragment(db, decodes, profile.key, p)
            /\ reassembler' = discard(reassembler, profile.key)
            /\ quarantined' = quarantined \cup {profile.key}
            /\ profile' = None
            /\ left' = {}
            /\ UNCHANGED <<rejected, exits, failure, phase, clock, profiles,
                           counts_restored, pending, fragment, output>>

\* The durable counters join the active scan once, as soon as it is active.
WithCounts(r) ==
    IF contains_active(r, profile.key)
    THEN restore_receiver_counts(r, profile.key, profile.duplicates, profile.conflicts)
    ELSE r

ReplaySource ==
    LET i      == Least(left)
        p      == profile.fragments[i]
        f      == db.packets[p].fragment
        before == counts_restored \/ contains_active(reassembler, profile.key)
        ready  == IF counts_restored THEN reassembler ELSE WithCounts(reassembler)
    IN \E victim \in Victims(ready, f) :
          LET call == ingest_at(ready, f, p, clock, victim)
          IN /\ reassembler' = IF before THEN call.state ELSE WithCounts(call.state)
             /\ counts_restored' = (before \/ contains_active(call.state, profile.key))
             /\ backlog' = {call.result.evicted} \ {None}
             /\ event' = EventOf(call.result, p)
             /\ left' = left \ {i}
             /\ clock' = IF phase = "restore" THEN clock + 1 ELSE clock
             /\ UNCHANGED <<durable, failure, phase, profiles, profile, quarantined,
                            pending, fragment>>

RestoreFragment ==
    /\ Written
    /\ profile # None
    /\ left # {}
    /\ IF db.packets[profile.fragments[Least(left)]].fragment \in decodes
       THEN ReplaySource
       ELSE QuarantineSource

CloseProfile ==
    /\ Written
    /\ profile # None
    /\ left = {}
    /\ IF counts_restored
       THEN /\ profile' = None
            /\ UNCHANGED <<durable, failure, phase, reassembler, clock, profiles, left,
                           counts_restored, quarantined, pending, fragment, output>>
       ELSE ReassemblyFailure

-----------------------------------------------------------------------------
(***************************************************************************)
(* ingest_archived_profile_fragment, for the packet in hand.               *)
(***************************************************************************)
CurrentFragment == db.packets[current].fragment

Reconcile ==
    /\ stage = "reconcile"
    /\ LET f     == CurrentFragment
           match == PersistedFragmentMatch(db, f)
       IN IF match # None
          THEN /\ db' = reconcile_persisted_profile_fragment(db, f, current)
               /\ reassembler' =
                     IF contains_active(reassembler, f.key)
                     THEN restore_receiver_counts(reassembler, f.key,
                             CountOf(match, "duplicate"), CountOf(match, "conflict"))
                     ELSE reassembler
               /\ current' = None
               /\ stage' = "idle"
               /\ UNCHANGED <<rejected, exits, failure, phase, clock, restore, pending, output>>
          ELSE IF contains_active(reassembler, f.key)
          THEN /\ stage' = "ingest"
               /\ UNCHANGED <<durable, failure, phase, reassembler, clock, restore,
                              pending, current, output>>
          ELSE IF IncompleteReplayLimitExceeded(db, {f.key})
          THEN Exit("IncompleteReplayLimitExceeded")
          ELSE /\ stage' = "ingest"
               /\ profiles' = incomplete_profiles(db, {f.key})
               /\ quarantined' = {}
               /\ UNCHANGED <<durable, failure, phase, reassembler, clock, profile, left,
                              counts_restored, pending, current, output>>

IngestCurrent ==
    /\ stage = "ingest"
    /\ Restored
    /\ LET f == CurrentFragment
       IN \E victim \in Victims(reassembler, f) :
             LET call == ingest_at(reassembler, f, current, clock, victim)
             IN /\ reassembler' = call.state
                /\ backlog' = {call.result.evicted} \ {None}
                /\ event' = EventOf(call.result, current)
    /\ FinishFragment("handle")
    /\ UNCHANGED <<durable, failure, phase, clock, restore, pending>>

-----------------------------------------------------------------------------
\* persist_profile, for a scan that was evicted, expired or drained.
PersistProfile ==
    \E scan \in backlog :
        IF UniquePacketViolation(db, scan)
        THEN Exit("Sqlite")
        ELSE /\ db' = insert_profile_scan(db, scan)
             /\ backlog' = backlog \ {scan}
             /\ UNCHANGED event
             /\ FinishFragment(stage)
             /\ UNCHANGED <<rejected, exits, failure, phase, reassembler, clock, restore, pending>>

\* The event of an ingest, once the evicted scan is stored: a completed scan is
\* stored; a duplicate or conflict is stored with the snapshot it must come with.
HandleEvent ==
    /\ backlog = {}
    /\ event # None
    /\ IF event.profile = None
       THEN ReassemblyFailure
       ELSE IF UniquePacketViolation(db, event.profile)
       THEN Exit("Sqlite")
       ELSE /\ db' = IF event.event = "Complete"
                     THEN insert_profile_scan(db, event.profile)
                     ELSE insert_profile_integrity_snapshot(db, event.profile, event.packet,
                             IF event.event = "Duplicate" THEN "duplicate" ELSE "conflict")
            /\ event' = None
            /\ UNCHANGED backlog
            /\ FinishFragment(stage)
            /\ UNCHANGED <<rejected, exits, failure, phase, reassembler, clock, restore, pending>>

-----------------------------------------------------------------------------
(***************************************************************************)
(* The listen loop.                                                        *)
(***************************************************************************)
Idle == phase = "live" /\ stage = "idle" /\ Written

\* A packet from the radio is archived before anything else happens to it.
Receive(f) ==
    /\ Idle
    /\ Archived(db) # PacketId
    /\ LET p == Least(PacketId \ Archived(db))
       IN IF f \in decodes
          THEN /\ db' = archive_v2_profile_fragment(db, f, p)
               /\ current' = p
               /\ stage' = "reconcile"
               /\ clock' = clock + 1
          ELSE /\ db' = archive_packet(db, f, p)
               /\ UNCHANGED <<fragment, clock>>
    /\ UNCHANGED <<rejected, exits, failure, phase, reassembler, restore, pending, output>>

\* persist_expired_profiles, which every iteration of the loop calls: any prefix
\* of the observation times may have passed the timeout by then.
PersistExpired(cutoff) ==
    /\ Idle
    /\ reassembler' = expire_before(reassembler, cutoff)
    /\ reassembler' # reassembler
    /\ backlog' = FinishAll(reassembler, ExpiredKeys(reassembler, cutoff))
    /\ UNCHANGED <<durable, failure, phase, clock, restore, pending, fragment, event>>

\* An iteration in which nothing arrived and nothing expired.
PollNothing ==
    /\ Idle
    /\ UNCHANGED vars

\* SIGINT, SIGTERM, --count or --duration: the loop ends and drains.
Stop ==
    /\ Idle
    /\ exits < MaxExits
    /\ exits' = exits + 1
    /\ phase' = "stopping"
    /\ backlog' = FinishAll(reassembler, ActiveKeys(reassembler))
    /\ reassembler' = drain_incomplete(reassembler)
    /\ UNCHANGED <<db, rejected, failure, clock, restore, pending, fragment, event>>

Stopped ==
    /\ phase = "stopping"
    /\ Written
    /\ Forget
    /\ UNCHANGED <<durable, failure>>

-----------------------------------------------------------------------------
\* Power loss, SIGKILL, a failed write: anywhere outside a transaction.
Crash ==
    /\ phase # "down"
    /\ exits < MaxExits
    /\ exits' = exits + 1
    /\ Forget
    /\ UNCHANGED <<db, rejected, failure>>

\* A newer receiver is installed whose codec is stricter.
UpgradeCodec(f) ==
    /\ phase = "down"
    /\ Cardinality(rejected) < MaxRejected
    /\ rejected' = rejected \cup {f}
    /\ UNCHANGED <<db, exits, failure, phase, reassembler, clock, restore, pending,
                   fragment, output>>

Process ==
    \/ Start
    \/ LoadPending
    \/ ReplayPending
    \/ OpenRadio
    \/ OpenProfile
    \/ RestoreFragment
    \/ CloseProfile
    \/ Reconcile
    \/ IngestCurrent
    \/ PersistProfile
    \/ HandleEvent
    \/ \E cutoff \in 1 .. clock + 1 : PersistExpired(cutoff)
    \/ Stopped

Environment ==
    \/ \E f \in Delivered : Receive(f)
    \/ PollNothing
    \/ Stop
    \/ Crash
    \/ \E f \in Delivered : UpgradeCodec(f)

Next == Process \/ Environment

Spec == Init /\ [][Next]_vars

-----------------------------------------------------------------------------
(***************************************************************************)
(* Properties.                                                             *)
(***************************************************************************)
Event ==
    [event : {"Complete", "Duplicate", "Conflict"},
     profile : ReassembledProfile \cup {None},
     packet : PacketId]

ASSUME EventNoneAssumption == None \notin Event

\* The variables have the types of the values they stand for.
TypeOK ==
    /\ db \in Store
    /\ rejected \subseteq Delivered
    /\ exits \in Nat
    /\ phase \in {"down", "restore", "replay", "live", "stopping"}
    /\ reassembler \in Reassembler
    /\ clock \in Nat
    /\ profiles \subseteq ScanRow
    /\ profile \in ScanRow \cup {None}
    /\ left \subseteq Index
    /\ counts_restored \in BOOLEAN
    /\ quarantined \subseteq Key
    /\ pending \subseteq PacketId
    /\ current \in PacketId \cup {None}
    /\ stage \in {"idle", "reconcile", "ingest", "handle"}
    /\ backlog \subseteq ReassembledProfile
    /\ event \in Event \cup {None}

\* As long as the fragments of a key announce one count, the receiver never ends on an
\* inconsistency of its own making, at startup or later, after any crash: no InternalState,
\* CorruptIncompleteProfile, MissingV2Packet or violated UNIQUE (packet_id).  What ends it is a replay limit
\* (database.rs:738, :1097) that what is stored does exceed, and goes on to exceed
\* while the process is down.
FailsAtLimitsOnly ==
    failure # None =>
        /\ phase = "down"
        /\ \/ failure = "PendingReplayLimitExceeded" /\ PendingReplayLimitExceeded(db)
           \/ failure = "IncompleteReplayLimitExceeded" /\ IncompleteReplayLimitExceeded(db, Key)

\* README.md:52 "a retransmission cannot silently create a second scan":
\* one row for each logical key, whatever was restored, evicted or replayed.
OneScanPerKey ==
    \A a, b \in db.scans : a.key = b.key => a = b

\* Provenance: a packet is assembled, or incomplete, exactly when it is linked by
\* a complete, or incomplete, row; by one row only, of its own key and metadata,
\* at its own index.
ProvenanceExact ==
    /\ \A p \in Archived(db) :
          /\ db.packets[p].status = "assembled" <=>
                \E row \in db.scans : TransportComplete(row) /\ p \in Linked(row)
          /\ db.packets[p].status = "incomplete" <=>
                \E row \in db.scans : ~ TransportComplete(row) /\ p \in Linked(row)
    /\ \A row \in db.scans : \A i \in Received(row.fragments) :
          LET f == db.packets[row.fragments[i]].fragment
          IN f.key = row.key /\ f.metadata = row.metadata /\ f.fragment_index = i
    /\ \A a, b \in db.scans : a # b => Linked(a) \cap Linked(b) = {}

\* The archived copies of a scan's fragments that got this verdict.
Classified(k, status) == {p \in WithStatus(db, status) : db.packets[p].fragment.key = k}

Decodable(packets) == {p \in packets : db.packets[p].fragment \in decodes}

\* docs/server-analysis.md:174-175 "a crash before completion cannot lose a taint
\* already assigned to an archived source packet", and no replay counts it twice:
\* a row's counters are the numbers of packets with that verdict.  Packets whose
\* verdict outlived a dismantled row because they no longer decode may be missing.
CountersExact ==
    \A row \in db.scans :
        /\ Cardinality(Decodable(Classified(row.key, "duplicate"))) <= row.duplicates
        /\ row.duplicates <= Cardinality(Classified(row.key, "duplicate"))
        /\ Cardinality(Decodable(Classified(row.key, "conflict"))) <= row.conflicts
        /\ row.conflicts <= Cardinality(Classified(row.key, "conflict"))

\* A verdict is true of what is stored: the scan of a duplicate has the same
\* fragment at that index, the scan of a conflict does not.
VerdictsTrue ==
    \A k \in Key : \A p \in Decodable(Classified(k, "duplicate") \cup Classified(k, "conflict")) :
        \E row \in db.scans :
            /\ row.key = k
            /\ LET f == db.packets[p].fragment
                   q == row.fragments[f.fragment_index]
               IN IF db.packets[p].status = "duplicate"
                  THEN q # None /\ db.packets[q].fragment = f
                  ELSE q # None => db.packets[q].fragment # f

Held == UNION {Packets(reassembler.active[k].fragments) : k \in ActiveKeys(reassembler)}

\* No archived fragment is forgotten until the next restart: once the receiver
\* waits for the radio, every pending packet fills a slot of an active scan.
PendingIsHeld == Idle => WithStatus(db, "pending") \subseteq Held

\* Memory and store agree on a scan that is both active and persisted: the active
\* scan has every persisted source and the same counters, and a complete scan is
\* not being reassembled again.
MemoryMatchesStore ==
    Idle => \A k \in ActiveKeys(reassembler) : \A row \in db.scans : row.key = k =>
        LET a == reassembler.active[k]
        IN /\ ~ TransportComplete(row)
           /\ a.metadata = row.metadata
           /\ \A i \in Received(row.fragments) :
                 a.fragments[i] # None /\ a.fragments[i].packet = row.fragments[i]
           /\ a.duplicates = row.duplicates
           /\ a.conflicts = row.conflicts

\* Startup replay stays bounded: pending packets are those of scans that fit in
\* the table, and the one in hand.  (Dismantling a row requeues more.)
PendingBounded ==
    rejected = {} =>
        Cardinality(WithStatus(db, "pending")) <= MaxActive * (MaxFragments - 1) + 1

-----------------------------------------------------------------------------
(***************************************************************************)
(* Liveness.  The process is single threaded and its loop never blocks     *)
(* longer than the poll interval, so each of its steps is taken in the     *)
(* end; systemd restarts it; and every scan passes the timeout in the end. *)
(* Nothing is assumed of the radio, of crashes or of upgrades, except that *)
(* MaxExits bounds the crashes.                                            *)
(***************************************************************************)
FairSpec == Spec /\ WF_vars(Process)

\* Every archived fragment gets its verdict: it is assembled, incomplete,
\* duplicate, conflict or invalid in the end.
EventuallyClassified ==
    \A p \in PacketId : p \in WithStatus(db, "pending") ~> p \notin WithStatus(db, "pending")

\* docs/server-analysis.md:161 "one poison packet cannot prevent startup": whatever
\* is stored, and however the process ended, a restart reaches the radio.
StartsInTheEnd == phase = "down" ~> phase = "live"

=============================================================================
