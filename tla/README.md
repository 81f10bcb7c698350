# TLA+ models of the Vesta receiver

The receiver listens on an SX1262 LoRa radio, archives every packet in SQLite,
reassembles the fragments of sensor scans and stores each scan with its
provenance. This directory models the part of it that must survive lost,
repeated, reordered and contradicting packets, a bounded memory, timeouts, and
crashes between any two database transactions: the radio driver, the codec,
profile reassembly, the transactions everything is persisted with, the schema
migration, the receiver process around them, and the analysis of what is stored.

Paths below are relative to the repository (`crates/vesta-receiver/src/` where
only a file name is given).

## 1. Inventory

| Component | State | Operations | Modelled in |
|---|---|---|---|
| `ProfileReassembler` (`reassembly.rs`) | active scans by key, a queue of completed scans, a capacity | `ingest_at`, `expire_before`, `drain_incomplete`, `discard`, `restore_receiver_counts` | `Reassembly`, `ProfileReassembler` |
| `TelemetryStore` (`database.rs`), v2 profiles | `radio_packets`, `v2_packet_decodes`, `v2_profile_scans`, `v2_profile_fragments` | archive, reconcile, insert, integrity snapshot, coalesce, two kinds of quarantine, bounded loads | `TelemetryStore` |
| `TelemetryStore`, other records | v1 readings, device configuration, device health | one transaction each | `PacketArchive` |
| schema creation, migration 1/2 to 3 | `user_version`, tables | `initialize`, `migrate_schema_two` | `SchemaMigration` |
| receiver process (`main.rs`, `deploy/vesta-receiver.service`) | everything in memory, the loop | startup recovery, receive, expire, stop, crash, restart | `Receiver`, `ReceiverLegacy`, `ReceiverLedger`, `PacketArchive` |
| `TemporalFeatureExtractor` (`analysis.rs`) | last good sample per series and boot | `ingest` | `TemporalFeatures` |
| profile features, analysis gate (`analysis.rs`) | none | checks on a scan and a configuration | `AnalysisGate` |
| logical records (`records.rs`) | none | validators | `ProtocolV2` |
| SX1262 driver (`sx1262.rs`) | chip mode, interrupt flags, queued edges | `open`, `poll_receive`, `Drop` | `Sx1262` |
| protocol v2 codec (`vesta-protocol/src/v2.rs`) | none | encode, decode | `ProtocolV2`, `WireV2` |
| protocol v1 codec, version dispatch | none | encode, decode | `PacketArchive` (dispatch and lengths) |
| rendering, command line (`lib.rs`, `main.rs`) | none | formatting | no |

How they interact. The process is single threaded. `listen` opens the store,
runs `reconcile_pending_profiles` (load every transport-incomplete row, replay
their sources through the reassembler, then replay every `pending` packet), and
only then opens the radio. For each packet from `poll_receive` it archives the
fragment as `pending`, asks the store whether a persisted scan already has that
fragment, otherwise loads the incomplete rows of its key back into the
reassembler, ingests it, stores what the reassembler hands back, and finally
stores what has expired. Memory and database hold overlapping views of one scan
and every crash keeps only the database. The extractor is a library on top of
the stored samples.

What is hard. Each of these is in `PROJECT.json` under `hazards`, at its line:

- a crash between archive and ingest, between ingest and store, between two of
  several stores;
- counters kept twice, in the active scan and in the row it will replace;
- rows loaded into memory as copies and changed underneath them;
- a late fragment after expiry, eviction, completion or restart;
- capacity, the replay limit, saturating counters, the wrap of sequence numbers;
- one stored source that no longer decodes after an upgrade;
- databases that an older receiver left behind;
- a radio that goes on receiving between the SPI transactions that read a packet;
- checks of single fragments that must add up to a scan the store accepts;
- two processes migrating one file; a version read before the transaction;
- boots that cannot be told apart, whose fragments join into one scan.

What makes each component correct:

- *Reassembler*: bounded; never mixes scans; the first copy of a fragment wins;
  no accepted packet is dropped or handed back twice.
- *Store and process*: one row per key; a packet's status says exactly which row
  links it; counters equal the verdicts given; complete scans and taints are
  permanent; no pending packet is forgotten; every start reaches the radio.
- *Extractor*: a rate never bridges a gap, a recovery or a reboot.
- *Driver*: a packet that has a turn to itself is handed over exactly; no
  flag stays unhandled; the radio is never left receiving.
- *Codec*: what is encoded decodes, what decodes is canonical, and fragments that
  decode add up to scans a node could have sent.
- *Migration*: nothing durable is lost, an open store is usable, and every supported
  database opens in the end.
- *Gate*: what analysis may use is one scan with known, read-back settings.

## 2. Modules

| Module | Lines of the code | Content |
|---|---|---|
| `Reassembly` | `reassembly.rs:23-545` | the reassembler as operators on a record |
| `ProfileReassembler` | `reassembly.rs:149-393` | the same as a state machine: any call at any time |
| `TelemetryStore` | `database.rs:66-1676` | each transaction as an operator on the database value |
| `Receiver` | `main.rs:173-939` | the process: composes `Reassembly` and `TelemetryStore` |
| `ReceiverLegacy` | tests at `main.rs:1892`, `main.rs:1969` | `Receiver` started on a database of an older receiver |
| `TemporalFeatures` | `analysis.rs:92-389` | the extractor, fed any samples |
| `ScanLedger` | | abstract: what a reader of the database is promised |
| `ReceiverLedger` | | the refinement mapping from `Receiver` to `ScanLedger` |
| `Sx1262` | `sx1262.rs` | the driver, one SPI transaction per action, against the radio |
| `ProtocolV2` | `v2.rs`, `records.rs`, `reassembly.rs:421-645` | encoders, decoders and validators as operators on frames of fields |
| `WireV2` | | a record sent, repeated, lost and altered on its way to the receiver |
| `SchemaMigration` | `database.rs:466-509`, `database.rs:1684-1713` | opening, creating and migrating a database, statement by statement |
| `PacketArchive` | `main.rs:173-428`, `database.rs:516-720`, `vesta-protocol/src/lib.rs` | the loop around packets of every kind and their transactions |
| `AnalysisGate` | `analysis.rs:392-602` | the gate over scans and configurations as they arrive; extends `ProtocolV2` |
| `ReassemblyProofs` | | lemmas about the operators of `Reassembly`, for the two that follow |
| `ProfileReassemblerProofs`, `ReceiverProofs` | | theorems about `ProfileReassembler`; about `Receiver` and its refinement of `ScanLedger` |
| `ReceiverLegacyProofs` | | theorems about `ReceiverLegacy` |
| `ProtocolProofs` | | theorems about `WireV2` and `AnalysisGate`, the lemmas about `ProtocolV2` that both need, and theorems about `TemporalFeatures` |
| `SchemaMigrationProofs`, `PacketArchiveProofs`, `Sx1262Proofs` | | theorems about the components named |
| `MC*` | | instances for TLC |

How code became model:

- *Opaque data.* `ProfileKey`, `ProfileMetadata` and the steps of a fragment are
  only compared by the code, so `Key`, `Meta` and `Body` are sets of model
  values. `FragmentCount` is the one number read from the metadata. A payload is
  identified with its fragment: the wire format has one encoding of each.
- *`active`* is a function from keys to scans or `None`; *`completed`* is a
  function too, with the ordinal of the `push_back` in the entry, so the front
  of the queue is the entry with the least ordinal. Bitmaps are sets of indices.
  The tie in `min_by_key` over a `HashMap` is a choice (`EvictionChoices`).
- *Transactions.* An operator of `TelemetryStore` is a whole transaction. Its
  errors are predicates (`UniquePacketViolation`, `CorruptIncompleteProfile`,
  `MissingV2Packet`, the two limits), and an error leaves the database alone.
  `invalid` stands for `disposition = 'invalid'` with the decode row deleted.
  `Identity` of a key is what `v2_packet_decodes` stores of it: `boot_id_valid`
  is not a column there.
- *Atomicity.* An action of `Receiver` does at most one transaction with the
  memory work before or after it, so `Crash` falls between any two transactions.
  A failed write to SQLite or to standard output ends the process and is a crash.
- *Time.* Observation times are ordinals (`clock`). `PersistExpired(cutoff)`
  stands for the call at the end of an iteration, with any prefix of the
  observation times older than 120 s. Fragments restored on behalf of a late
  fragment get the observation time of that fragment; the code adds nanoseconds.
- *Upgrades.* `rejected` holds the fragments that a newly installed, stricter
  codec no longer decodes. That is the only way a stored source can fail.
- *Radio.* `Receive(f)` delivers any fragment of `Delivered`, at any time: loss,
  repetition and reordering are in that choice.
- *Ledger.* `ScanLedger` knows an archive, one record per key, and the fragments a
  codec upgrade rejects; no statuses, memory, restarts or replay. The mapping reads
  the archive from `radio_packets` and a record from the row of a key, with
  `tainted` for a conflict counter above zero.
- *Radio chip.* The SX1262, its buffer, its status byte and the queue of DIO1 edges
  are external, with the assumptions named in the module. A packet on the air
  writes the buffer and sets flags between any two transactions. History variables
  record which packets were disturbed by another in the same turn.
- *Frames* are records of fields, with the number of bytes after the last whole
  step or TLV, so lengths and windows are arithmetic and field order is not
  modelled. Flag words and bitmaps are sets. Values that no check reads are one
  opaque field. The hash is a constant operator; the instances use one with
  collisions and with the reserved value zero.
- *Alterations.* `Alter` changes one field of the frame in the air: a fault the PHY
  CRC did not catch, or a faulty node.
- *Statements.* In `SchemaMigration` and `PacketArchive` each SQL statement is a
  step, so failure and crash fall between any two; the transaction works on a
  private copy. SQLite's lock and rollback are external.
- *Gate.* A node takes two scans with a restart in between, with a nonce or
  without. Steps carry the settings and the scan they were taken with; the gate
  does not see the latter, the properties do.
- *Extractor.* A sample has the ordinal `scan` that the device gave it; the code
  does not see it, the properties do. `Newer` is `elapsed_since(...).is_some()`.

## 3. Runs

| Run | Bounds | Shows |
|---|---|---|
| `reassembler` | 3 keys, capacity 1, scans of 1 and 2 fragments, 4 packets, counters saturate at 2 | every order of calls: `CacheExclusive`, `HandedConsistent`, `NothingLost`, `FirstCopyWins` |
| `receiver` | a scan of 3 fragments with a conflicting copy and one of other metadata, and the first fragment of another scan with the same decode-row identity; capacity 1, 4 packets, 2 exits, 1 rejected fragment, replay limit 2 | `OneScanPerKey`, `ProvenanceExact`, `CountersExact`, `PendingIsHeld`, `MemoryMatchesStore`, `PendingBounded`, `FailsAtLimitsOnly` |
| `receiver_live` | one scan of 2 fragments with the same copies, 4 packets, 2 exits, 1 rejected, counters saturate at 2, fair | `ImplementsLedger`, `EventuallyClassified`, `StartsInTheEnd` |
| `receiver_legacy` | any legacy database of at most 5 packets of one scan of 3 fragments, with a conflicting copy, 6 packets in all, 2 crashes or stops | `CompletedAlone`, `CoalescedOnce` |
| `archive` | payloads of every kind, `--count 2`, 3 packets, 2 failed runs | `RowsWhole`, `PrintedIsStored`, `LossBounded` |
| `migration` | 2 processes, any database of version 0 to 4, 2 packet ids, 3 failures or crashes, fair | `OpenIsUsable`, `MigratedLinksHold`, `DurableKept`, `SupportedOpens` |
| `sx1262` | 3 packets, 2 buffer offsets, 1 fault, 1 kill, fair | `UndisturbedHanded`, `MixedOnlyDisturbed`, `NoStalePacket`, `LeftInStandby`, `FlagsHandled`, `ListensAgain` |
| `wire` | unaltered: scans of up to 10 steps with every set of missing steps and records that do not validate; altered: scans of 4 steps and short records of the other kinds, 2 alterations | `EncodedFramesDecode`, `StoreAccepts`, `FaithfulWhenUnaltered`, `Canonical`, `CompleteScansEncode` |
| `gate` | 2 boots, 2 fragments each, 3 configurations with 2 hashes, another node's, one fault per scan | `UsableIsOneScan`, `OnlyConflictsWithdraw`, `CleanBecomesUsable` |
| `temporal` | 2 boots and no boot, 4 scans, sequence numbers wrap, 1 v1 series | `RatesSound`, `HistoryAdvances`, `BaselineFresh` |
| `receiver_poison` | 2 packets of one key with different fragment counts, 1 exit, fair | violates `StartsInTheEnd` |
| `sx1262_corrupt` | 2 packets, no fault | violates `CorruptNeverRead` |

`TypeOK` of a module says what its variables hold; it is the base of the proofs and
is left out of the runs, which are kept for what could go wrong.

Why the bounds are enough for the cases they are for: four packets are a scan of
three and a duplicate or conflict, a scan of two with one of each, or two
evictions with what brings the evicted scan back; an incomplete row of the longer
scan may hold two sources when it is restored, extended or dismantled. Two exits
are a crash during live work and another during the recovery from it; one
rejected fragment can be a source, a peer or an integrity event. `MaxCount` is
above the number of packets in `receiver` and `receiver_legacy`, so that counters can
be compared with the number of verdicts; they saturate in memory in `reassembler` and
in the database in `receiver_live`, where the ledger says that a taint stays one.
A replay limit of two is reached by pending packets and by the sources of incomplete
rows in `receiver`; in the other two it is beyond the packets there are. Three
fragments and five packets (`receiver_legacy`) are legacy rows that complete the scan,
contradict each other, or do neither, and a complete row with two more beside it, each
folded in a transaction of its own; the sixth packet comes when a start has succeeded.

Three packets on the air (`MaxPackets`) are one that is read, one that disturbs it
and one after the flags are cleared; one fault (`MaxFaults`) is a rejected
command, a failed transaction or a failed reset. Ten steps (`MaxSteps`) are the
real maximum, with a last fragment of one step. Alterations (`Alterable`) are
checked on scans of four steps (a full and a partial fragment) with a few sets of
missing steps, on configurations of up to two steps and on health records; `Counts` are the values a count field is altered to, on both sides
of the true one, and two alterations (`MaxAlter`) can make a change consistent
with a redundant field. Two openers are all a race needs; the third stop
(`MaxStops`) leaves one for each opener and one for the retry. `MaxTaken` and
`MaxExits` give a run that fails, one that is cut off, and one that counts to the
end.

Deadlock is checked except where the system may stop: in `wire` a record that the
encoder refuses is never sent, and in `migration` every store is open in the end.
In `Receiver`, `PollNothing` is the loop iteration in which nothing happens.

Two runs end in a counterexample, each a disagreement between the code and what
the repository says of it (`findings` in `PROJECT.json` quotes the lines):

- `receiver_poison`: two fragments of one key that announce different fragment
  counts leave two rows of that key, and from then on every start ends with
  `CorruptIncompleteProfile`; systemd restarts the receiver forever. Keys can
  repeat across boots when the boot nonce is unavailable (README.md:38), so this
  needs no faulty device.
- `sx1262_corrupt`: a packet with a CRC error that ends after the flags were read
  has its bytes read and handed over.

### Known limits

The models show further places where the code does less than a reader of the
documents may expect. No run is kept for them; the passing properties are stated
so that they say what does hold.

- *Incomplete rows and the replay limit.* The sources of incomplete rows count
  against the replay limit (`database.rs:1097`) and nothing ever removes them, so
  scans whose rest was lost make the receiver refuse to start in the end, with no
  packet pending. `PendingBounded` is about pending packets only. The run `receiver`
  reaches this refusal, and `FailsAtLimitsOnly` states it as the one error of its own,
  besides the limit of pending packets, that the process ends on.
- *Legacy rows and crashes.* When legacy rows complete a scan, storing it deletes
  every incomplete row of the key (`database.rs:1511`), while the others are merged
  one transaction each (`main.rs:593`). A crash in between leaves sources
  `incomplete` that no row links. `receiver_legacy` crashes there too; what its
  properties say holds all the same, and they do not speak of such sources.
- *Longer legacy scans.* If a legacy row's source completes the scan and the row
  has another source after it, that source hits the completed cache, which takes
  no snapshot, and startup ends with `InternalState` (`main.rs:883`). In
  `receiver_legacy` such a start fails too, and its properties speak of the
  database once a start succeeds.
- *Legacy rows of many scans.* If the rows of one key have rows of other keys between
  them, and more keys than the table has slots, the scan is evicted after its first row
  and starts again with the next: the two rows are not compared, and memory lacks a
  stored source. A verdict that is then counted on the stored row is lost when the scan
  is stored the next time. `receiver_legacy` therefore has one key.
- *Reused row ids.* Coalescing a legacy row into a complete one deletes it by the id of
  the copy that startup loaded (`database.rs:1427`), and ids are reused (`INTEGER PRIMARY
  KEY`, `database.rs:192`). Take rows of two scans in the order k1, k1, k2, k2, k1, k1, one
  packet each. The first two complete k1; storing it deletes all its rows (`database.rs:1511`)
  and takes id 5. The two of k2 conflict, and their snapshot takes id 6. Then the copy of
  k1's last row, once number 6, is coalesced, and the row of k2 with its conflict is
  deleted. The condition `transport_complete = 0` saves complete rows, which is what
  `CompletedScansStay` proves.
- *Incomplete legacy rows stay apart.* Rows of a key that do not complete the scan
  together and do not contradict each other are restored into one scan in memory and remain
  several rows until the scan leaves memory. The document promises the merge "when a same-key
  complete scan already exists" (server-analysis.md:176-178), which `CompletedAlone` states;
  it says nothing of these rows.
- *Two packets in one turn.* Of two packets between two clearings of the flags one
  is lost without a trace (`sx1262.rs:299`), and payload and measurements that are
  handed over may be those of different packets (`sx1262.rs:400`).
  `UndisturbedHanded` and `MixedOnlyDisturbed` say exactly how far the promises
  hold: for packets that share their turn with no other event.
- *Stale edges.* The level of DIO1 is taken first and its queued edge later, which
  is reported as an interrupt that did not happen (`sx1262.rs:281`).
- *Rejected settings.* A rejected setting followed by an accepted command goes
  unnoticed, and the driver listens without it; a rejected `SetRx` leaves it polling
  a radio in standby (`sx1262.rs:443`). `ListensAgain` says that the driver polls
  again, not that the radio hears.

The passing receiver runs claim nothing of keys with two fragment counts: there all
fragments of a key announce one count (`two` and `other` differ in content only).

### Fairness

`FairSpec` assumes weak fairness of `Process`: the steps of a single-threaded
program that never waits longer than 250 ms for the radio, the restart
(`Restart=on-failure`, `StartLimitIntervalSec=0`; a clean stop is followed by
whoever starts it again), and the passing of the 120 s timeout on a monotonic
clock. Nothing is assumed of the radio, of stops, crashes and upgrades, which
may happen or not. `MaxExits` bounds stops and crashes and `PacketId` the
packets, so "in the end" means once those are used up: a receiver that crashes
again before each recovery ends classifies nothing.

`Sx1262` assumes weak fairness of the driver's own steps and of the restart, and
nothing of the radio. `SchemaMigration` assumes it of each process: a statement
returns, a lock that is free is taken, and a failed process is started again.

## 4. Proofs

The proof modules hold for every value of the constants that meets the named
assumptions; TLC evaluates these assumptions on its instances. Every inductive
invariant was checked by TLC on the instance of its run before it was proved (that
of `WireV2` with one alteration instead of two).

### Reassembler (`ProfileReassemblerProofs`, `ReassemblyProofs`)

Assumptions: `ReassemblyAssumption` (positive capacity, counters and fragment
counts, finitely many keys), `NoneAssumption` (`None` differs from the values it
stands beside) and `CallerAssumption` (packet ids are positive, times natural).

The theorems `FirstCopy`, `CacheStaysExclusive`, `HandedSound` and `NoPacketLost`
state the properties the run `reassembler` checks; `TypeCorrect`, `MemoryBounded`
and `ScansNeverMix` state those they rest on, which the run would only repeat. All but `FirstCopy` follow from `Safety`, that the
conjunction `IInv` of the type invariant and the six invariants is inductive.
They need each other: a completed scan is handed back sound only because active
scans are (`ActivePartial`), and the bound on the completed cache needs that a
scan that completes was not in it (`CacheExclusive`).

The argument has three layers. `IngestStep` splits `ingest_at` into four shapes
(cache hit, counted, pending, complete), with what each does to the table.
Lemmas on the operators (`AcceptSlots`, `CompleteBound`, `OldestExists`,
`RoomForOne`) say what those shapes need; `OldestExists` uses well-founded
induction on the naturals to show that the front of the queue exists. For
`NothingLost` the table is read as a ledger, a function from keys to sets of
packets: `LedgerAccept` and `LedgerRelease` prove that entering a fresh packet
and handing back some keys' packets keep the ledger, and each action is a
combination of the two.

The lemmas about the operators are in `ReassemblyProofs`, a module without
variables, because the receiver composes the same operators.

### Receiver (`ReceiverProofs`)

Assumptions: those of the reassembler, `StoreAssumption`, `StoreNoneAssumption`,
`ReceiverAssumption` and `EventNoneAssumption`; and, as a hypothesis of each
theorem, `OneCountPerKey`: the fragments of one key announce one fragment count.
That hypothesis is not idle. Without it the run `receiver_poison` has a
counterexample, and the passing receiver runs meet it.

| Theorem | States |
|---|---|
| `OneRowPerScan` | `OneScanPerKey` |
| `ExactProvenance` | `ProvenanceExact` |
| `NothingForgotten` | `PendingIsHeld` |
| `MemoryAgrees` | `MemoryMatchesStore` |
| `OnlyLimits` | `FailsAtLimitsOnly`: the process ends on no error of its own but a replay limit that the store exceeds |
| `NoFailure` | the process never ends on an error of its own, when the archive is within the replay limit |
| `TypeCorrect` | `TypeOK` |

`Safety` is that `IInv` is inductive. None of the properties is so alone, because
each crash leaves the database as the only witness of what memory knew. The
parts of `IInv`:

- *the store* (`StoreSound`): one row per key, rows link archived packets that fit
  into them and have their status, and no packet has that status without a row;
- *scans in memory*, be they in the table (`ActiveSound`), on their way to the
  store (`BacklogSound`) or in the result of an ingest (`EventSound`): their packets
  are archived and wait for a verdict, they are in one of those places only, and
  they cover the row that they will replace (`Covers`), so that deleting it
  loses nothing;
- *counters* (`CountsSound`): equal in memory and store except between the ingest
  that moved one and the transaction that writes it;
- *the completed cache* (`CacheSound`): it answers for rows that are stored, or
  about to be;
- *restoring* (`ProfilesSound`, `ProfileSound`): the copies that were loaded still are
  rows of the store, which is why folding a copy into a complete row never meets
  a row that is gone;
- *where the process is* (`PhaseSound`, `SearchedSound`, `CurrentSound`,
  `PendingSound`, `DecodeSound`): what must be empty at each stage, and that every
  pending packet is to be replayed, in hand or in memory.

The proof has one lemma per transaction on what it does to the packets and rows of
its key (`InsertEffect`, `SnapshotEffect`, `ReconcileEffect`, `QuarantineEffect`,
...), one frame lemma for the other keys (`StoreFrame`, `OtherKeys`), and one step
lemma per action. A replayed source and a received fragment fill slots in the same
way (`FillSound`).

### Counters, bounds and the ledger (`ReceiverProofs`, second half)

Assumptions: those of the receiver and `RecordNoneAssumption` (`None` is neither a
record nor a fragment); `OneCountPerKey` is again a hypothesis.

| Theorem | States |
|---|---|
| `ExactCounters` | `CountersExact`, when the archive has no more packets than a counter can count |
| `BoundedPending` | `PendingBounded` |
| `PendingNeverTooMany` | it is never pending packets that a start fails on, if the limit covers a full table and the packet in hand |
| `LedgerImplemented` | `ImplementsLedger`: `Spec => Ledger!Spec` |
| `TrueVerdicts` | `VerdictsTrue`: a duplicate is in the row of its scan, a conflict is not |

The second hypothesis of `ExactCounters` is needed: a `u16` that saturates stops
counting, and the archive does not. The other theorems do without it.

`LedgerSafety` is that `LInv` is inductive: `IInv`, and

- `VerdictsSound`: a packet with a verdict, if it decodes, has a row that the verdict
  is true of. A conflict is refuted by other metadata or by another fragment at the
  same index, not by an empty slot, so that no later source can make it false;
- `TaintsSound`: a row with conflicts is refuted by a packet of the archive, be it
  one that no longer decodes. With it a dismantled scan that is built again
  has no taint without a cause;
- `EventTrue`: the verdict on its way to the store is true of the scan beside it;
- `MemoryCounts`: the counters of every scan in memory are those of its row, or zero
  without one, and one ahead for the verdict under way. `CountsSound` says this of
  scans with a row only, which is too little: a row written for the first
  time would start from any number.

The argument looks at the store only. `StoreSteps` shows that every step leaves the
database alone, archives a packet, drops one, dismantles a row or writes a row
that continues the row of its key (`Continues`: same metadata, same sources and more,
counters moved by one verdict). What is claimed of the store is then shown for these
five, once for each property. `ExactCounters` adds `RowsExact` and `CountMoves`, the
arithmetic of one more element. `BoundedPending` adds that the table is bounded
(`NextBounded`) and that what it holds is (`HeldBound`): each held packet has a key
and an index to itself, and no scan uses all its indices. For the refinement, the
five become `Reject` or a stutter, `Archive`, a stutter, `Withdraw` and `Report`.

### Databases of an older receiver (`ReceiverLegacyProofs`)

Assumptions: those of the receiver and `OneCountPerKey`. The specification is `LegacySpec`:
any database that `LegacyInit` allows, then everything `Receiver` may do, crashes and
upgrades of the decoder included, for any number of scans, fragments, slots and packets.

| Theorem | States |
|---|---|
| `LegacySafety` | `LegacyInv`, on which the other two rest |
| `CompletedScansStandAlone` | `CompletedAlone`, which `receiver_legacy` checks: once startup is over, a complete row is the only one of its key |
| `CompletedScansStay` | `CompletedStays`: a complete row keeps its sources and its counters never fall |

Neither follows from `IInv`, which legacy databases break in nearly every part: a key has
several rows, packets that were handed to the reassembler are linked by rows of the past,
counters of memory and store differ while rows are folded. `LegacyInv` keeps what survives:

- *the store* (`StoreLegal`): a key has one complete row at most, and rows link archived
  packets of their key, which may be linked twice;
- *scans in memory* (`TableLegal`, `OutLegal`, `ResultLegal`): made of archived packets of
  their key, and not stored as complete. Only the result of an ingest may be complete, and is
  in the cache then (`CacheLegal` keeps its ordinals in order);
- *copies* (`CopiesLegal`): the loaded copies are incomplete and link packets of the archive,
  whatever became of their rows; one that is being restored while its scan is stored as
  complete stays in the cache, so that no second scan is started for it (`Cached`);
- *folding* (`FoldLegal`): while a complete row has an incomplete one beside it, the process
  is down or the copy of that row is yet to be restored. This is the heart of
  `CompletedScansStandAlone`, and it survives crashes because the copies are loaded again;
- *the quarantine* (`QuarantineLegal`): a scan that startup dismantled is gone from memory
  and is not stored as complete.

One lemma per transaction says that it makes a legal store of a legal one and keeps complete
rows (`Legal`, `Kept`), `IngestLegal` and `MovedLegal` say what the reassembler leaves in
memory, and `NextLegal` puts the steps together. `Grouping` and `LegacyRow` are shown to make a
legal store in `LegacyStoreLegal`.

### Radio driver (`Sx1262Proofs`)

Assumptions: `Sx1262Assumption` and `NoneAssumption`. `ExitLeavesStandby` holds
for any number of faults. `StaleTakesTwoFaults`, `MixingNeedsDisturbance` and
`UndisturbedArrives` hold in every state with at most one fault so far, which is
what the run allows. That is no weakness of the proof: two faults do break
`NoStalePacket` (a reset that does not take, and then a rejected
`ClearIrqStatus`, which `open` cannot notice, leave the flags of the earlier process for
`poll_receive`; TLC shows it with `MaxFaults = 2`). The invariant says
what has been received and read at each place in the program (`Control`, `RadioSound`,
`ReadSound`, `StartsQuiet`), and, of a packet that shared its turn with no other
event, where it is on its way from the air to the caller (`Whereabouts` in `Receives`).

### Migration (`SchemaMigrationProofs`)

Assumption: `MigrationAssumption`. `OpenStoreUsable`, `LinksHold` and
`NothingDurableLost` hold for any set of processes and any number of failures.
The invariant ties the lock to the transaction (`LockHeld`), the state of foreign
keys to the version that was read (`KeysKnown`), and the private copy to the file, which nobody
can change meanwhile (`TransactionSound`): a version read before the lock was
taken may be old, and the copy still has every row.

### Archive (`PacketArchiveProofs`)

Assumption: `ArchiveAssumption`. `ArchiveIsWhole`, `OutputIsStored` and
`AtMostOneLostPerFailure` hold for any payloads, any number of packets and of failed
runs. The invariant says which rows a transaction has written when it is cut off
after any statement (`Transaction`).

### Extractor (`ProtocolProofs`)

Assumptions: `TemporalAssumption` (a boot has at most as many scans as there are
sequence numbers; device time grows from scan to scan, in `ProfileSample`) and
`MissingAssumption`. `ExtractorTypeCorrect` is the invariant: what is kept is good and under
its own key. `RatesAreSound` adds the arithmetic of the wrap (`Adjacent`);
`HistoryOnlyAdvances` and `BaselineIsFresh` follow from the same invariant.

### Codec and wire (`ProtocolProofs`)

Assumptions: `ProtocolAssumption` (1 to 10 steps: with more, `EncodedProfile` would
have too few frames), `NoneAssumption`, `WireAssumption` and `RecordsAssumption`
(what a node offers has the fields of a record in memory, sound or not). Nothing is
assumed of the hash, of which records are offered, and of how often a frame is sent,
lost or altered.

| Theorem | States |
|---|---|
| `FramesDecode` | `EncodedFramesDecode` |
| `AcceptedFramesAreCanonical` | `Canonical` |
| `RecordsPassTheStore` | `StoreAccepts` |
| `CompleteScansAreScans` | `CompleteScansEncode` |
| `UnalteredRecordsArrive` | `FaithfulWhenUnaltered` |
| `WireInvariant` | `WireInv`, on which all but the first two rest |

`WireInv` is `AirInv`, which says that a frame in the air has the fields of a frame of
the record's kind, whatever was altered; and `KeptInv`: what the receiver keeps of a
scan are fragments with everything the decoder checked (`Fragment`), all of one scan
with no index twice (`OneScan`), and, while nothing was altered, what it makes of the
node's frames. The argument then is about data. Encoders put steps and TLVs in order
with a filter over positions (`InOrder`, `Tlvs`), and decoders compare with the same
filter, so the lemmas say that a sequence in this order is determined by its set
(`InOrderFacts`, `TlvsRead`), that window and count arithmetic agree on both sides
(`FragmentCounts`, `Windows`), and that a payload is as long as its header says
(`TlvLengths`). `Canonical` rebuilds each field of an accepted frame. For
`CompleteScansEncode` the steps of the fragments are put together to one scan, whose
windows are these fragments again (`CompleteEncodes`, `CompleteFrames`).

### Analysis gate (`ProtocolProofs`)

Assumptions: those of `ProtocolV2`, and `GateAssumption`, `HistoriesAssumption` and
`ConfigurationsAssumption`: a node takes a scan under one configuration that it names
by its hash or by 0, and what it marks as read back has values that were read back.
`UsableScansAreOne` and `CleanScansBecomeUsable` have `HashTells` as a hypothesis: of two
configurations with one hash, the profile is the same, and if one was read back in full
so was the other. A 64-bit hash cannot promise that for all configurations, and the
gate relies on it; the instance of `gate`, where two of three configurations have the
same hash, meets it. `ConflictsWithdraw` needs no such thing.

| Theorem | States |
|---|---|
| `ConflictsWithdraw` | `OnlyConflictsWithdraw` |
| `UsableScansAreOne` | `UsableIsOneScan` |
| `CleanScansBecomeUsable` | `CleanBecomesUsable` |
| `GateInvariant` | `GateInv`, on which they rest |

`GateInv` says that the record of a key is made of fragments of scans with this key,
which agree in their metadata (`OneScan`, `Genuine`), that nothing contradicts the scan of
a boot with a nonce, and that configurations are announced ones. Two scans with one key
and a nonce are the same scan (`NonceTellsScans`); without a nonce the gate refuses.
`UsableIsReady` replaces the detour of the code over qualities by what it asks of steps
and settings.

### Only model-checked

- Liveness (`EventuallyClassified`, `StartsInTheEnd`, `SupportedOpens`,
  `FlagsHandled`, `ListensAgain`), which the prover cannot reach.
- `CoalescedOnce` of `ReceiverLegacy`. It holds for one scan and not for all values of
  the constants: the known limits name what refutes it for several. What holds of any
  instance is proved (`CompletedScansStandAlone`, `CompletedScansStay`).

## 5. Not modelled

- Values: columns of stored records, radio metadata, receive times, measurements
  and the JSON copy of a row follow the fields that are modelled. The v1 payload
  has no redundant field to check and is opaque.
- Byte order and field layout of frames, `lora_time_on_air_us` (a number for
  display), logarithms, means and rates of the features.
- The index check of `ingest_at` (`reassembly.rs:201-206`) and the metadata
  checks of replay (`main.rs:486`, `main.rs:642`): a row links a fragment at its
  own index and key (`ProvenanceExact`), so they cannot fail.
- Foreign writers of the database and corruption of the file; the columns and
  CHECK constraints of the tables beyond dispositions and references.
- Pin claiming, delays and error texts of the driver.
- Rendering (`lib.rs`), the command line and the `decode` subcommand: formatting
  and parsing of text without state.
- `mark_fragment_status`, which only tests call.

## 6. Plan

Nothing of the plan is left but the verdicts on legacy rows: how much of `CoalescedOnce` holds
for many scans, if their rows do not interleave.
