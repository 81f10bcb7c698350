--------------------------- MODULE SchemaMigration ---------------------------
(***************************************************************************)
(* TelemetryStore::open of database.rs: creating the schema of a fresh     *)
(* database, migrating one of version 1 or 2, and opening one of version   *)
(* 3, by processes that may open the same file at the same time, fail at   *)
(* any statement, crash and be restarted.                                  *)
(*                                                                         *)
(* The version is read before the transaction of the migration begins, so  *)
(* another process may migrate the file and store records in between.      *)
(* SQLite is external: a write transaction has the only write lock, works  *)
(* on a private copy, and becomes durable as a whole or not at all.        *)
(***************************************************************************)
EXTENDS Naturals, FiniteSets

CONSTANTS
    Opener,         \* the processes
    Id,             \* packet ids
    None,
    MaxStops        \* bound: failed statements and crashes

ASSUME MigrationAssumption ==
    /\ MaxStops \in Nat
    /\ None \notin Opener

SCHEMA_VERSION == 3

VARIABLES
    db,             \* the durable database
    lock,           \* the process that holds the write lock, or None
    pc,             \* where each process is in initialize
    found,          \* the version each has read
    foreign_keys,   \* whether its connection enforces foreign keys
    tx,             \* the private copy of the transaction of the lock's holder
    stops           \* failures and crashes so far

vars == <<db, lock, pc, found, foreign_keys, tx, stops>>

Steps ==
    {"closed", "disable", "packets", "records", "check", "version", "commit", "enable", "index", "open"}

\* packet_table: the packet archive, without or with the v2 disposition.  readings and decodes
\* are the packet ids that telemetry_readings and v2_packet_decodes refer to.
Database ==
    [version : 0 .. SCHEMA_VERSION + 1, packet_table : {"none", "draft", "final"},
     records : BOOLEAN, index : BOOLEAN,
     packets : SUBSET Id, readings : SUBSET Id, decodes : SUBSET Id]

Dangling(d) == (d.readings \cup d.decodes) \ d.packets

\* A file of an earlier release; in a draft database a reading may have lost its packet.
InitialDatabase(d) ==
    /\ d.records = (d.version = SCHEMA_VERSION)
    /\ d.packet_table = CASE d.version = 2 -> "draft" [] d.version = 3 -> "final" [] OTHER -> "none"
    /\ d.version # SCHEMA_VERSION => d.decodes = {} /\ ~ d.index
    /\ d.version \notin {2, SCHEMA_VERSION} => d.packets = {} /\ d.readings = {}
    /\ d.version = SCHEMA_VERSION => Dangling(d) = {}

Init ==
    /\ db \in {d \in Database : InitialDatabase(d)}
    /\ lock = None
    /\ pc = [p \in Opener |-> "closed"]
    /\ found = [p \in Opener |-> 0]
    /\ foreign_keys = [p \in Opener |-> TRUE]
    /\ tx = None
    /\ stops = 0

Goto(p, step) == pc' = [pc EXCEPT ![p] = step]

-----------------------------------------------------------------------------
(***************************************************************************)
(* initialize.                                                             *)
(***************************************************************************)
\* Mutant: a database of version 1 is not migrated.
NextStep_unmigrated(version) ==
    CASE version = SCHEMA_VERSION -> "index"
      [] version = 2 -> "disable"
      [] version = 0 -> "packets"
      [] OTHER -> "closed"

\* An unsupported version is an error, and the connection is closed.
NextStep(version) ==
    CASE version = SCHEMA_VERSION -> "index"
      [] version = 2 -> "disable"
      [] version \in {0, 1} -> "packets"
      [] OTHER -> "closed"

\* Connection::open, the pragmas, and the version.
Connect(p) ==
    /\ pc[p] = "closed"
    /\ found' = [found EXCEPT ![p] = db.version]
    /\ foreign_keys' = [foreign_keys EXCEPT ![p] = TRUE]
    /\ Goto(p, NextStep(db.version))
    /\ UNCHANGED <<db, lock, tx, stops>>

\* Mutant: foreign keys stay on.
DisableForeignKeys_skipped(p) ==
    /\ pc[p] = "disable"
    /\ Goto(p, "packets")
    /\ UNCHANGED <<db, lock, found, foreign_keys, tx, stops>>

DisableForeignKeys(p) ==
    /\ pc[p] = "disable"
    /\ foreign_keys' = [foreign_keys EXCEPT ![p] = FALSE]
    /\ Goto(p, "packets")
    /\ UNCHANGED <<db, lock, found, tx, stops>>

\* CREATE TABLE radio_packets fails when the table exists.
CreatesPackets(d) == d.packet_table = "none"

\* DROP TABLE of the old packet table: with foreign keys on, SQLite deletes its rows first,
\* which fails for a packet a reading refers to and deletes the decodes of the others.
RebuildsPackets(d, enforced) == enforced => d.readings \cap d.packets = {}

RebuiltPackets(d, enforced) ==
    [d EXCEPT !.packet_table = "final", !.decodes = IF enforced THEN {} ELSE @]

\* The transaction and its first batch: SCHEMA_V1 and PACKET_ARCHIVE_SCHEMA_V3, or
\* RADIO_PACKETS_V2_TO_V3.
CreatePackets(p) ==
    /\ pc[p] = "packets"
    /\ lock = None
    /\ IF found[p] = 2 THEN RebuildsPackets(db, foreign_keys[p]) ELSE CreatesPackets(db)
    /\ lock' = p
    /\ tx' = IF found[p] = 2 THEN RebuiltPackets(db, foreign_keys[p])
             ELSE [db EXCEPT !.packet_table = "final"]
    /\ Goto(p, "records")
    /\ UNCHANGED <<db, found, foreign_keys, stops>>

\* SCHEMA_V3, all of it IF NOT EXISTS.
CreateRecords(p) ==
    /\ pc[p] = "records"
    /\ tx' = [tx EXCEPT !.records = TRUE]
    /\ Goto(p, IF found[p] = 2 THEN "check" ELSE "version")
    /\ UNCHANGED <<db, lock, found, foreign_keys, stops>>

\* Mutant: the result of the check is not looked at.
CheckForeignKeys_ignored(p) ==
    /\ pc[p] = "check"
    /\ Goto(p, "version")
    /\ UNCHANGED <<db, lock, found, foreign_keys, tx, stops>>

CheckForeignKeys(p) ==
    /\ pc[p] = "check"
    /\ Dangling(tx) = {}
    /\ Goto(p, "version")
    /\ UNCHANGED <<db, lock, found, foreign_keys, tx, stops>>

SetVersion(p) ==
    /\ pc[p] = "version"
    /\ tx' = [tx EXCEPT !.version = SCHEMA_VERSION]
    /\ Goto(p, "commit")
    /\ UNCHANGED <<db, lock, found, foreign_keys, stops>>

Commit(p) ==
    /\ pc[p] = "commit"
    /\ db' = tx
    /\ tx' = None
    /\ lock' = None
    /\ Goto(p, IF found[p] = 2 THEN "enable" ELSE "index")
    /\ UNCHANGED <<found, foreign_keys, stops>>

\* Mutant: enforcement is not restored.
EnableForeignKeys_forgotten(p) ==
    /\ pc[p] = "enable"
    /\ Goto(p, "index")
    /\ UNCHANGED <<db, lock, found, foreign_keys, tx, stops>>

EnableForeignKeys(p) ==
    /\ pc[p] = "enable"
    /\ foreign_keys' = [foreign_keys EXCEPT ![p] = TRUE]
    /\ Goto(p, "index")
    /\ UNCHANGED <<db, lock, found, tx, stops>>

\* PROFILE_REASSEMBLY_INDEX, in a transaction of its own.
CreateIndex(p) ==
    /\ pc[p] = "index"
    /\ lock = None
    /\ db' = [db EXCEPT !.index = TRUE]
    /\ Goto(p, "open")
    /\ UNCHANGED <<lock, found, foreign_keys, tx, stops>>

\* The connection is gone: SQLite rolls the transaction back and releases the lock.
Close(p) ==
    /\ Goto(p, "closed")
    /\ lock' = IF lock = p THEN None ELSE lock
    /\ tx' = IF lock = p THEN None ELSE tx
    /\ UNCHANGED <<db, found, foreign_keys>>

\* A step of initialize returns the error of its statement or of its check.
Refused(p) ==
    /\ \/ /\ pc[p] = "packets" /\ lock = None
          /\ IF found[p] = 2 THEN ~ RebuildsPackets(db, foreign_keys[p]) ELSE ~ CreatesPackets(db)
       \/ pc[p] = "check" /\ Dangling(tx) # {}
    /\ Close(p)
    /\ UNCHANGED stops

\* Any statement may fail (I/O, busy timeout), and the process may crash at any time.
Stop(p) ==
    /\ pc[p] # "closed"
    /\ stops < MaxStops
    /\ stops' = stops + 1
    /\ Close(p)

-----------------------------------------------------------------------------
(***************************************************************************)
(* The open store: one transaction per packet (see TelemetryStore).  The   *)
(* CHECK of the packet table and enforced foreign keys limit what it does. *)
(***************************************************************************)
StoreReading(p, id) ==
    /\ pc[p] = "open" /\ lock = None /\ id \notin db.packets
    /\ db' = [db EXCEPT !.packets = @ \cup {id}, !.readings = @ \cup {id}]
    /\ UNCHANGED <<lock, pc, found, foreign_keys, tx, stops>>

StoreRecord(p, id) ==
    /\ pc[p] = "open" /\ lock = None /\ id \notin db.packets
    /\ db.packet_table = "final"
    /\ db' = [db EXCEPT !.packets = @ \cup {id}, !.decodes = @ \cup {id}]
    /\ UNCHANGED <<lock, pc, found, foreign_keys, tx, stops>>

-----------------------------------------------------------------------------
Progress(p) ==
    \/ Connect(p) \/ DisableForeignKeys(p) \/ CreatePackets(p) \/ CreateRecords(p)
    \/ CheckForeignKeys(p) \/ SetVersion(p) \/ Commit(p) \/ EnableForeignKeys(p) \/ CreateIndex(p)
    \/ Refused(p)

Next ==
    \E p \in Opener :
        \/ Progress(p)
        \/ Stop(p)
        \/ \E id \in Id : StoreReading(p, id) \/ StoreRecord(p, id)

Spec == Init /\ [][Next]_vars

\* A process goes on while it can, and the service is restarted after a failure.
FairSpec == Spec /\ \A p \in Opener : WF_vars(Progress(p))

-----------------------------------------------------------------------------
(***************************************************************************)
(* Properties.                                                             *)
(***************************************************************************)
TypeOK ==
    /\ db \in Database
    /\ lock \in Opener \cup {None}
    /\ pc \in [Opener -> Steps]
    /\ found \in [Opener -> 0 .. SCHEMA_VERSION + 1]
    /\ foreign_keys \in [Opener -> BOOLEAN]
    /\ IF lock = None THEN tx = None ELSE tx \in Database
    /\ stops \in 0 .. MaxStops

\* No packet, no reading's link to its packet and no decode that was durable is ever lost, whoever
\* opens, migrates a second time, fails or crashes (README.md:64-68).
DurableKept ==
    [][/\ db.packets \subseteq db'.packets
       /\ db.readings \subseteq db'.readings
       /\ db.decodes \subseteq db'.decodes]_vars

\* A process that has its store open has foreign keys on, the tables of version 3, and the index.
OpenIsUsable ==
    \A p \in Opener :
        pc[p] = "open" => foreign_keys[p] /\ db.version = SCHEMA_VERSION /\ db.index

\* A database of version 3 has no row whose packet is missing, so a draft database with such a row
\* stays as it was.
MigratedLinksHold == db.version = SCHEMA_VERSION => Dangling(db) = {}

\* A supported database without dangling rows is opened by every process in the end, however they
\* interleave, even the one that loses the race to create the tables and is refused at first.
SupportedOpens ==
    (db.version \in 0 .. SCHEMA_VERSION /\ Dangling(db) = {}) ~> (\A p \in Opener : pc[p] = "open")

=============================================================================
