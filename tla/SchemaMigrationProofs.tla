------------------------ MODULE SchemaMigrationProofs ------------------------
(***************************************************************************)
(* Proofs about SchemaMigration, for any set of processes, any packet ids  *)
(* and any number of failures and crashes.                                 *)
(***************************************************************************)
EXTENDS SchemaMigration, TLAPS

InTransaction == {"records", "check", "version", "commit"}
Migrated == {"enable", "index", "open"}

\* The write lock and the transaction belong to the same process.
LockHeld ==
    \A p \in Opener : lock = p <=> pc[p] \in InTransaction

\* A process that has read version 2 is alone in turning foreign keys off, and has them off from
\* then until it turns them on again.
KeysKnown ==
    \A p \in Opener :
        /\ pc[p] \in {"disable", "check", "enable"} => found[p] = 2
        /\ pc[p] = "packets" \/ pc[p] \in InTransaction => (foreign_keys[p] <=> found[p] # 2)
        /\ pc[p] \in {"index", "open"} => foreign_keys[p]

\* A file of version 3 has its tables and no dangling row, and only files with a packet table have
\* packets.
FileSound ==
    /\ db.version = SCHEMA_VERSION => db.packet_table = "final" /\ Dangling(db) = {}
    /\ db.packet_table = "none" => db.packets = {} /\ db.readings = {} /\ db.decodes = {}

\* The transaction has kept every row of the file, which nobody changes meanwhile, and has been
\* checked for dangling rows when its version is set.
TransactionSound ==
    \A p \in Opener : lock = p =>
        /\ tx.packets = db.packets /\ tx.readings = db.readings /\ tx.decodes = db.decodes
        /\ tx.index = db.index
        /\ tx.packet_table = "final"
        /\ found[p] # 2 \/ pc[p] \in {"version", "commit"} => Dangling(tx) = {}
        /\ pc[p] = "commit" => tx.version = SCHEMA_VERSION

\* Whoever is past the migration finds version 3, and the index if the store is open.
MigratedFile ==
    \A p \in Opener :
        /\ pc[p] \in Migrated => db.version = SCHEMA_VERSION
        /\ pc[p] = "open" => db.index

\* The inductive invariant.
IInv == TypeOK /\ LockHeld /\ KeysKnown /\ FileSound /\ TransactionSound /\ MigratedFile

-----------------------------------------------------------------------------
\* The invariant holds of any file the receiver may find.
LEMMA InitIInv == Init => IInv
  <1> SUFFICES ASSUME Init
               PROVE  IInv
    OBVIOUS
  <1>1. db \in Database /\ InitialDatabase(db)
    BY DEF Init
  <1>2. TypeOK
    BY <1>1, MigrationAssumption DEF Init, TypeOK, Steps, SCHEMA_VERSION
  <1>3. LockHeld
    BY MigrationAssumption DEF Init, LockHeld, InTransaction
  <1>4. KeysKnown
    BY DEF Init, KeysKnown, InTransaction
  <1>5. FileSound
    BY <1>1 DEF FileSound, InitialDatabase, Database, SCHEMA_VERSION
  <1>6. TransactionSound
    BY MigrationAssumption DEF Init, TransactionSound
  <1>7. MigratedFile
    BY DEF Init, MigratedFile, Migrated
  <1>8. QED
    BY <1>2, <1>3, <1>4, <1>5, <1>6, <1>7 DEF IInv

\* Reading the version enters the migration that the version needs.
LEMMA ConnectStep ==
    ASSUME IInv, NEW p \in Opener, Connect(p)
    PROVE  IInv'
  <1> USE MigrationAssumption DEF IInv, Connect, Goto, NextStep
  <1>1. TypeOK'
    BY DEF TypeOK, Database, Steps, SCHEMA_VERSION, LockHeld, InTransaction
  <1>2. LockHeld'
    BY DEF LockHeld, InTransaction, TypeOK, Steps
  <1>3. KeysKnown'
    BY DEF KeysKnown, InTransaction, TypeOK, Steps, LockHeld
  <1>4. FileSound'
    BY DEF FileSound, Dangling, TypeOK, Database, TransactionSound, LockHeld, InTransaction, SCHEMA_VERSION
  <1>5. TransactionSound'
    BY DEF TransactionSound, FileSound, KeysKnown, Dangling, TypeOK, Database, LockHeld, InTransaction,
           SCHEMA_VERSION
  <1>6. MigratedFile'
    BY DEF MigratedFile, Migrated, TypeOK, Database, TransactionSound, LockHeld, InTransaction, SCHEMA_VERSION
  <1>7. QED
    BY <1>1, <1>2, <1>3, <1>4, <1>5, <1>6

\* Only a migration from version 2 turns foreign keys off.
LEMMA DisableForeignKeysStep ==
    ASSUME IInv, NEW p \in Opener, DisableForeignKeys(p)
    PROVE  IInv'
  <1> USE MigrationAssumption DEF IInv, DisableForeignKeys, Goto
  <1>1. TypeOK'
    BY DEF TypeOK, Database, Steps, SCHEMA_VERSION, LockHeld, InTransaction
  <1>2. LockHeld'
    BY DEF LockHeld, InTransaction, TypeOK, Steps
  <1>3. KeysKnown'
    BY DEF KeysKnown, InTransaction, TypeOK, Steps, LockHeld
  <1>4. FileSound'
    BY DEF FileSound, Dangling, TypeOK, Database, TransactionSound, LockHeld, InTransaction, SCHEMA_VERSION
  <1>5. TransactionSound'
    BY DEF TransactionSound, FileSound, KeysKnown, Dangling, TypeOK, Database, LockHeld, InTransaction,
           SCHEMA_VERSION
  <1>6. MigratedFile'
    BY DEF MigratedFile, Migrated, TypeOK, Database, TransactionSound, LockHeld, InTransaction, SCHEMA_VERSION
  <1>7. QED
    BY <1>1, <1>2, <1>3, <1>4, <1>5, <1>6

\* The copy of the packet table has every packet.
LEMMA CreatePacketsStep ==
    ASSUME IInv, NEW p \in Opener, CreatePackets(p)
    PROVE  IInv'
  <1> USE MigrationAssumption DEF IInv, CreatePackets, Goto, RebuildsPackets, RebuiltPackets, CreatesPackets
  <1>1. TypeOK'
    BY DEF TypeOK, Database, Steps, SCHEMA_VERSION, LockHeld, InTransaction
  <1>2. LockHeld'
    BY DEF LockHeld, InTransaction, TypeOK, Steps
  <1>3. KeysKnown'
    BY DEF KeysKnown, InTransaction, TypeOK, Steps, LockHeld
  <1>4. FileSound'
    BY DEF FileSound, Dangling, TypeOK, Database, TransactionSound, LockHeld, InTransaction, SCHEMA_VERSION
  <1>5. TransactionSound'
    BY DEF TransactionSound, FileSound, KeysKnown, Dangling, TypeOK, Database, LockHeld, InTransaction,
           SCHEMA_VERSION
  <1>6. MigratedFile'
    BY DEF MigratedFile, Migrated, TypeOK, Database, TransactionSound, LockHeld, InTransaction, SCHEMA_VERSION
  <1>7. QED
    BY <1>1, <1>2, <1>3, <1>4, <1>5, <1>6

\* The tables of the records are created; no row changes.
LEMMA CreateRecordsStep ==
    ASSUME IInv, NEW p \in Opener, CreateRecords(p)
    PROVE  IInv'
  <1> USE MigrationAssumption DEF IInv, CreateRecords, Goto
  <1>1. TypeOK'
    BY DEF TypeOK, Database, Steps, SCHEMA_VERSION, LockHeld, InTransaction
  <1>2. LockHeld'
    BY DEF LockHeld, InTransaction, TypeOK, Steps
  <1>3. KeysKnown'
    BY DEF KeysKnown, InTransaction, TypeOK, Steps, LockHeld
  <1>4. FileSound'
    BY DEF FileSound, Dangling, TypeOK, Database, TransactionSound, LockHeld, InTransaction, SCHEMA_VERSION
  <1>5. TransactionSound'
    BY DEF TransactionSound, FileSound, KeysKnown, Dangling, TypeOK, Database, LockHeld, InTransaction,
           SCHEMA_VERSION
  <1>6. MigratedFile'
    BY DEF MigratedFile, Migrated, TypeOK, Database, TransactionSound, LockHeld, InTransaction, SCHEMA_VERSION
  <1>7. QED
    BY <1>1, <1>2, <1>3, <1>4, <1>5, <1>6

\* A dangling row sends the transaction back.
LEMMA CheckForeignKeysStep ==
    ASSUME IInv, NEW p \in Opener, CheckForeignKeys(p)
    PROVE  IInv'
  <1> USE MigrationAssumption DEF IInv, CheckForeignKeys, Goto
  <1>1. TypeOK'
    BY DEF TypeOK, Database, Steps, SCHEMA_VERSION, LockHeld, InTransaction
  <1>2. LockHeld'
    BY DEF LockHeld, InTransaction, TypeOK, Steps
  <1>3. KeysKnown'
    BY DEF KeysKnown, InTransaction, TypeOK, Steps, LockHeld
  <1>4. FileSound'
    BY DEF FileSound, Dangling, TypeOK, Database, TransactionSound, LockHeld, InTransaction, SCHEMA_VERSION
  <1>5. TransactionSound'
    BY DEF TransactionSound, FileSound, KeysKnown, Dangling, TypeOK, Database, LockHeld, InTransaction,
           SCHEMA_VERSION
  <1>6. MigratedFile'
    BY DEF MigratedFile, Migrated, TypeOK, Database, TransactionSound, LockHeld, InTransaction, SCHEMA_VERSION
  <1>7. QED
    BY <1>1, <1>2, <1>3, <1>4, <1>5, <1>6

\* The version is set in the transaction.
LEMMA SetVersionStep ==
    ASSUME IInv, NEW p \in Opener, SetVersion(p)
    PROVE  IInv'
  <1> USE MigrationAssumption DEF IInv, SetVersion, Goto
  <1>1. TypeOK'
    BY DEF TypeOK, Database, Steps, SCHEMA_VERSION, LockHeld, InTransaction
  <1>2. LockHeld'
    BY DEF LockHeld, InTransaction, TypeOK, Steps
  <1>3. KeysKnown'
    BY DEF KeysKnown, InTransaction, TypeOK, Steps, LockHeld
  <1>4. FileSound'
    BY DEF FileSound, Dangling, TypeOK, Database, TransactionSound, LockHeld, InTransaction, SCHEMA_VERSION
  <1>5. TransactionSound'
    BY DEF TransactionSound, FileSound, KeysKnown, Dangling, TypeOK, Database, LockHeld, InTransaction,
           SCHEMA_VERSION
  <1>6. MigratedFile'
    BY DEF MigratedFile, Migrated, TypeOK, Database, TransactionSound, LockHeld, InTransaction, SCHEMA_VERSION
  <1>7. QED
    BY <1>1, <1>2, <1>3, <1>4, <1>5, <1>6

\* What is committed is what the transaction kept.
LEMMA CommitStep ==
    ASSUME IInv, NEW p \in Opener, Commit(p)
    PROVE  IInv'
  <1> USE MigrationAssumption DEF IInv, Commit, Goto
  <1>1. TypeOK'
    BY DEF TypeOK, Database, Steps, SCHEMA_VERSION, LockHeld, InTransaction
  <1>2. LockHeld'
    BY DEF LockHeld, InTransaction, TypeOK, Steps
  <1>3. KeysKnown'
    BY DEF KeysKnown, InTransaction, TypeOK, Steps, LockHeld
  <1>4. FileSound'
    BY DEF FileSound, Dangling, TypeOK, Database, TransactionSound, LockHeld, InTransaction, SCHEMA_VERSION
  <1>5. TransactionSound'
    BY DEF TransactionSound, FileSound, KeysKnown, Dangling, TypeOK, Database, LockHeld, InTransaction,
           SCHEMA_VERSION
  <1>6. MigratedFile'
    BY DEF MigratedFile, Migrated, TypeOK, Database, TransactionSound, LockHeld, InTransaction, SCHEMA_VERSION
  <1>7. QED
    BY <1>1, <1>2, <1>3, <1>4, <1>5, <1>6

\* Foreign keys are on again after a migration.
LEMMA EnableForeignKeysStep ==
    ASSUME IInv, NEW p \in Opener, EnableForeignKeys(p)
    PROVE  IInv'
  <1> USE MigrationAssumption DEF IInv, EnableForeignKeys, Goto
  <1>1. TypeOK'
    BY DEF TypeOK, Database, Steps, SCHEMA_VERSION, LockHeld, InTransaction
  <1>2. LockHeld'
    BY DEF LockHeld, InTransaction, TypeOK, Steps
  <1>3. KeysKnown'
    BY DEF KeysKnown, InTransaction, TypeOK, Steps, LockHeld
  <1>4. FileSound'
    BY DEF FileSound, Dangling, TypeOK, Database, TransactionSound, LockHeld, InTransaction, SCHEMA_VERSION
  <1>5. TransactionSound'
    BY DEF TransactionSound, FileSound, KeysKnown, Dangling, TypeOK, Database, LockHeld, InTransaction,
           SCHEMA_VERSION
  <1>6. MigratedFile'
    BY DEF MigratedFile, Migrated, TypeOK, Database, TransactionSound, LockHeld, InTransaction, SCHEMA_VERSION
  <1>7. QED
    BY <1>1, <1>2, <1>3, <1>4, <1>5, <1>6

\* The store is open once the index is there.
LEMMA CreateIndexStep ==
    ASSUME IInv, NEW p \in Opener, CreateIndex(p)
    PROVE  IInv'
  <1> USE MigrationAssumption DEF IInv, CreateIndex, Goto
  <1>1. TypeOK'
    BY DEF TypeOK, Database, Steps, SCHEMA_VERSION, LockHeld, InTransaction
  <1>2. LockHeld'
    BY DEF LockHeld, InTransaction, TypeOK, Steps
  <1>3. KeysKnown'
    BY DEF KeysKnown, InTransaction, TypeOK, Steps, LockHeld
  <1>4. FileSound'
    BY DEF FileSound, Dangling, TypeOK, Database, TransactionSound, LockHeld, InTransaction, SCHEMA_VERSION
  <1>5. TransactionSound'
    BY DEF TransactionSound, FileSound, KeysKnown, Dangling, TypeOK, Database, LockHeld, InTransaction,
           SCHEMA_VERSION
  <1>6. MigratedFile'
    BY DEF MigratedFile, Migrated, TypeOK, Database, TransactionSound, LockHeld, InTransaction, SCHEMA_VERSION
  <1>7. QED
    BY <1>1, <1>2, <1>3, <1>4, <1>5, <1>6

\* The connection of p is gone: its transaction, if it had one, is rolled back.
LEMMA CloseStep ==
    ASSUME IInv, NEW p \in Opener, Close(p), stops' \in 0 .. MaxStops
    PROVE  IInv'
  <1> USE MigrationAssumption DEF IInv, Close, Goto
  <1>1. TypeOK'
    BY DEF TypeOK, Database, Steps, SCHEMA_VERSION, LockHeld, InTransaction
  <1>2. LockHeld'
    BY DEF LockHeld, InTransaction, TypeOK, Steps
  <1>3. KeysKnown'
    BY DEF KeysKnown, InTransaction, TypeOK, Steps, LockHeld
  <1>4. FileSound'
    BY DEF FileSound, Dangling
  <1>5. TransactionSound'
    BY DEF TransactionSound, Dangling, TypeOK, LockHeld, InTransaction
  <1>6. MigratedFile'
    BY DEF MigratedFile, Migrated, TypeOK
  <1>7. QED
    BY <1>1, <1>2, <1>3, <1>4, <1>5, <1>6

\* A packet is stored only in a file of version 3 that nobody is migrating.
LEMMA StoreStep ==
    ASSUME IInv, NEW p \in Opener, NEW id \in Id, StoreReading(p, id) \/ StoreRecord(p, id)
    PROVE  IInv'
  <1> USE MigrationAssumption DEF IInv, StoreReading, StoreRecord
  <1>1. TypeOK'
    <2>1. db \in Database /\ lock = None /\ tx = None
      BY DEF TypeOK
    <2>2. CASE StoreReading(p, id)
      BY <2>1, <2>2 DEF TypeOK, Database
    <2>3. CASE StoreRecord(p, id)
      BY <2>1, <2>3 DEF TypeOK, Database
    <2>4. QED
      BY <2>2, <2>3
  <1>2. LockHeld' /\ KeysKnown'
    BY DEF LockHeld, KeysKnown
  <1>3. FileSound'
    BY DEF FileSound, Dangling, TypeOK, Database, MigratedFile, Migrated, SCHEMA_VERSION
  <1>4. TransactionSound'
    BY DEF TransactionSound
  <1>5. MigratedFile'
    BY DEF MigratedFile, Migrated, TypeOK, Database, SCHEMA_VERSION
  <1>6. QED
    BY <1>1, <1>2, <1>3, <1>4, <1>5

\* Every step keeps the invariant.
LEMMA NextIInv == IInv /\ [Next]_vars => IInv'
  <1> SUFFICES ASSUME IInv, [Next]_vars
               PROVE  IInv'
    OBVIOUS
  <1>1. CASE UNCHANGED vars
    BY <1>1 DEF vars, IInv, TypeOK, LockHeld, KeysKnown, FileSound, TransactionSound, MigratedFile
  <1>2. ASSUME NEW p \in Opener, Progress(p)
        PROVE  IInv'
    <2>1. CASE Refused(p)
      BY <2>1, CloseStep DEF Refused, IInv, TypeOK
    <2>2. QED
      BY <1>2, <2>1, ConnectStep, DisableForeignKeysStep, CreatePacketsStep, CreateRecordsStep,
         CheckForeignKeysStep, SetVersionStep, CommitStep, EnableForeignKeysStep, CreateIndexStep
         DEF Progress
  <1>3. ASSUME NEW p \in Opener, Stop(p)
        PROVE  IInv'
    <2>1. stops' \in 0 .. MaxStops
      BY <1>3, MigrationAssumption DEF Stop, IInv, TypeOK
    <2>2. QED
      BY <1>3, <2>1, CloseStep DEF Stop
  <1>4. QED
    BY <1>1, <1>2, <1>3, StoreStep DEF Next

-----------------------------------------------------------------------------
\* The inductive invariant holds in every reachable state, for any processes that open one file and
\* fail or crash between any two statements.
THEOREM Safety == Spec => []IInv
  BY InitIInv, NextIInv, PTL DEF Spec

\* database.rs:1684-1713: whoever has the store open has foreign keys on, also after a migration
\* that turned them off, and finds the tables of version 3 and the index.
THEOREM OpenStoreUsable == Spec => []OpenIsUsable
  <1>1. IInv => OpenIsUsable
    BY DEF IInv, KeysKnown, MigratedFile, Migrated, OpenIsUsable
  <1>2. QED
    BY <1>1, Safety, PTL

\* database.rs:1704: no migration commits a row whose packet is missing, so such a file stays as
\* it was.
THEOREM LinksHold == Spec => []MigratedLinksHold
  <1>1. IInv => MigratedLinksHold
    BY DEF IInv, FileSound, MigratedLinksHold
  <1>2. QED
    BY <1>1, Safety, PTL

\* README.md:64-68: no step of any process, a second migration of a file that was migrated since
\* its version was read included, loses a durable packet, reading or decode.
THEOREM NothingDurableLost == Spec => DurableKept
  <1> DEFINE Kept == /\ db.packets \subseteq db'.packets
                     /\ db.readings \subseteq db'.readings
                     /\ db.decodes \subseteq db'.decodes
  <1>1. IInv /\ [Next]_vars => [Kept]_vars
    <2> SUFFICES ASSUME IInv, Next
                 PROVE  Kept
      OBVIOUS
    <2>1. PICK p \in Opener :
             Progress(p) \/ Stop(p) \/ \E id \in Id : StoreReading(p, id) \/ StoreRecord(p, id)
      BY DEF Next
    <2>2. CASE Commit(p)
      BY <2>2 DEF Commit, IInv, LockHeld, InTransaction, TransactionSound
    <2>3. CASE CreateIndex(p)
      BY <2>3 DEF CreateIndex, IInv, TypeOK, Database
    <2>4. CASE \E id \in Id : StoreReading(p, id) \/ StoreRecord(p, id)
      BY ZenonT(40), <2>4 DEF StoreReading, StoreRecord, IInv, TypeOK, Database
    <2>5. CASE UNCHANGED db
      BY <2>5
    <2>6. QED
      BY <2>1, <2>2, <2>3, <2>4, <2>5 DEF Progress, Connect, DisableForeignKeys, CreatePackets,
         CreateRecords, CheckForeignKeys, SetVersion, EnableForeignKeys, Refused, Stop, Close
  <1>2. QED
    BY <1>1, Safety, PTL DEF Spec, DurableKept

=============================================================================
