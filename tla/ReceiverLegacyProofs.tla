------------------------ MODULE ReceiverLegacyProofs ------------------------
(***************************************************************************)
(* Proofs about ReceiverLegacy: a receiver that starts on the database an  *)
(* older one left, where a scan may have many rows, in full and with       *)
(* sources that disagree.  LegacyInv is the inductive invariant: it asks   *)
(* of a row, of a copy of one and of a scan in memory only what still      *)
(* holds when startup coalesces, deletes and reinserts the rows of a key.  *)
(***************************************************************************)
EXTENDS ReceiverLegacy, ReceiverProofs

\* A delivered fragment of scan k announces metadata m.
Announced(k, m) == \E f \in Delivered : f.key = k /\ f.metadata = m

\* Scan k is stored as complete.
Done(d, k) == \E row \in d.scans : row.key = k /\ TransportComplete(row)

\* A row, or a copy of one, links archived packets of its key.
LinksLegal(d, row) ==
    /\ Announced(row.key, row.metadata)
    /\ \A i \in Received(row.fragments) :
          /\ row.fragments[i] \in Archived(d)
          /\ d.packets[row.fragments[i]].fragment.key = row.key

\* A key may have many rows, but one complete row at most.
StoreLegal(d) ==
    /\ IsFiniteSet(d.scans)
    /\ \A p \in Archived(d) : d.packets[p].fragment \in Delivered
    /\ \A row \in d.scans : LinksLegal(d, row)
    /\ \A a, b \in d.scans :
          a.key = b.key /\ TransportComplete(a) /\ TransportComplete(b) => a = b

\* A scan in memory holds archived packets of its key, which is not stored as complete.
ScanLegal(d, k, m, fragments) ==
    /\ ~ Done(d, k)
    /\ Announced(k, m)
    /\ \A i \in Received(fragments) :
          /\ fragments[i].packet \in Archived(d)
          /\ d.packets[fragments[i].packet].fragment.key = k

\* The active scans are incomplete.
TableLegal(d, r) ==
    \A k \in ActiveKeys(r) :
        /\ ScanLegal(d, k, r.active[k].metadata, r.active[k].fragments)
        /\ Received(r.active[k].fragments) # fragment_mask(r.active[k].metadata)

\* So are the scans that left the table to be stored.
OutLegal(d, r, scans) ==
    /\ \A s \in scans :
          /\ ScanLegal(d, s.key, s.metadata, s.fragments)
          /\ Received(s.fragments) # fragment_mask(s.metadata)
          /\ s.key \notin ActiveKeys(r)
    /\ \A s, t \in scans : s.key = t.key => s = t

\* A scan that is complete left the table for the cache; a snapshot is incomplete.
ResultLegal(d, r, scans, ev) ==
    ev # None /\ ev.profile # None =>
        /\ ScanLegal(d, ev.profile.key, ev.profile.metadata, ev.profile.fragments)
        /\ \A s \in scans : s.key # ev.profile.key
        /\ IF ev.event = "Complete"
           THEN /\ ev.profile.key \notin ActiveKeys(r)
                /\ ev.profile.key \in CompletedKeys(r)
           ELSE Received(ev.profile.fragments) # fragment_mask(ev.profile.metadata)

\* The queue of completed scans is in the order of its ordinals.
CacheLegal(r) == \A k \in CompletedKeys(r) : r.completed[k].pushed < r.pushes

MemoryLegal(d, r, scans, ev) ==
    TableLegal(d, r) /\ OutLegal(d, r, scans) /\ ResultLegal(d, r, scans, ev) /\ CacheLegal(r)

\* A scan that is stored as complete while it is restored stays in the cache.
Cached(k) == Done(db, k) => k \in CompletedKeys(reassembler)

\* The copies to be restored, and the one that is.
CopiesLegal ==
    /\ \A row \in profiles : LinksLegal(db, row) /\ ~ TransportComplete(row)
    /\ profile # None =>
          /\ LinksLegal(db, profile)
          /\ left \subseteq Received(profile.fragments)
          /\ Cached(profile.key)

\* The packet in hand: copies that are restored for it are of its key.
HandLegal ==
    /\ stage # "idle" => current # None
    /\ current # None => current \in Archived(db)
    /\ pending \subseteq Archived(db)
    /\ stage = "ingest" =>
          /\ \A row \in profiles : row.key = CurrentFragment.key
          /\ profile # None => profile.key = CurrentFragment.key
          /\ Cached(CurrentFragment.key)

\* At startup a quarantined scan is nowhere any more.
QuarantineLegal ==
    phase = "restore" =>
        \A k \in quarantined :
            /\ ~ Done(db, k)
            /\ k \notin ActiveKeys(reassembler)
            /\ \A s \in backlog : s.key # k
            /\ event # None /\ event.profile # None => event.profile.key # k
            /\ profile # None => profile.key # k

\* An incomplete row beside a complete one has its copy among those that startup has yet to fold.
FoldLegal ==
    \A row \in db.scans : ~ TransportComplete(row) /\ Done(db, row.key) =>
        \/ phase = "down"
        \/ phase = "restore" /\ row \in profiles /\ ~ Restoring(profile, row.key)

PhaseLegal ==
    /\ phase \in {"down", "restore"} => stage = "idle"
    /\ phase # "restore" /\ stage # "ingest" => profiles = {} /\ profile = None
    /\ phase = "down" =>
          /\ ActiveKeys(reassembler) = {} /\ CompletedKeys(reassembler) = {}
          /\ backlog = {} /\ event = None /\ quarantined = {}

LegacyInv ==
    /\ TypeOK
    /\ StoreLegal(db)
    /\ MemoryLegal(db, reassembler, backlog, event)
    /\ CopiesLegal /\ HandLegal /\ QuarantineLegal /\ FoldLegal /\ PhaseLegal

-----------------------------------------------------------------------------
(***************************************************************************)
(* What the transactions do to such a store: d becomes e.                  *)
(***************************************************************************)
\* The row may have counted more.
Grown(row, new) ==
    /\ new.id = row.id /\ new.key = row.key /\ new.metadata = row.metadata
    /\ new.fragments = row.fragments
    /\ row.duplicates <= new.duplicates /\ row.conflicts <= new.conflicts

\* Complete rows stay.
Kept(d, e) ==
    \A row \in d.scans : TransportComplete(row) =>
        \E new \in e.scans : Grown(row, new)

\* No row is new.
NoneNew(d, e) ==
    \A new \in e.scans : \E row \in d.scans : Grown(row, new)

\* Every transaction that archives nothing.
Legal(d, e) ==
    /\ SameArchive(d, e)
    /\ StoreLegal(e)
    /\ Kept(d, e)

\* A number of verdicts is added to a row.
LEMMA AddGrows ==
    ASSUME NEW row \in ScanRow, NEW x \in Nat, NEW y \in Nat
    PROVE  AddCounts(row, x, y) \in ScanRow /\ Grown(row, AddCounts(row, x, y))
  <1>1. /\ saturating_add(row.duplicates, x) \in Count /\ row.duplicates <= saturating_add(row.duplicates, x)
        /\ saturating_add(row.conflicts, y) \in Count /\ row.conflicts <= saturating_add(row.conflicts, y)
    BY RowType, ReassemblyAssumption DEF Count, saturating_add
  <1>2. QED
    BY <1>1 DEF AddCounts, ScanRow, Grown

\* A row that has grown has the same sources.
LEMMA GrownLinks ==
    ASSUME NEW row, NEW new, Grown(row, new)
    PROVE  /\ TransportComplete(new) <=> TransportComplete(row)
           /\ new.key = row.key /\ Linked(new) = Linked(row)
           /\ \A d, e : SameArchive(d, e) /\ LinksLegal(d, row) => LinksLegal(e, new)
  BY DEF Grown, TransportComplete, Linked, LinksLegal, SameArchive

\* The image of a finite set of rows.
LEMMA FiniteRows ==
    ASSUME NEW rows, IsFiniteSet(rows), NEW x, NEW y
    PROVE  IsFiniteSet({AddCounts(row, x, y) : row \in rows})
  <1> DEFINE T == {AddCounts(row, x, y) : row \in rows}
             g == [row \in rows |-> AddCounts(row, x, y)]
  <1>1. g \in Surjection(rows, T)
    BY DEF Surjection
  <1> HIDE DEF g
  <1>2. QED
    BY <1>1, FS_Surjection

\* A transaction that counts verdicts of some rows and deletes incomplete ones.
LEMMA CountingLegal ==
    ASSUME NEW d, NEW e, SameArchive(d, e), StoreLegal(d), NEW rows \in SUBSET d.scans,
           NEW x \in Nat, NEW y \in Nat,
           e.scans \subseteq (d.scans \ rows) \cup {AddCounts(row, x, y) : row \in rows},
           \A row \in d.scans : TransportComplete(row) =>
              IF row \in rows THEN AddCounts(row, x, y) \in e.scans ELSE row \in e.scans
    PROVE  Legal(d, e) /\ NoneNew(d, e)
  <1>1. d.scans \in SUBSET ScanRow
    BY DEF SameArchive, Store
  <1>2. \A row \in d.scans : Grown(row, row) /\ Grown(row, AddCounts(row, x, y))
    <2> SUFFICES ASSUME NEW row \in d.scans
                 PROVE  Grown(row, row) /\ Grown(row, AddCounts(row, x, y))
      OBVIOUS
    <2>1. row \in ScanRow
      BY <1>1
    <2>2. row.duplicates <= row.duplicates /\ row.conflicts <= row.conflicts
      BY <2>1, RowType, ReassemblyAssumption DEF Count
    <2>3. QED
      BY <2>1, <2>2, AddGrows DEF Grown
  <1>3. \A new \in e.scans : \E row \in d.scans :
            /\ Grown(row, new)
            /\ new = IF row \in rows THEN AddCounts(row, x, y) ELSE row
    BY <1>2
  <1>4. NoneNew(d, e)
    BY <1>3 DEF NoneNew
  <1>5. Kept(d, e)
    BY <1>2 DEF Kept
  <1>6. IsFiniteSet(e.scans)
    <2>1. IsFiniteSet(rows) /\ IsFiniteSet(d.scans \ rows)
      BY FS_Subset DEF StoreLegal
    <2>2. PICK T : T = {AddCounts(row, x, y) : row \in rows}
      OBVIOUS
    <2>3. IsFiniteSet(T)
      BY <2>1, <2>2, FiniteRows
    <2>4. IsFiniteSet((d.scans \ rows) \cup T)
      BY <2>1, <2>3, FS_Union
    <2>5. QED
      BY <2>2, <2>4, FS_Subset
  <1>7. \A new \in e.scans : LinksLegal(e, new)
    BY <1>3, GrownLinks DEF StoreLegal
  <1>8. \A a, b \in e.scans :
            a.key = b.key /\ TransportComplete(a) /\ TransportComplete(b) => a = b
    <2> SUFFICES ASSUME NEW a \in e.scans, NEW b \in e.scans, a.key = b.key,
                        TransportComplete(a), TransportComplete(b)
                 PROVE  a = b
      OBVIOUS
    <2>1. PICK r \in d.scans : Grown(r, a) /\ a = IF r \in rows THEN AddCounts(r, x, y) ELSE r
      BY <1>3
    <2>2. PICK s \in d.scans : Grown(s, b) /\ b = IF s \in rows THEN AddCounts(s, x, y) ELSE s
      BY <1>3
    <2>3. TransportComplete(r) /\ TransportComplete(s) /\ r.key = s.key
      BY <2>1, <2>2, GrownLinks
    <2>4. r = s
      BY <2>3 DEF StoreLegal
    <2>5. QED
      BY <2>1, <2>2, <2>4
  <1>9. \A p \in Archived(e) : e.packets[p].fragment \in Delivered
    BY DEF StoreLegal, SameArchive
  <1>10. QED
    BY <1>4, <1>5, <1>6, <1>7, <1>8, <1>9 DEF Legal, StoreLegal

\* A transaction gives some packets a status and rewrites the rows.
LEMMA SetStatusArchive ==
    ASSUME NEW d \in Store, NEW set, NEW st \in Status, NEW S \in SUBSET ScanRow, NEW e,
           e = [packets |-> SetStatus(d.packets, set, st), scans |-> S]
    PROVE  SameArchive(d, e) /\ e.scans = S
  <1>1. d.packets \in [PacketId -> PacketRow \cup {None}]
    BY DEF Store
  <1>2. e.packets = SetStatus(d.packets, set, st) /\ e.scans = S
    OBVIOUS
  <1>3. /\ e.packets \in [PacketId -> PacketRow \cup {None}]
        /\ \A p \in PacketId :
              /\ e.packets[p] = None <=> d.packets[p] = None
              /\ d.packets[p] # None => e.packets[p].fragment = d.packets[p].fragment
    BY <1>1, <1>2, SetStatusEffect
  <1>4. e \in Store
    BY <1>2, <1>3 DEF Store
  <1>5. QED
    BY <1>2, <1>3, <1>4 DEF SameArchive, Archived

\* Two transactions, one after the other.
LEMMA SameArchiveTwice ==
    ASSUME NEW c, NEW d, NEW e, SameArchive(c, d), SameArchive(d, e)
    PROVE  SameArchive(c, e)
  BY DEF SameArchive

\* The row of scan s takes the place of the incomplete rows of its key.
Inserts(d, e, s) ==
    /\ Legal(d, e)
    /\ \A row \in e.scans :
          IF row.key = s.key
          THEN TransportComplete(row) <=> Received(s.fragments) = fragment_mask(s.metadata)
          ELSE row \in d.scans

\* insert_profile_scan.
LEMMA InsertLegal ==
    ASSUME NEW d \in Store, StoreLegal(d), NEW s \in ReassembledProfile,
           ScanLegal(d, s.key, s.metadata, s.fragments)
    PROVE  Inserts(d, insert_profile_scan(d, s), s)
  <1> DEFINE e   == insert_profile_scan(d, s)
             row == InsertedRow(d, s)
             st  == IF TransportComplete(row) THEN "assembled" ELSE "incomplete"
             old == Surviving(d, s.key)
  <1>1. /\ s.key \in Key /\ s.metadata \in Meta /\ s.fragments \in Slots
        /\ s.duplicates \in Count /\ s.conflicts \in Count
    BY ReassembledType
  <1>2. d.scans \subseteq ScanRow
    BY DEF Store
  <1>3. old = {r \in d.scans : r.key # s.key}
    BY DEF Surviving, IncompleteRows, ScanLegal, Done
  <1>4. old \in SUBSET ScanRow /\ IsFiniteSet(old)
    BY <1>2, <1>3, FS_Subset DEF StoreLegal
  <1>5. row \in ScanRow /\ RowOf(s, row)
    <2>1. NextScanId(old) \in Nat \ {0}
      BY <1>4, NextScanIdType
    <2>2. [i \in Index |-> IF s.fragments[i] = None THEN None ELSE s.fragments[i].packet]
             \in [Index -> PacketId \cup {None}]
      BY <1>1 DEF Slots, Slot
    <2>3. QED
      BY <1>1, <2>1, <2>2 DEF InsertedRow, ScanRow, RowOf
  <1>6. e = [packets |-> SetStatus(d.packets, Linked(row), st), scans |-> old \cup {row}]
    BY DEF insert_profile_scan
  <1>7. st \in Status
    BY DEF Status
  <1> HIDE DEF row, e, st, old
  <1>8. /\ Received(row.fragments) = Received(s.fragments)
        /\ \A i \in Received(s.fragments) : row.fragments[i] = s.fragments[i].packet
        /\ TransportComplete(row) <=> Received(s.fragments) = fragment_mask(s.metadata)
    BY <1>5, RowOfScan
  <1>9. old \cup {row} \in SUBSET ScanRow
    BY <1>4, <1>5
  <1>10. SameArchive(d, e) /\ e.scans = old \cup {row}
    BY <1>6, <1>7, <1>9, SetStatusArchive
  <1>11. row.key = s.key /\ row.metadata = s.metadata
    BY <1>5 DEF RowOf
  <1>12. LinksLegal(e, row)
    BY <1>8, <1>10, <1>11 DEF ScanLegal, LinksLegal, SameArchive
  <1>13. \A r \in old : LinksLegal(e, r) /\ r \in d.scans /\ r.key # s.key
    BY <1>3, <1>10 DEF StoreLegal, LinksLegal, SameArchive
  <1>14. IsFiniteSet(e.scans)
    BY <1>4, <1>10, FS_AddElement
  <1>15. \A p \in Archived(e) : e.packets[p].fragment \in Delivered
    BY <1>10 DEF SameArchive, StoreLegal
  <1>16. \A a, b \in e.scans :
            a.key = b.key /\ TransportComplete(a) /\ TransportComplete(b) => a = b
    BY <1>10, <1>11, <1>13 DEF StoreLegal
  <1>17. StoreLegal(e)
    BY <1>10, <1>12, <1>13, <1>14, <1>15, <1>16 DEF StoreLegal
  <1>18. Kept(d, e)
    <2> SUFFICES ASSUME NEW r \in d.scans, TransportComplete(r)
                 PROVE  \E new \in e.scans : Grown(r, new)
      BY DEF Kept
    <2>1. r.key # s.key
      BY DEF ScanLegal, Done
    <2>2. r \in e.scans
      BY <1>3, <1>10, <2>1
    <2>3. r.duplicates \in Count /\ r.conflicts \in Count
      BY <1>2, RowType
    <2>4. r.duplicates <= r.duplicates /\ r.conflicts <= r.conflicts
      BY <2>3, ReassemblyAssumption DEF Count
    <2>5. QED
      BY <2>2, <2>4 DEF Grown
  <1>19. Legal(d, e)
    BY <1>10, <1>17, <1>18 DEF Legal
  <1>20. \A r \in e.scans :
            IF r.key = s.key
            THEN TransportComplete(r) <=> Received(s.fragments) = fragment_mask(s.metadata)
            ELSE r \in d.scans
    BY <1>8, <1>10, <1>11, <1>13
  <1>21. QED
    BY <1>19, <1>20 DEF Inserts, e

\* A status more makes no difference to the rows.
LEMMA StatusLegal ==
    ASSUME NEW d \in Store, StoreLegal(d), NEW set, NEW st \in Status, NEW e,
           e = [packets |-> SetStatus(d.packets, set, st), scans |-> d.scans]
    PROVE  SameArchive(d, e) /\ e.scans = d.scans /\ StoreLegal(e)
  <1>1. d.scans \in SUBSET ScanRow
    BY DEF Store
  <1>2. SameArchive(d, e) /\ e.scans = d.scans
    BY <1>1, SetStatusArchive
  <1>3. QED
    BY <1>2 DEF StoreLegal, LinksLegal, SameArchive

\* insert_profile_integrity_snapshot.
LEMMA SnapshotLegal ==
    ASSUME NEW d \in Store, StoreLegal(d), NEW s \in ReassembledProfile,
           ScanLegal(d, s.key, s.metadata, s.fragments), NEW p, NEW st \in {"duplicate", "conflict"}
    PROVE  Inserts(d, insert_profile_integrity_snapshot(d, s, p, st), s)
  <1>1. PICK c : c = insert_profile_scan(d, s)
    OBVIOUS
  <1>2. PICK e : e = insert_profile_integrity_snapshot(d, s, p, st)
    OBVIOUS
  <1>3. Inserts(d, c, s)
    BY <1>1, InsertLegal
  <1>4. c \in Store /\ StoreLegal(c) /\ SameArchive(d, c)
    BY <1>3 DEF Inserts, Legal, SameArchive
  <1>5. e = [packets |-> SetStatus(c.packets, {p}, st), scans |-> c.scans]
    <2>1. PICK P : P = SetStatus(c.packets, {p}, st)
      OBVIOUS
    <2>2. e = [c EXCEPT !.packets = P]
      BY <1>1, <1>2, <2>1 DEF insert_profile_integrity_snapshot
    <2>3. e = [packets |-> P, scans |-> c.scans]
      BY <1>4, <2>2 DEF Store
    <2>4. QED
      BY <2>1, <2>3
  <1>6. st \in Status
    BY DEF Status
  <1>7. SameArchive(c, e) /\ e.scans = c.scans /\ StoreLegal(e)
    BY <1>4, <1>5, <1>6, StatusLegal
  <1>8. SameArchive(d, e)
    BY <1>4, <1>7, SameArchiveTwice
  <1>9. QED
    BY <1>2, <1>3, <1>7, <1>8 DEF Inserts, Legal, Kept

\* Only statuses change.
LEMMA SameScansLegal ==
    ASSUME NEW d, NEW e, SameArchive(d, e), StoreLegal(d), e.scans = d.scans
    PROVE  Legal(d, e) /\ NoneNew(d, e)
  <1>1. {} \in SUBSET d.scans /\ 0 \in Nat
    OBVIOUS
  <1>2. e.scans \subseteq (d.scans \ {}) \cup {AddCounts(row, 0, 0) : row \in {}}
    OBVIOUS
  <1>3. \A row \in d.scans : TransportComplete(row) =>
            IF row \in {} THEN AddCounts(row, 0, 0) \in e.scans ELSE row \in e.scans
    OBVIOUS
  <1>4. QED
    BY <1>1, <1>2, <1>3, CountingLegal

\* quarantine_pending_profile_fragment.
LEMMA DropLegal ==
    ASSUME NEW d \in Store, StoreLegal(d), NEW p \in Archived(d)
    PROVE  LET e == quarantine_pending_profile_fragment(d, p)
           IN Legal(d, e) /\ NoneNew(d, e) /\ e.scans = d.scans
  <1>1. PICK e : e = quarantine_pending_profile_fragment(d, p)
    OBVIOUS
  <1>2. PICK P : P = Invalidate(d.packets, {p})
    OBVIOUS
  <1>3. e = [d EXCEPT !.packets = P]
    BY <1>1, <1>2 DEF quarantine_pending_profile_fragment
  <1>4. e = [packets |-> P, scans |-> d.scans] /\ d.packets \in [PacketId -> PacketRow \cup {None}]
    BY <1>3 DEF Store
  <1>5. \A q \in PacketId : q \in {p} => d.packets[q] # None
    BY DEF Archived
  <1>6. /\ P \in [PacketId -> PacketRow \cup {None}]
        /\ \A q \in PacketId :
              /\ P[q] = None <=> d.packets[q] = None
              /\ d.packets[q] # None => P[q].fragment = d.packets[q].fragment
    BY <1>2, <1>4, <1>5, InvalidateEffect
  <1>7. e \in Store /\ e.packets = P /\ e.scans = d.scans
    BY <1>4, <1>6 DEF Store
  <1>8. SameArchive(d, e)
    BY <1>6, <1>7 DEF SameArchive, Archived
  <1>9. QED
    BY <1>1, <1>7, <1>8, SameScansLegal

\* reconcile_persisted_profile_fragment.
LEMMA ReconcileLegal ==
    ASSUME NEW d \in Store, StoreLegal(d), NEW f, NEW p, PersistedFragmentMatch(d, f) # None
    PROVE  LET e == reconcile_persisted_profile_fragment(d, f, p)
           IN Legal(d, e) /\ NoneNew(d, e)
  <1> DEFINE match == PersistedFragmentMatch(d, f)
             rows == PersistedRows(d, f)
             x == CountOf(match, "duplicate")
             y == CountOf(match, "conflict")
             S == (d.scans \ rows) \cup {AddCounts(row, x, y) : row \in rows}
             e == reconcile_persisted_profile_fragment(d, f, p)
  <1>1. match \in Status
    BY MatchType DEF Status
  <1>2. x \in Nat /\ y \in Nat
    BY CountOfType, ReassemblyAssumption DEF Count
  <1>3. rows \in SUBSET d.scans /\ d.scans \in SUBSET ScanRow
    BY DEF PersistedRows, Store
  <1>4. e = [packets |-> SetStatus(d.packets, {p}, match), scans |-> S]
    BY DEF reconcile_persisted_profile_fragment
  <1> HIDE DEF match, rows, x, y, e
  <1>5. S \in SUBSET ScanRow
    BY <1>2, <1>3, AddGrows
  <1>6. PICK T : T = S
    OBVIOUS
  <1>7. SameArchive(d, e) /\ e.scans = T
    BY <1>1, <1>4, <1>5, <1>6, SetStatusArchive
  <1>8. /\ e.scans \subseteq (d.scans \ rows) \cup {AddCounts(row, x, y) : row \in rows}
        /\ \A row \in d.scans : TransportComplete(row) =>
              IF row \in rows THEN AddCounts(row, x, y) \in e.scans ELSE row \in e.scans
    BY <1>6, <1>7
  <1> HIDE DEF S
  <1>9. Legal(d, e) /\ NoneNew(d, e)
    BY <1>2, <1>3, <1>7, <1>8, CountingLegal
  <1>10. QED
    BY <1>9 DEF e

\* coalesce_incomplete_profile_into_completed.
LEMMA CoalesceLegal ==
    ASSUME NEW d \in Store, StoreLegal(d), NEW copy \in ScanRow
    PROVE  LET e == coalesce_incomplete_profile_into_completed(d, copy)
           IN /\ Legal(d, e) /\ NoneNew(d, e)
              /\ \A new \in e.scans :
                    ~ TransportComplete(new) => new \in d.scans /\ new.id # copy.id
  <1> DEFINE complete   == CompleteRows(d, copy.key)
             duplicates == CoalescedDuplicates(d, copy)
             conflicts  == Received(copy.fragments) \ duplicates
             x          == copy.duplicates + Cardinality(duplicates)
             y          == copy.conflicts + Cardinality(conflicts)
             obsolete   == {row \in d.scans : row.id = copy.id /\ ~ TransportComplete(row)}
             A          == {copy.fragments[i] : i \in duplicates}
             B          == {copy.fragments[i] : i \in conflicts}
             S == (d.scans \ (complete \cup obsolete)) \cup {AddCounts(row, x, y) : row \in complete}
             e == coalesce_incomplete_profile_into_completed(d, copy)
  <1>1. "duplicate" \in Status /\ "conflict" \in Status
    BY DEF Status
  <1>2. x \in Nat /\ y \in Nat
    <2>1. IsFiniteSet(Index)
      BY FS_Interval, ReassemblyAssumption DEF Index
    <2>2. duplicates \in SUBSET Index /\ conflicts \in SUBSET Index
      BY DEF CoalescedDuplicates, Received
    <2>3. IsFiniteSet(duplicates) /\ IsFiniteSet(conflicts)
      BY <2>1, <2>2, FS_Subset
    <2>4. Cardinality(duplicates) \in Nat /\ Cardinality(conflicts) \in Nat
      BY <2>3, FS_CardinalityType
    <2>5. copy.duplicates \in Nat /\ copy.conflicts \in Nat
      BY RowType, ReassemblyAssumption DEF Count
    <2> HIDE DEF duplicates, conflicts
    <2>6. QED
      BY <2>4, <2>5
  <1>3. /\ complete \in SUBSET d.scans /\ d.scans \in SUBSET ScanRow
        /\ \A row \in complete : TransportComplete(row)
        /\ \A row \in obsolete : ~ TransportComplete(row)
    BY DEF CompleteRows, Store
  <1>4. e = [packets |-> SetStatus(SetStatus(d.packets, A, "duplicate"), B, "conflict"), scans |-> S]
    BY DEF coalesce_incomplete_profile_into_completed
  <1>5. \A row \in d.scans : row \notin S => row \in complete \cup obsolete
    OBVIOUS
  <1>6. \A row \in d.scans : row \in obsolete \/ row.id # copy.id \/ TransportComplete(row)
    OBVIOUS
  <1> HIDE DEF complete, x, y, e, A, B, obsolete
  <1>7. S \in SUBSET ScanRow
    BY <1>2, <1>3, AddGrows
  <1>8. PICK T : T = S
    OBVIOUS
  <1>9. PICK c : c = [packets |-> SetStatus(d.packets, A, "duplicate"), scans |-> d.scans]
    OBVIOUS
  <1>10. SameArchive(d, c)
    BY <1>1, <1>3, <1>9, SetStatusArchive
  <1>11. c \in Store /\ c.packets = SetStatus(d.packets, A, "duplicate")
    BY <1>9, <1>10 DEF SameArchive
  <1>12. e = [packets |-> SetStatus(c.packets, B, "conflict"), scans |-> T]
    BY <1>4, <1>8, <1>11
  <1>13. SameArchive(c, e) /\ e.scans = T
    BY <1>1, <1>7, <1>8, <1>11, <1>12, SetStatusArchive
  <1>14. SameArchive(d, e)
    BY <1>10, <1>13, SameArchiveTwice
  <1>15. e.scans \subseteq (d.scans \ complete) \cup {AddCounts(row, x, y) : row \in complete}
    BY <1>8, <1>13
  <1>16. \A row \in d.scans : TransportComplete(row) =>
              IF row \in complete THEN AddCounts(row, x, y) \in e.scans ELSE row \in e.scans
    BY <1>3, <1>5, <1>8, <1>13
  <1>17. Legal(d, e) /\ NoneNew(d, e)
    BY <1>2, <1>3, <1>14, <1>15, <1>16, CountingLegal
  <1>18. \A new \in e.scans : ~ TransportComplete(new) => new \in d.scans /\ new.id # copy.id
    <2> SUFFICES ASSUME NEW new \in e.scans, ~ TransportComplete(new)
                 PROVE  new \in d.scans /\ new.id # copy.id
      OBVIOUS
    <2>1. new \in d.scans \ (complete \cup obsolete) \/ \E row \in complete : new = AddCounts(row, x, y)
      BY <1>8, <1>13
    <2>2. \A row \in complete : TransportComplete(AddCounts(row, x, y))
      BY <1>2, <1>3, AddGrows, GrownLinks
    <2>3. QED
      BY <1>6, <2>1, <2>2
  <1>19. QED
    BY <1>17, <1>18 DEF e

\* quarantine_incomplete_profile_fragment, whatever the rows of the scan.
LEMMA DismantleLegal ==
    ASSUME NEW d \in Store, StoreLegal(d), NEW ok, NEW k, NEW p \in Archived(d)
    PROVE  LET e == quarantine_incomplete_profile_fragment(d, ok, k, p)
           IN Legal(d, e) /\ NoneNew(d, e) /\ e.scans = Surviving(d, k)
  <1> DEFINE candidates == ReplayCandidates(d, ok, k, p)
             matching   == {q \in candidates : DecodesTo(d, ok, k, q)}
             requeued   == SetStatus(d.packets, matching, "pending")
             bad        == (candidates \ matching) \cup {p}
  <1>0. PICK e : e = quarantine_incomplete_profile_fragment(d, ok, k, p)
    OBVIOUS
  <1>1. d.scans \subseteq ScanRow /\ d.packets \in [PacketId -> PacketRow \cup {None}]
    BY DEF Store
  <1>2. candidates \subseteq Archived(d)
    BY DEF ReplayCandidates, IntegrityEvents, WithStatus
  <1>3. e = [packets |-> Invalidate(requeued, bad), scans |-> Surviving(d, k)]
    BY <1>0 DEF quarantine_incomplete_profile_fragment
  <1>4. bad \subseteq Archived(d)
    BY <1>2
  <1> HIDE DEF candidates, matching, bad
  <1>5. /\ requeued \in [PacketId -> PacketRow \cup {None}]
        /\ \A q \in PacketId :
              /\ requeued[q] = None <=> d.packets[q] = None
              /\ d.packets[q] # None => requeued[q].fragment = d.packets[q].fragment
    BY <1>1, SetStatusEffect DEF Status
  <1> HIDE DEF requeued
  <1>6. \A q \in PacketId : q \in bad => requeued[q] # None
    BY <1>4, <1>5 DEF Archived
  <1>7. PICK P : P = Invalidate(requeued, bad)
    OBVIOUS
  <1>8. /\ P \in [PacketId -> PacketRow \cup {None}]
        /\ \A q \in PacketId :
              /\ P[q] = None <=> requeued[q] = None
              /\ requeued[q] # None => P[q].fragment = requeued[q].fragment
    BY <1>5, <1>6, <1>7, InvalidateEffect
  <1>9. e.packets = P /\ e.scans = Surviving(d, k) /\ e = [packets |-> P, scans |-> Surviving(d, k)]
    BY <1>3, <1>7
  <1>10. Surviving(d, k) \in SUBSET d.scans
    BY DEF Surviving
  <1>11. e \in Store
    BY <1>1, <1>8, <1>9, <1>10 DEF Store
  <1>12. SameArchive(d, e)
    BY <1>5, <1>8, <1>9, <1>11 DEF SameArchive, Archived
  <1>13. PICK rows : rows = {}
    OBVIOUS
  <1>14. rows \in SUBSET d.scans /\ 0 \in Nat
    BY <1>13
  <1>15. e.scans \subseteq (d.scans \ rows) \cup {AddCounts(row, 0, 0) : row \in rows}
    BY <1>9, <1>10, <1>13
  <1>16. \A row \in d.scans : TransportComplete(row) =>
              IF row \in rows THEN AddCounts(row, 0, 0) \in e.scans ELSE row \in e.scans
    BY <1>9, <1>13 DEF Surviving, IncompleteRows
  <1>17. Legal(d, e) /\ NoneNew(d, e)
    BY <1>12, <1>14, <1>15, <1>16, CountingLegal
  <1>18. QED
    BY <1>0, <1>9, <1>17

\* What a store has, another has too.
Extends(d, e) ==
    /\ d \in Store /\ e \in Store
    /\ \A q \in Archived(d) : q \in Archived(e) /\ e.packets[q].fragment = d.packets[q].fragment

LEMMA SameExtends ==
    ASSUME NEW d, NEW e, SameArchive(d, e)
    PROVE  Extends(d, e)
  BY DEF SameArchive, Extends

\* A packet with a new id is archived.
LEMMA ArchiveLegal ==
    ASSUME NEW d \in Store, StoreLegal(d), NEW f \in Delivered, NEW p \in PacketId,
           p \notin Archived(d), NEW st \in {"pending", "invalid"}, NEW e,
           e = [d EXCEPT !.packets[p] = [fragment |-> f, status |-> st]]
    PROVE  Extends(d, e) /\ e.scans = d.scans /\ StoreLegal(e) /\ p \in Archived(e)
  <1> DEFINE new == [fragment |-> f, status |-> st]
  <1>1. new \in PacketRow /\ new # None /\ new.fragment = f
    BY ReceiverAssumption, StoreNoneAssumption DEF PacketRow, Status
  <1>2. d.packets \in [PacketId -> PacketRow \cup {None}]
    BY DEF Store
  <1> HIDE DEF new
  <1>3. e.packets = [d.packets EXCEPT ![p] = new] /\ e.scans = d.scans
    BY DEF Store, new
  <1>4. e \in Store
    BY <1>1 DEF Store, new
  <1>5. \A q \in PacketId : e.packets[q] = IF q = p THEN new ELSE d.packets[q]
    BY <1>2, <1>3
  <1>6. /\ Archived(e) = Archived(d) \cup {p}
        /\ \A q \in Archived(d) : e.packets[q] = d.packets[q]
    BY <1>1, <1>5 DEF Archived
  <1>7. Extends(d, e)
    BY <1>4, <1>6 DEF Extends
  <1>8. \A q \in Archived(e) : e.packets[q].fragment \in Delivered
    BY <1>1, <1>5, <1>6 DEF StoreLegal
  <1>9. \A row \in d.scans : LinksLegal(e, row)
    BY <1>6 DEF StoreLegal, LinksLegal
  <1>10. QED
    BY <1>3, <1>6, <1>7, <1>8, <1>9 DEF StoreLegal

-----------------------------------------------------------------------------
(***************************************************************************)
(* The queue of completed scans.                                           *)
(***************************************************************************)
\* A scan that is pushed is not popped at once: those before it have lower ordinals.
LEMMA PushStays ==
    ASSUME NEW c \in [Key -> CompletedProfile \cup {None}], NEW k \in Key, c[k] # None,
           \A j \in Key : j # k /\ c[j] # None => c[j].pushed < c[k].pushed
    PROVE  PopFront(c)[k] = c[k]
  <1> DEFINE K == {j \in Key : c[j] # None}
             S == {c[j].pushed : j \in K}
  <1>1. \A j \in K : c[j] \in CompletedProfile /\ c[j].pushed \in Nat
    BY DEF CompletedProfile
  <1>2. CASE Cardinality(K) > MaxActive /\ OldestCompleted(c) = k
    <2>1. k \in K /\ S \in SUBSET Nat /\ S # {}
      BY <1>1
    <2>2. Least(S) \in S /\ \A m \in S : Least(S) <= m
      BY <2>1, LeastType
    <2>3. PICK o \in K : \A j \in K : c[o].pushed <= c[j].pushed
      BY <2>2
    <2>4. k = CHOOSE q \in K : \A j \in Key : c[j] # None => c[q].pushed <= c[j].pushed
      BY <1>2 DEF OldestCompleted
    <2>5. \A j \in K : c[k].pushed <= c[j].pushed
      BY <2>3, <2>4
    <2>6. \A j \in K : j = k
      BY <1>1, <2>1, <2>5
    <2>7. K = {k}
      BY <2>1, <2>6
    <2>8. Cardinality(K) = 1
      BY <2>7, FS_Singleton
    <2>9. QED
      BY <1>2, <2>8, ReassemblyAssumption
  <1>3. CASE ~ (Cardinality(K) > MaxActive /\ OldestCompleted(c) = k)
    BY <1>3 DEF PopFront
  <1>4. QED
    BY <1>2, <1>3

\* A scan that is complete enters the queue.
LEMMA CompleteQueue ==
    ASSUME NEW r \in Reassembler, CacheLegal(r), NEW k \in Key, NEW x \in ActiveProfile
    PROVE  CacheLegal(Complete(r, k, x)) /\ k \in CompletedKeys(Complete(r, k, x))
  <1> DEFINE entry  == [fragments |-> x.fragments,
                        completed_at |-> x.last_observed_at,
                        pushed |-> r.pushes]
             c == [r.completed EXCEPT ![k] = entry]
             s == Complete(r, k, x)
  <1>1. entry \in CompletedProfile /\ entry.pushed = r.pushes /\ r.pushes \in Nat /\ entry # None
    BY NoneAssumption DEF ActiveProfile, CompletedProfile, Reassembler
  <1> HIDE DEF entry
  <1>2. c \in [Key -> CompletedProfile \cup {None}]
    BY <1>1 DEF Reassembler
  <1>3. \A j \in Key : c[j] = IF j = k THEN entry ELSE r.completed[j]
    BY DEF Reassembler
  <1>4. s.completed = PopFront(c) /\ s.pushes = r.pushes + 1
    BY DEF Complete, entry
  <1> HIDE DEF c, s
  <1>5. \A j \in Key : j # k /\ c[j] # None => c[j].pushed < c[k].pushed
    BY <1>1, <1>3 DEF CacheLegal, CompletedKeys
  <1>6. PopFront(c)[k] = c[k]
    BY <1>1, <1>2, <1>3, <1>5, PushStays
  <1>7. k \in CompletedKeys(s)
    BY <1>1, <1>3, <1>4, <1>6 DEF CompletedKeys
  <1>8. \A j \in CompletedKeys(s) : s.completed[j].pushed < s.pushes
    <2> SUFFICES ASSUME NEW j \in CompletedKeys(s)
                 PROVE  s.completed[j].pushed < s.pushes
      OBVIOUS
    <2>1. j \in Key /\ s.completed[j] = c[j] /\ c[j] # None
      BY <1>2, <1>4, PopFrontType DEF CompletedKeys
    <2>2. c[j].pushed \in Nat
      BY <1>2, <2>1 DEF CompletedProfile
    <2>3. c[j].pushed < c[k].pushed \/ j = k
      BY <1>5, <2>1
    <2>4. QED
      BY <1>1, <1>3, <1>4, <2>1, <2>2, <2>3
  <1>9. QED
    BY <1>7, <1>8 DEF CacheLegal, s

\* What an ingest does to the queue.
LEMMA IngestQueue ==
    ASSUME NEW r \in Reassembler, CacheLegal(r), NEW f \in OwnedFragment, NEW p \in PacketId,
           NEW t \in Nat, NEW v \in EvictionChoices(r, f.key)
    PROVE  LET call == IngestActive(r, f, p, t, v)
           IN /\ CacheLegal(call.state)
              /\ call.result.event = "Complete" => f.key \in CompletedKeys(call.state)
  <1> DEFINE room    == Evict(r, v)
             entry   == Entry(room, f, t)
             verdict == Verdict(entry, f)
             counted == Counted(entry, verdict)
             filled  == Accept(entry, f, p, t)
             call    == IngestActive(r, f, p, t, v)
  <1>1. f.key \in Key
    BY DEF OwnedFragment
  <1>2. v \in Key \cup {None}
    BY <1>1, EvictionChoicesType
  <1>3. room \in Reassembler /\ room.completed = r.completed /\ room.pushes = r.pushes
    BY <1>2, EvictType
  <1>4. CacheLegal(room)
    BY <1>3 DEF CacheLegal, CompletedKeys
  <1> HIDE DEF room
  <1>5. entry \in ActiveProfile
    BY <1>3, EntryType
  <1>6. filled \in ActiveProfile
    BY <1>5, AcceptType
  <1>7. verdict \in {"Accepted", "Duplicate", "Conflict"}
    BY <1>5, VerdictCases
  <1>8. call = IF verdict # "Accepted"
               THEN [state |-> [room EXCEPT !.active[f.key] = counted],
                     result |-> Result(verdict, None, Evicted(r, v), finish(f.key, counted))]
               ELSE IF Received(filled.fragments) = fragment_mask(filled.metadata)
               THEN [state |-> Complete(room, f.key, filled),
                     result |-> Result("Complete", finish(f.key, filled), Evicted(r, v), None)]
               ELSE [state |-> [room EXCEPT !.active[f.key] = filled],
                     result |-> Result("Pending", None, Evicted(r, v), None)]
    BY DEF IngestActive, room
  <1> HIDE DEF entry, verdict, counted, filled, call
  <1>9. \A x : LET s == [room EXCEPT !.active[f.key] = x]
               IN s.completed = room.completed /\ s.pushes = room.pushes
    BY <1>3 DEF Reassembler
  <1>10. \A x : CacheLegal([room EXCEPT !.active[f.key] = x])
    BY <1>4, <1>9 DEF CacheLegal, CompletedKeys
  <1>11. CASE verdict # "Accepted"
    <2>1. call.state = [room EXCEPT !.active[f.key] = counted] /\ call.result.event = verdict
      BY <1>8, <1>11 DEF Result
    <2>2. QED
      BY <1>7, <1>10, <2>1 DEF call
  <1>12. CASE verdict = "Accepted" /\ Received(filled.fragments) = fragment_mask(filled.metadata)
    <2>1. call.state = Complete(room, f.key, filled)
      BY <1>8, <1>12
    <2>2. QED
      BY <1>1, <1>3, <1>4, <1>6, <2>1, CompleteQueue DEF call
  <1>13. CASE verdict = "Accepted" /\ Received(filled.fragments) # fragment_mask(filled.metadata)
    <2>1. call.state = [room EXCEPT !.active[f.key] = filled] /\ call.result.event = "Pending"
      BY <1>8, <1>13 DEF Result
    <2>2. QED
      BY <1>10, <2>1 DEF call
  <1>14. QED
    BY <1>11, <1>12, <1>13

-----------------------------------------------------------------------------
(***************************************************************************)
(* The scans in memory.                                                    *)
(***************************************************************************)
\* What holds of a store holds of one that extends it.
LEMMA ExtendsLegal ==
    ASSUME NEW d, NEW e, Extends(d, e)
    PROVE  /\ \A row : LinksLegal(d, row) => LinksLegal(e, row)
           /\ \A k, m, fragments : ScanLegal(d, k, m, fragments) /\ ~ Done(e, k) =>
                 ScanLegal(e, k, m, fragments)
  BY DEF Extends, LinksLegal, ScanLegal

\* The scans left in memory, none of which the transaction completes.
LEMMA MemoryLegalFrame ==
    ASSUME NEW d, NEW e, Extends(d, e), NEW r, NEW out, NEW ev, MemoryLegal(d, r, out, ev),
           NEW rest \in SUBSET out, NEW left_ev \in {ev, None},
           \A k \in ActiveKeys(r) : ~ Done(e, k),
           \A s \in rest : ~ Done(e, s.key),
           left_ev # None /\ left_ev.profile # None => ~ Done(e, left_ev.profile.key)
    PROVE  MemoryLegal(e, r, rest, left_ev)
  <1>1. TableLegal(e, r)
    BY ExtendsLegal DEF MemoryLegal, TableLegal
  <1>2. OutLegal(e, r, rest)
    BY ExtendsLegal DEF MemoryLegal, OutLegal
  <1>3. ResultLegal(e, r, rest, left_ev)
    BY ExtendsLegal DEF MemoryLegal, ResultLegal
  <1>4. QED
    BY <1>1, <1>2, <1>3 DEF MemoryLegal

\* No scan is complete that was not.
LEMMA SameMemoryLegal ==
    ASSUME NEW d, NEW e, Extends(d, e), \A k : Done(e, k) => Done(d, k),
           NEW r, NEW out, NEW ev, MemoryLegal(d, r, out, ev)
    PROVE  MemoryLegal(e, r, out, ev)
  <1>1. /\ \A k \in ActiveKeys(r) : ~ Done(d, k)
        /\ \A s \in out : ~ Done(d, s.key)
        /\ ev # None /\ ev.profile # None => ~ Done(d, ev.profile.key)
    BY DEF MemoryLegal, TableLegal, OutLegal, ResultLegal, ScanLegal
  <1>2. QED
    BY <1>1, MemoryLegalFrame

\* A scan stays legal with the fragment in hand in one of its slots.
LEMMA FilledLegal ==
    ASSUME NEW d \in Store, NEW f \in Delivered, NEW p \in Archived(d),
           d.packets[p].fragment = f, ~ Done(d, f.key),
           NEW r \in Reassembler, TableLegal(d, r), NEW t \in Nat, NEW x, FillsSlot(r, f, t, x)
    PROVE  LET y == Accept(x, f, p, t)
           IN /\ y \in ActiveProfile /\ y.metadata = f.metadata
              /\ ScanLegal(d, f.key, y.metadata, y.fragments)
  <1> DEFINE y == Accept(x, f, p, t)
  <1>1. x \in ActiveProfile /\ x.metadata = f.metadata /\ f \in OwnedFragment /\ p \in PacketId
    BY ReceiverAssumption DEF FillsSlot, Archived
  <1>2. y \in ActiveProfile /\ y.metadata = x.metadata
    BY <1>1, AcceptType
  <1>3. /\ Received(y.fragments) = Received(x.fragments) \cup {f.fragment_index}
        /\ y.fragments[f.fragment_index] = [fragment |-> f, packet |-> p]
        /\ \A i \in Index : i # f.fragment_index => y.fragments[i] = x.fragments[i]
    BY <1>1, ReceivedAccept
  <1> HIDE DEF y
  <1>4. \A i \in Received(x.fragments) :
            /\ x.fragments[i].packet \in Archived(d)
            /\ d.packets[x.fragments[i].packet].fragment.key = f.key
    <2>1. CASE contains_active(r, f.key)
      BY <1>1, <2>1 DEF FillsSlot, contains_active, ActiveKeys, TableLegal, ScanLegal, OwnedFragment
    <2>2. CASE ~ contains_active(r, f.key)
      <3>1. Received(x.fragments) = {}
        BY <1>1, <2>2, NewActiveType DEF FillsSlot
      <3>2. QED
        BY <3>1
    <2>3. QED
      BY <2>1, <2>2
  <1>5. \A i \in Received(y.fragments) :
            /\ y.fragments[i].packet \in Archived(d)
            /\ d.packets[y.fragments[i].packet].fragment.key = f.key
    BY <1>3, <1>4 DEF Received
  <1>6. Announced(f.key, y.metadata)
    BY <1>1, <1>2 DEF Announced
  <1>7. QED
    BY <1>1, <1>2, <1>5, <1>6 DEF ScanLegal, y

\* A victim moves from the table to the backlog, to make room for scan k.
LEMMA RoomLegal ==
    ASSUME NEW d, NEW r \in Reassembler, TableLegal(d, r), NEW s, NEW k \in Key, NEW v, NEW out,
           Room(r, s, k, v, out),
           k \in ActiveKeys(s) => /\ ScanLegal(d, k, s.active[k].metadata, s.active[k].fragments)
                                  /\ Received(s.active[k].fragments) # fragment_mask(s.active[k].metadata)
    PROVE  /\ TableLegal(d, s) /\ OutLegal(d, s, out)
           /\ out \subseteq ReassembledProfile
           /\ \A j \in ActiveKeys(s) : j \in ActiveKeys(r) \/ j = k
           /\ \A t \in out : t.key \in ActiveKeys(r) /\ t.key # k
  <1>1. /\ out \subseteq ReassembledProfile
        /\ \A j \in ActiveKeys(s) : j # k => j \in ActiveKeys(r) /\ s.active[j] = r.active[j]
        /\ \A t \in out :
              /\ t.key \in ActiveKeys(r)
              /\ t.key # k
              /\ t.key \notin ActiveKeys(s)
              /\ t.metadata = r.active[t.key].metadata
              /\ t.fragments = r.active[t.key].fragments
        /\ \A t, u \in out : t = u
    BY RoomMemory
  <1>2. TableLegal(d, s)
    BY <1>1 DEF TableLegal
  <1>3. OutLegal(d, s, out)
    BY <1>1 DEF OutLegal, TableLegal
  <1>4. QED
    BY <1>1, <1>2, <1>3

\* What ingest_at does to the scans in memory, for fragment f in hand.
Ingested(d, r, s, out, ev, f) ==
    /\ s \in Reassembler /\ out \subseteq ReassembledProfile /\ ev \in Event \cup {None}
    /\ MemoryLegal(d, s, out, ev)
    /\ f.key \in CompletedKeys(r) => s = r
    /\ \A k \in ActiveKeys(s) : k \in ActiveKeys(r) \/ k = f.key
    /\ \A t \in out : t.key \in ActiveKeys(r)
    /\ ev # None /\ ev.profile # None => ev.profile.key = f.key

\* The result of ingest_at is one of the values that an event can have.
LEMMA EventOfType ==
    ASSUME NEW result, NEW p \in PacketId, NEW ev, ev = EventOf(result, p),
           result.event \in {"Pending", "Complete", "Duplicate", "Conflict"},
           result.event = "Complete" => result.profile \in ReassembledProfile,
           result.event \in {"Duplicate", "Conflict"} =>
               result.integrity_snapshot \in ReassembledProfile \cup {None}
    PROVE  /\ ev \in Event \cup {None}
           /\ ev = None <=> result.event = "Pending"
           /\ ev # None =>
                 /\ ev.event = result.event
                 /\ ev.profile = IF result.event = "Complete" THEN result.profile
                                 ELSE result.integrity_snapshot
  <1>1. CASE result.event = "Pending"
    BY <1>1 DEF EventOf
  <1>2. CASE result.event # "Pending"
    <2>1. ev = [event |-> result.event,
                profile |-> IF result.event = "Complete" THEN result.profile
                            ELSE result.integrity_snapshot,
                packet |-> p]
      BY <1>2 DEF EventOf
    <2>2. ev \in Event
      BY <1>2, <2>1 DEF Event
    <2>3. QED
      BY <1>2, <2>1, <2>2, EventNoneAssumption
  <1>3. QED
    BY <1>1, <1>2

\* An ingest of a fragment whose scan is cached if it is stored as complete.
LEMMA IngestLegal ==
    ASSUME NEW d \in Store, NEW r \in Reassembler, MemoryLegal(d, r, {}, None),
           NEW f \in Delivered, NEW p \in Archived(d), d.packets[p].fragment = f,
           NEW t \in Nat, NEW v \in Victims(r, f), Done(d, f.key) => f.key \in CompletedKeys(r),
           NEW call, call = ingest_at(r, f, p, t, v),
           NEW out, out = {call.result.evicted} \ {None},
           NEW ev, ev = EventOf(call.result, p)
    PROVE  Ingested(d, r, call.state, out, ev, f)
  <1>1. f \in OwnedFragment /\ f.key \in Key /\ p \in PacketId
    BY ReceiverAssumption DEF OwnedFragment, Archived
  <1>2. TableLegal(d, r) /\ CacheLegal(r)
    BY DEF MemoryLegal
  <1>3. CASE r.completed[f.key] # None
    <2>1. call.state = r /\ call.result.event \in {"Duplicate", "Conflict"}
          /\ call.result.evicted = None /\ call.result.integrity_snapshot = None
      BY <1>3 DEF ingest_at, IngestCompleted, Result
    <2>2. ev \in Event \cup {None} /\ (ev # None => ev.profile = None)
      BY <1>1, <2>1, EventOfType
    <2>3. out = {}
      BY <2>1
    <2>4. MemoryLegal(d, r, out, ev)
      BY <1>2, <2>2, <2>3 DEF MemoryLegal, OutLegal, ResultLegal
    <2>5. QED
      BY <2>1, <2>2, <2>3, <2>4 DEF Ingested
  <1>4. CASE r.completed[f.key] = None
    <2> DEFINE s == call.state
               result == call.result
    <2>1. v \in EvictionChoices(r, f.key) /\ call = IngestActive(r, f, p, t, v)
      BY <1>4 DEF Victims, ingest_at
    <2>2. f.key \notin CompletedKeys(r) /\ ~ Done(d, f.key)
      BY <1>4 DEF CompletedKeys
    <2>3. /\ s \in Reassembler
          /\ result.evicted = Evicted(r, v)
          /\ \/ CountedCase(r, s, result, f, v)
             \/ PendingCase(r, s, result, f, p, t, v)
             \/ CompleteCase(r, s, result, f, p, t, v)
      BY <1>1, <2>1, IngestActiveCases
    <2>4. CacheLegal(s) /\ (result.event = "Complete" => f.key \in CompletedKeys(s))
      BY <1>1, <1>2, <2>1, IngestQueue
    <2> HIDE DEF s, result
    <2>5. out = {Evicted(r, v)} \ {None}
      BY <2>3 DEF result
    <2>6. ev = EventOf(result, p)
      BY DEF result
    <2>7. ASSUME NEW x, Table(r, s, f.key, v, x),
                 x # None => /\ ScanLegal(d, f.key, x.metadata, x.fragments)
                             /\ Received(x.fragments) # fragment_mask(x.metadata),
                 ev \in Event \cup {None},
                 ev # None /\ ev.profile # None =>
                    /\ ev.profile.key = f.key
                    /\ ScanLegal(d, f.key, ev.profile.metadata, ev.profile.fragments)
                    /\ IF ev.event = "Complete"
                       THEN x = None /\ result.event = "Complete"
                       ELSE Received(ev.profile.fragments) # fragment_mask(ev.profile.metadata)
          PROVE  Ingested(d, r, s, out, ev, f)
      <3>1. /\ TableLegal(d, s) /\ OutLegal(d, s, out)
            /\ out \subseteq ReassembledProfile
            /\ \A j \in ActiveKeys(s) : j \in ActiveKeys(r) \/ j = f.key
            /\ \A u \in out : u.key \in ActiveKeys(r) /\ u.key # f.key
        <4>1. v = None \/ (v \in ActiveKeys(r) /\ v # f.key)
          BY <1>1, <2>1, EvictionChoicesType
        <4>2. Room(r, s, f.key, v, out)
          BY <1>1, <2>1, <2>3, <2>5, <2>7, <4>1 DEF Room, Table
        <4>3. f.key \in ActiveKeys(s) => s.active[f.key] = x /\ x # None
          BY <1>1, <2>7 DEF Table, ActiveKeys
        <4>4. QED
          BY <1>1, <1>2, <2>7, <4>2, <4>3, RoomLegal
      <3>2. x = None => f.key \notin ActiveKeys(s)
        BY <1>1, <2>7 DEF Table, ActiveKeys
      <3>3. ResultLegal(d, s, out, ev)
        BY <2>4, <2>7, <3>1, <3>2 DEF ResultLegal
      <3>4. QED
        BY <2>2, <2>3, <2>4, <2>7, <3>1, <3>3 DEF Ingested, MemoryLegal
    <2>8. CASE CountedCase(r, s, result, f, v)
      <3>1. PICK x : /\ contains_active(r, f.key)
                     /\ result.event \in {"Duplicate", "Conflict"}
                     /\ x = Counted(r.active[f.key], result.event)
                     /\ Table(r, s, f.key, v, x)
                     /\ result.integrity_snapshot = finish(f.key, x)
        BY <2>8 DEF CountedCase
      <3>2. f.key \in ActiveKeys(r) /\ r.active[f.key] \in ActiveProfile
        BY <1>1, <3>1, ActiveType DEF contains_active, ActiveKeys
      <3>3. x \in ActiveProfile /\ x.metadata = r.active[f.key].metadata
            /\ x.fragments = r.active[f.key].fragments
        BY <3>1, <3>2, CountedType
      <3>4. /\ ScanLegal(d, f.key, x.metadata, x.fragments)
            /\ Received(x.fragments) # fragment_mask(x.metadata)
        BY <1>2, <3>2, <3>3 DEF TableLegal
      <3>5. /\ finish(f.key, x) \in ReassembledProfile /\ finish(f.key, x).key = f.key
            /\ finish(f.key, x).metadata = x.metadata /\ finish(f.key, x).fragments = x.fragments
        BY <1>1, <3>3, FinishType
      <3>6. /\ ev \in Event \cup {None}
            /\ ev # None => ev.event = result.event /\ ev.profile = finish(f.key, x)
        BY <1>1, <2>6, <3>1, <3>5, EventOfType
      <3>7. Ingested(d, r, s, out, ev, f)
        BY <2>7, <3>1, <3>4, <3>5, <3>6
      <3>8. QED
        BY <3>7 DEF s
    <2>9. CASE PendingCase(r, s, result, f, p, t, v)
      <3>1. PICK x : /\ FillsSlot(r, f, t, x)
                     /\ result.event = "Pending"
                     /\ Received(Accept(x, f, p, t).fragments) # fragment_mask(f.metadata)
                     /\ Table(r, s, f.key, v, Accept(x, f, p, t))
        BY <2>9 DEF PendingCase
      <3>2. PICK y : y = Accept(x, f, p, t)
        OBVIOUS
      <3>3. y.metadata = f.metadata /\ ScanLegal(d, f.key, y.metadata, y.fragments)
        BY <1>2, <2>2, <3>1, <3>2, FilledLegal
      <3>4. ev = None
        BY <1>1, <2>6, <3>1, EventOfType
      <3>5. Ingested(d, r, s, out, ev, f)
        BY <2>7, <3>1, <3>2, <3>3, <3>4
      <3>6. QED
        BY <3>5 DEF s
    <2>10. CASE CompleteCase(r, s, result, f, p, t, v)
      <3>1. PICK x : /\ FillsSlot(r, f, t, x)
                     /\ result.event = "Complete"
                     /\ result.profile = finish(f.key, Accept(x, f, p, t))
                     /\ Table(r, s, f.key, v, None)
        BY <2>10 DEF CompleteCase
      <3>2. PICK y : y = Accept(x, f, p, t)
        OBVIOUS
      <3>3. y \in ActiveProfile /\ ScanLegal(d, f.key, y.metadata, y.fragments)
        BY <1>2, <2>2, <3>1, <3>2, FilledLegal
      <3>4. /\ finish(f.key, y) \in ReassembledProfile /\ finish(f.key, y).key = f.key
            /\ finish(f.key, y).metadata = y.metadata /\ finish(f.key, y).fragments = y.fragments
        BY <1>1, <3>3, FinishType
      <3>5. /\ ev \in Event \cup {None}
            /\ ev # None => ev.event = "Complete" /\ ev.profile = finish(f.key, y)
        BY <1>1, <2>6, <3>1, <3>2, <3>4, EventOfType
      <3>6. Ingested(d, r, s, out, ev, f)
        BY <2>7, <3>1, <3>3, <3>4, <3>5
      <3>7. QED
        BY <3>6 DEF s
    <2>11. QED
      BY <2>3, <2>8, <2>9, <2>10
  <1>5. QED
    BY <1>3, <1>4

\* The same scans with other counters.
Alike(r, s) ==
    /\ s \in Reassembler
    /\ ActiveKeys(s) = ActiveKeys(r)
    /\ \A k \in ActiveKeys(r) :
          s.active[k].metadata = r.active[k].metadata /\ s.active[k].fragments = r.active[k].fragments
    /\ s.completed = r.completed /\ s.pushes = r.pushes

LEMMA AlikeLegal ==
    ASSUME NEW d, NEW r, NEW s, Alike(r, s), NEW out, NEW ev, MemoryLegal(d, r, out, ev)
    PROVE  MemoryLegal(d, s, out, ev)
  <1>1. CompletedKeys(s) = CompletedKeys(r)
    BY DEF Alike, CompletedKeys
  <1>2. TableLegal(d, s)
    BY DEF Alike, MemoryLegal, TableLegal
  <1>3. OutLegal(d, s, out)
    BY DEF Alike, MemoryLegal, OutLegal
  <1>4. ResultLegal(d, s, out, ev)
    BY <1>1 DEF Alike, MemoryLegal, ResultLegal
  <1>5. CacheLegal(s)
    BY <1>1 DEF Alike, MemoryLegal, CacheLegal
  <1>6. QED
    BY <1>2, <1>3, <1>4, <1>5 DEF MemoryLegal

\* The counters of a row are added to those of an active scan.
LEMMA RestoreAlike ==
    ASSUME NEW r \in Reassembler, NEW k \in Key, contains_active(r, k), NEW m \in Count, NEW n \in Count
    PROVE  Alike(r, restore_receiver_counts(r, k, m, n))
  <1>1. PICK s : s = restore_receiver_counts(r, k, m, n)
    OBVIOUS
  <1>2. /\ s \in Reassembler /\ s.completed = r.completed
        /\ \A j \in Key : j # k => s.active[j] = r.active[j]
        /\ s.active[k] \in ActiveProfile
        /\ s.active[k].metadata = r.active[k].metadata
        /\ s.active[k].fragments = r.active[k].fragments
    BY <1>1, RestoreType
  <1>3. s.pushes = r.pushes
    BY <1>1 DEF restore_receiver_counts, Reassembler
  <1>4. ActiveKeys(s) = ActiveKeys(r)
    BY <1>2, NoneAssumption DEF ActiveKeys, contains_active
  <1>5. \A j \in ActiveKeys(r) :
          s.active[j].metadata = r.active[j].metadata /\ s.active[j].fragments = r.active[j].fragments
    BY <1>2 DEF ActiveKeys
  <1>6. QED
    BY <1>1, <1>2, <1>3, <1>4, <1>5 DEF Alike

LEMMA WithCountsAlike ==
    ASSUME profile \in ScanRow, NEW r \in Reassembler
    PROVE  Alike(r, WithCounts(r))
  <1>1. profile.key \in Key /\ profile.duplicates \in Count /\ profile.conflicts \in Count
    BY RowType
  <1>2. CASE contains_active(r, profile.key)
    BY <1>1, <1>2, RestoreAlike DEF WithCounts
  <1>3. CASE ~ contains_active(r, profile.key)
    BY <1>3 DEF WithCounts, Alike
  <1>4. QED
    BY <1>2, <1>3

-----------------------------------------------------------------------------
(***************************************************************************)
(* What a step leaves alone.                                               *)
(***************************************************************************)
\* No scan becomes complete.
NoneDone == Extends(db, db') /\ \A k : Done(db', k) => Done(db, k)

\* The rows that startup has to fold are of those that it had to.
NoneToFold ==
    \A new \in db'.scans : ~ TransportComplete(new) /\ Done(db', new.key) =>
        \E row \in db.scans : /\ ~ TransportComplete(row) /\ Done(db, row.key)
                              /\ row.key = new.key
                              /\ phase = "restore" => row = new

LEMMA CopiesFrame ==
    ASSUME CopiesLegal, Extends(db, db'), profiles' \subseteq profiles, profile' \in {profile, None},
           left' \subseteq left,
           profile' # None => (Done(db', profile.key) => profile.key \in CompletedKeys(reassembler'))
    PROVE  CopiesLegal'
  <1>1. \A row : LinksLegal(db, row) => LinksLegal(db', row)
    BY ExtendsLegal
  <1>2. \A row \in profiles' : LinksLegal(db', row) /\ ~ TransportComplete(row)
    BY <1>1 DEF CopiesLegal
  <1>3. profile' # None =>
          /\ LinksLegal(db', profile')
          /\ left' \subseteq Received(profile'.fragments)
          /\ Done(db', profile'.key) => profile'.key \in CompletedKeys(reassembler')
    BY <1>1 DEF CopiesLegal
  <1>4. QED
    BY <1>2, <1>3 DEF CopiesLegal, Cached

LEMMA HandFrame ==
    ASSUME HandLegal, Extends(db, db'), stage' = stage, current' = current, pending' \subseteq pending,
           profiles' \subseteq profiles, profile' \in {profile, None} \cup profiles,
           stage = "ingest" =>
               (Done(db', CurrentFragment.key) => CurrentFragment.key \in CompletedKeys(reassembler'))
    PROVE  HandLegal'
  <1>1. current # None => current \in Archived(db') /\ CurrentFragment' = CurrentFragment
    BY DEF HandLegal, Extends, CurrentFragment
  <1>2. pending' \subseteq Archived(db')
    BY DEF HandLegal, Extends
  <1>3. stage = "ingest" => CurrentFragment' = CurrentFragment
    BY <1>1 DEF HandLegal
  <1>4. QED
    BY <1>1, <1>2, <1>3 DEF HandLegal, Cached

LEMMA FoldFrame ==
    ASSUME FoldLegal, NoneToFold, phase' = phase \/ (phase \notin {"down", "restore"}),
           phase = "restore" => profiles' = profiles /\ profile' \in {profile, None}
    PROVE  FoldLegal'
  BY DEF FoldLegal, NoneToFold, Restoring

\* A step that leaves the rows alone.
LEMMA SameScans ==
    ASSUME db \in Store, db' \in Store, db'.scans = db.scans,
           \A q \in Archived(db) : q \in Archived(db') /\ db'.packets[q].fragment = db.packets[q].fragment
    PROVE  NoneDone /\ NoneToFold /\ Kept(db, db')
  <1>1. NoneDone /\ NoneToFold
    BY DEF NoneDone, NoneToFold, Extends, Done
  <1>2. \A row \in db.scans : row.duplicates \in Nat /\ row.conflicts \in Nat
    BY RowType, ReassemblyAssumption DEF Store, Count
  <1>3. \A row \in db.scans : row.duplicates <= row.duplicates /\ row.conflicts <= row.conflicts
    BY <1>2
  <1>4. QED
    BY <1>1, <1>3 DEF Kept, Grown

\* A transaction without new rows.
LEMMA NoneNewFolds ==
    ASSUME Legal(db, db'), NoneNew(db, db')
    PROVE  NoneDone
  BY SameExtends, GrownLinks DEF Legal, NoneNew, NoneDone, Done

-----------------------------------------------------------------------------
(***************************************************************************)
(* The steps.                                                              *)
(***************************************************************************)
LegacyStep == LegacyInv' /\ Kept(db, db')

\* The store is as it was.
LEMMA SameStore ==
    ASSUME LegacyInv, db' = db
    PROVE  /\ db' \in Store /\ StoreLegal(db')
           /\ NoneDone /\ NoneToFold /\ Kept(db, db') /\ Extends(db, db')
  <1>1. db \in Store /\ StoreLegal(db)
    BY DEF LegacyInv, TypeOK
  <1>2. NoneDone /\ NoneToFold /\ Kept(db, db')
    BY <1>1, SameScans
  <1>3. QED
    BY <1>1, <1>2 DEF NoneDone

\* The process is gone.
LEMMA GoneLegal ==
    ASSUME LegacyInv, Gone, exits' \in Nat
    PROVE  LegacyStep
  <1>1. Forget /\ db' = db /\ rejected' = rejected
    BY DEF Gone
  <1>2. db' \in Store /\ StoreLegal(db') /\ Kept(db, db')
    BY <1>1, SameStore
  <1>3. TypeOK'
    BY <1>1, <1>2, EmptyType DEF LegacyInv, TypeOK, Forget
  <1>4. /\ ActiveKeys(reassembler') = {} /\ CompletedKeys(reassembler') = {}
        /\ backlog' = {} /\ event' = None /\ phase' = "down" /\ stage' = "idle" /\ current' = None
        /\ profiles' = {} /\ profile' = None /\ quarantined' = {} /\ pending' = {}
    BY <1>1, EmptyType DEF Forget
  <1>5. MemoryLegal(db', reassembler', backlog', event')
    BY <1>4 DEF MemoryLegal, TableLegal, OutLegal, ResultLegal, CacheLegal
  <1>6. CopiesLegal' /\ HandLegal'
    BY <1>4 DEF CopiesLegal, HandLegal
  <1>7. QuarantineLegal' /\ FoldLegal' /\ PhaseLegal'
    BY <1>4 DEF QuarantineLegal, FoldLegal, PhaseLegal
  <1>8. QED
    BY <1>2, <1>3, <1>5, <1>6, <1>7 DEF LegacyInv, LegacyStep

\* The process ends on an error.
LEMMA ExitLegal ==
    ASSUME LegacyInv, NEW error, Exit(error)
    PROVE  LegacyStep
  <1>1. Gone /\ exits' \in Nat
    BY DEF Exit, Gone, durable, LegacyInv, TypeOK
  <1>2. QED
    BY <1>1, GoneLegal

\* While the process is down there is nothing in memory.
LEMMA DownLegal ==
    ASSUME LegacyInv, phase = "down"
    PROVE  /\ ActiveKeys(reassembler) = {} /\ CompletedKeys(reassembler) = {}
           /\ backlog = {} /\ event = None /\ quarantined = {} /\ stage = "idle"
           /\ profiles = {} /\ profile = None
  BY DEF LegacyInv, PhaseLegal

\* A crash, the end of a process that was stopped, and a codec upgrade in between.
LEMMA CrashLegal ==
    ASSUME LegacyInv, Crash \/ Stopped
    PROVE  LegacyStep
  <1>1. Gone /\ exits' \in Nat
    BY DEF Crash, Stopped, Gone, durable, LegacyInv, TypeOK
  <1>2. QED
    BY <1>1, GoneLegal

LEMMA SameLegal ==
    ASSUME LegacyInv, UNCHANGED vars \/ \E f \in Delivered : UpgradeCodec(f)
    PROVE  LegacyStep
  <1>1. /\ db' = db /\ exits' = exits /\ phase' = phase /\ reassembler' = reassembler
        /\ clock' = clock /\ profiles' = profiles /\ profile' = profile /\ left' = left
        /\ counts_restored' = counts_restored /\ quarantined' = quarantined
        /\ pending' = pending /\ current' = current /\ stage' = stage
        /\ backlog' = backlog /\ event' = event
    BY DEF UpgradeCodec, vars, durable, restore, fragment, output
  <1>2. rejected' \subseteq Delivered
    BY DEF UpgradeCodec, vars, durable, LegacyInv, TypeOK
  <1>3. TypeOK' /\ Kept(db, db')
    BY <1>1, <1>2, SameStore DEF LegacyInv, TypeOK
  <1>4. StoreLegal(db') /\ MemoryLegal(db', reassembler', backlog', event')
    BY <1>1 DEF LegacyInv
  <1>5. CopiesLegal' /\ HandLegal'
    BY <1>1 DEF LegacyInv, CopiesLegal, HandLegal, Cached, CurrentFragment
  <1>6. QuarantineLegal' /\ FoldLegal' /\ PhaseLegal'
    BY <1>1 DEF LegacyInv, QuarantineLegal, FoldLegal, PhaseLegal, Restoring
  <1>7. QED
    BY <1>3, <1>4, <1>5, <1>6 DEF LegacyInv, LegacyStep

\* Startup loads every incomplete row.
LEMMA StartLegal ==
    ASSUME LegacyInv, Start
    PROVE  LegacyStep
  <1>1. CASE IncompleteReplayLimitExceeded(db, Key)
    BY <1>1, ExitLegal DEF Start
  <1>2. CASE ~ IncompleteReplayLimitExceeded(db, Key)
    <2>1. /\ phase = "down" /\ phase' = "restore"
          /\ profiles' = incomplete_profiles(db, Key)
          /\ db' = db /\ rejected' = rejected /\ exits' = exits /\ reassembler' = reassembler
          /\ clock' = clock /\ profile' = profile /\ left' = left
          /\ counts_restored' = counts_restored /\ quarantined' = quarantined
          /\ pending' = pending /\ current' = current /\ stage' = stage
          /\ backlog' = backlog /\ event' = event
      BY <1>2 DEF Start, durable, fragment, output
    <2>2. /\ quarantined = {} /\ stage = "idle" /\ profiles = {} /\ profile = None
      BY <2>1, DownLegal
    <2>3. db.scans \subseteq ScanRow
      BY DEF LegacyInv, TypeOK, Store
    <2>4. profiles' = {row \in db.scans : ~ TransportComplete(row)}
      BY <2>1, <2>3, RowType DEF incomplete_profiles, IncompleteRows
    <2>5. TypeOK' /\ Kept(db, db')
      BY <2>1, <2>3, <2>4, SameStore DEF LegacyInv, TypeOK
    <2>6. StoreLegal(db') /\ MemoryLegal(db', reassembler', backlog', event')
      BY <2>1 DEF LegacyInv
    <2>7. CopiesLegal'
      BY <2>1, <2>2, <2>4 DEF LegacyInv, StoreLegal, CopiesLegal
    <2>8. HandLegal'
      BY <2>1, <2>2 DEF LegacyInv, HandLegal
    <2>9. QuarantineLegal' /\ FoldLegal' /\ PhaseLegal'
      BY <2>1, <2>2, <2>4 DEF QuarantineLegal, FoldLegal, PhaseLegal, Restoring
    <2>10. QED
      BY <2>5, <2>6, <2>7, <2>8, <2>9 DEF LegacyInv, LegacyStep
  <1>3. QED
    BY <1>1, <1>2

\* The copies are restored, the pending packets loaded, and the radio is opened.
LEMMA OpenLegal ==
    ASSUME LegacyInv, LoadPending \/ OpenRadio
    PROVE  LegacyStep
  <1>1. CASE LoadPending /\ PendingReplayLimitExceeded(db)
    BY <1>1, ExitLegal DEF LoadPending
  <1>2. CASE OpenRadio \/ (LoadPending /\ ~ PendingReplayLimitExceeded(db))
    <2>1. /\ \/ phase = "restore" /\ phase' = "replay" /\ profiles = {} /\ profile = None
                /\ pending' = WithStatus(db, "pending")
             \/ phase = "replay" /\ phase' = "live" /\ stage = "idle" /\ pending' = pending
          /\ db' = db /\ rejected' = rejected /\ exits' = exits
          /\ reassembler' = reassembler /\ clock' = clock
          /\ profiles' = profiles /\ profile' = profile /\ left' = left
          /\ counts_restored' = counts_restored /\ quarantined' = quarantined
          /\ current' = current /\ stage' = stage /\ backlog' = backlog /\ event' = event
      BY <1>2 DEF LoadPending, OpenRadio, Restored, durable, restore, fragment, output
    <2>2. stage = "idle" /\ profiles = {} /\ profile = None
      BY <2>1 DEF LegacyInv, PhaseLegal
    <2>3. pending' \subseteq Archived(db) /\ Archived(db) \subseteq PacketId
      BY <2>1 DEF LegacyInv, HandLegal, WithStatus, Archived
    <2>4. TypeOK' /\ Kept(db, db')
      BY <2>1, <2>3, SameStore DEF LegacyInv, TypeOK
    <2>5. StoreLegal(db') /\ MemoryLegal(db', reassembler', backlog', event')
      BY <2>1 DEF LegacyInv
    <2>6. CopiesLegal' /\ HandLegal'
      BY <2>1, <2>2, <2>3 DEF LegacyInv, CopiesLegal, HandLegal
    <2>7. QuarantineLegal' /\ FoldLegal' /\ PhaseLegal'
      BY <2>1, <2>2 DEF LegacyInv, QuarantineLegal, FoldLegal, PhaseLegal
    <2>8. QED
      BY <2>4, <2>5, <2>6, <2>7 DEF LegacyInv, LegacyStep
  <1>3. QED
    BY <1>1, <1>2

\* A pending packet is dropped.
LEMMA DropStore ==
    ASSUME LegacyInv, NEW p \in Archived(db), db' = quarantine_pending_profile_fragment(db, p)
    PROVE  /\ db' \in Store /\ StoreLegal(db')
           /\ NoneDone /\ NoneToFold /\ Kept(db, db') /\ Extends(db, db')
  <1>1. db \in Store /\ StoreLegal(db)
    BY DEF LegacyInv, TypeOK
  <1>2. Legal(db, db') /\ db'.scans = db.scans
    BY <1>1, DropLegal
  <1>3. db' \in Store /\ StoreLegal(db') /\ Extends(db, db') /\ Kept(db, db')
    BY <1>2, SameExtends DEF Legal, SameArchive
  <1>4. NoneDone /\ NoneToFold
    BY <1>1, <1>2, <1>3, SameScans DEF Extends
  <1>5. QED
    BY <1>3, <1>4

\* A step that, beside the store, changes what the process is about to do next.
LEMMA WaitLegal ==
    ASSUME LegacyInv, TypeOK',
           StoreLegal(db'), NoneDone, NoneToFold, Kept(db, db'),
           reassembler' = reassembler, profiles' = profiles, profile' = profile, left' = left,
           quarantined' = quarantined, backlog' = backlog, event' = event, phase' = phase,
           stage # "ingest", stage' # "ingest",
           phase \in {"down", "restore"} => stage' = "idle",
           stage' # "idle" => current' # None,
           current' # None => current' \in Archived(db'),
           pending' \subseteq Archived(db')
    PROVE  LegacyStep
  <1>1. Extends(db, db')
    BY DEF NoneDone
  <1>2. MemoryLegal(db', reassembler', backlog', event')
    BY <1>1, SameMemoryLegal DEF NoneDone, LegacyInv
  <1>3. CopiesLegal'
    <2>1. profile' # None => (Done(db', profile.key) => profile.key \in CompletedKeys(reassembler'))
      BY DEF NoneDone, LegacyInv, CopiesLegal, Cached
    <2>2. CopiesLegal /\ profiles' \subseteq profiles /\ profile' \in {profile, None} /\ left' \subseteq left
      BY DEF LegacyInv
    <2>3. QED
      BY <1>1, <2>1, <2>2, CopiesFrame
  <1>4. HandLegal'
    BY DEF HandLegal
  <1>5. QuarantineLegal'
    BY DEF LegacyInv, QuarantineLegal, NoneDone
  <1>6. FoldLegal'
    <2>1. FoldLegal /\ (phase = "restore" => profiles' = profiles /\ profile' \in {profile, None})
      BY DEF LegacyInv
    <2>2. QED
      BY <2>1, FoldFrame
  <1>7. PhaseLegal'
    BY DEF LegacyInv, PhaseLegal
  <1>8. QED
    BY <1>2, <1>3, <1>4, <1>5, <1>6, <1>7 DEF LegacyInv, LegacyStep

\* The next pending packet is taken up or dropped.
LEMMA ReplayPendingLegal ==
    ASSUME LegacyInv, ReplayPending
    PROVE  LegacyStep
  <1> DEFINE p == Least(pending)
             f == db.packets[p].fragment
  <1>1. phase = "replay" /\ stage = "idle" /\ pending # {} /\ pending \subseteq Archived(db)
    BY DEF ReplayPending, LegacyInv, HandLegal
  <1>2. p \in pending /\ p \in Archived(db) /\ p \in PacketId
    BY <1>1, LeastType, PacketIdType DEF LegacyInv, TypeOK
  <1>3. CASE f \in decodes
    <2>1. /\ current' = p /\ stage' = "reconcile" /\ pending' = pending \ {p} /\ clock' = clock + 1
          /\ db' = db /\ rejected' = rejected /\ exits' = exits /\ phase' = phase
          /\ reassembler' = reassembler /\ profiles' = profiles /\ profile' = profile /\ left' = left
          /\ counts_restored' = counts_restored /\ quarantined' = quarantined
          /\ backlog' = backlog /\ event' = event
      BY <1>3 DEF ReplayPending, durable, restore, output
    <2> HIDE DEF p
    <2>2. TypeOK'
      BY <1>1, <1>2, <2>1 DEF LegacyInv, TypeOK
    <2>3. StoreLegal(db') /\ NoneDone /\ NoneToFold /\ Kept(db, db')
      BY <2>1, SameStore
    <2>4. current' # None /\ current' \in Archived(db') /\ pending' \subseteq Archived(db')
      BY <1>1, <1>2, <2>1, PacketIdType
    <2>5. QED
      BY <1>1, <2>1, <2>2, <2>3, <2>4, WaitLegal
  <1>4. CASE f \notin decodes /\ db.packets[p].status = "pending"
    <2>1. /\ db' = quarantine_pending_profile_fragment(db, p) /\ pending' = pending \ {p}
          /\ clock' = clock /\ current' = current /\ stage' = stage
          /\ rejected' = rejected /\ exits' = exits /\ phase' = phase
          /\ reassembler' = reassembler /\ profiles' = profiles /\ profile' = profile /\ left' = left
          /\ counts_restored' = counts_restored /\ quarantined' = quarantined
          /\ backlog' = backlog /\ event' = event
      BY <1>4 DEF ReplayPending, restore, fragment, output
    <2> HIDE DEF p
    <2>2. /\ db' \in Store /\ StoreLegal(db') /\ NoneDone /\ NoneToFold /\ Kept(db, db')
          /\ Extends(db, db')
      BY <1>2, <2>1, DropStore
    <2>3. TypeOK'
      BY <2>1, <2>2 DEF LegacyInv, TypeOK
    <2>4. (current' # None => current' \in Archived(db')) /\ pending' \subseteq Archived(db')
      BY <1>1, <2>1, <2>2 DEF LegacyInv, HandLegal, Extends
    <2>5. QED
      BY <1>1, <2>1, <2>2, <2>3, <2>4, WaitLegal
  <1>5. CASE f \notin decodes /\ db.packets[p].status # "pending"
    BY <1>5, ExitLegal DEF ReplayPending
  <1>6. QED
    BY <1>3, <1>4, <1>5

\* A packet from the radio is archived.
LEMMA ReceiveLegal ==
    ASSUME LegacyInv, NEW f \in Delivered, Receive(f)
    PROVE  LegacyStep
  <1> DEFINE p == Least(PacketId \ Archived(db))
  <1>1. phase = "live" /\ stage = "idle" /\ PacketId \ Archived(db) # {}
    BY DEF Receive, Idle, Archived
  <1>2. p \in PacketId /\ p \notin Archived(db) /\ p # None
    BY <1>1, LeastType, PacketIdType
  <1>3. /\ rejected' = rejected /\ exits' = exits /\ phase' = phase
        /\ reassembler' = reassembler /\ profiles' = profiles /\ profile' = profile /\ left' = left
        /\ counts_restored' = counts_restored /\ quarantined' = quarantined
        /\ pending' = pending /\ backlog' = backlog /\ event' = event
    BY DEF Receive, restore, output
  <1>4. \/ /\ db' = [db EXCEPT !.packets[p] = [fragment |-> f, status |-> "pending"]]
           /\ current' = p /\ stage' = "reconcile" /\ clock' = clock + 1
        \/ /\ db' = [db EXCEPT !.packets[p] = [fragment |-> f, status |-> "invalid"]]
           /\ current' = current /\ stage' = stage /\ clock' = clock
    BY DEF Receive, archive_v2_profile_fragment, archive_packet, fragment
  <1> HIDE DEF p
  <1>5. db \in Store /\ StoreLegal(db)
    BY DEF LegacyInv, TypeOK
  <1>6. Extends(db, db') /\ db'.scans = db.scans /\ StoreLegal(db') /\ p \in Archived(db')
    <2>1. CASE db' = [db EXCEPT !.packets[p] = [fragment |-> f, status |-> "pending"]]
      BY <1>2, <1>5, <2>1, ArchiveLegal
    <2>2. CASE db' = [db EXCEPT !.packets[p] = [fragment |-> f, status |-> "invalid"]]
      BY <1>2, <1>5, <2>2, ArchiveLegal
    <2>3. QED
      BY <1>4, <2>1, <2>2
  <1>7. db' \in Store /\ NoneDone /\ NoneToFold /\ Kept(db, db')
    BY <1>5, <1>6, SameScans DEF Extends
  <1>8. (current' = p /\ stage' = "reconcile" /\ clock' = clock + 1)
           \/ (current' = current /\ stage' = stage /\ clock' = clock)
    BY <1>4
  <1>9. TypeOK'
    BY <1>2, <1>3, <1>7, <1>8 DEF LegacyInv, TypeOK
  <1>10. /\ stage' # "idle" => current' # None
         /\ current' # None => current' \in Archived(db')
         /\ pending' \subseteq Archived(db')
    BY <1>1, <1>2, <1>3, <1>6, <1>8 DEF LegacyInv, HandLegal, Extends
  <1>11. stage # "ingest" /\ stage' # "ingest" /\ phase \notin {"down", "restore"}
    BY <1>1, <1>8
  <1>12. QED
    BY <1>3, <1>6, <1>7, <1>9, <1>10, <1>11, WaitLegal

\* InternalState: the process ends, or drops the packet in hand.
LEMMA FailureLegal ==
    ASSUME LegacyInv, ReassemblyFailure, phase # "down"
    PROVE  LegacyStep
  <1>1. CASE phase = "replay" /\ current # None /\ db.packets[current].status = "pending"
    <2>1. /\ db' = quarantine_pending_profile_fragment(db, current)
          /\ profiles' = {} /\ profile' = None /\ left' = {} /\ backlog' = {} /\ event' = None
          /\ current' = None /\ stage' = "idle"
          /\ rejected' = rejected /\ exits' = exits /\ phase' = phase /\ reassembler' = reassembler
          /\ clock' = clock /\ counts_restored' = counts_restored /\ quarantined' = quarantined
          /\ pending' = pending
      BY <1>1 DEF ReassemblyFailure
    <2>2. current \in Archived(db)
      BY <1>1 DEF LegacyInv, HandLegal
    <2>3. /\ db' \in Store /\ StoreLegal(db') /\ NoneDone /\ NoneToFold /\ Kept(db, db')
          /\ Extends(db, db')
      BY <2>1, <2>2, DropStore
    <2>4. TypeOK'
      BY <2>1, <2>3 DEF LegacyInv, TypeOK
    <2>5. MemoryLegal(db', reassembler', backlog', event')
      <3>1. MemoryLegal(db', reassembler, backlog, event)
        BY <2>3, SameMemoryLegal DEF NoneDone, LegacyInv
      <3>2. QED
        BY <2>1, <3>1 DEF MemoryLegal, OutLegal, ResultLegal
    <2>6. CopiesLegal' /\ HandLegal'
      BY <2>1, <2>3 DEF LegacyInv, CopiesLegal, HandLegal, Extends
    <2>7. QuarantineLegal' /\ PhaseLegal'
      BY <1>1, <2>1 DEF QuarantineLegal, PhaseLegal
    <2>8. FoldLegal'
      BY <1>1, <2>1, <2>3, FoldFrame DEF LegacyInv
    <2>9. QED
      BY <2>3, <2>4, <2>5, <2>6, <2>7, <2>8 DEF LegacyInv, LegacyStep
  <1>2. CASE phase = "replay" /\ current # None /\ db.packets[current].status # "pending"
    BY <1>2, ExitLegal DEF ReassemblyFailure
  <1>3. CASE ~ (phase = "replay" /\ current # None)
    BY <1>3, ExitLegal DEF ReassemblyFailure
  <1>4. QED
    BY <1>1, <1>2, <1>3

\* A step of restore_incomplete_profiles that opens, passes over, folds or closes a copy.
LEMMA RestoreLegal ==
    ASSUME LegacyInv, TypeOK', StoreLegal(db'), NoneDone, Kept(db, db'),
           reassembler' = reassembler, backlog' = backlog, event' = event, phase' = phase,
           quarantined' = quarantined, current' = current, stage' = stage, pending' = pending,
           phase # "down", phase \in {"restore"} \/ stage = "ingest",
           profiles' \subseteq profiles, FoldLegal', CopiesLegal',
           profile' = None \/ (profile' \in profiles /\ profile'.key \notin quarantined)
    PROVE  LegacyStep
  <1>1. Extends(db, db')
    BY DEF NoneDone
  <1>2. MemoryLegal(db', reassembler', backlog', event')
    BY <1>1, SameMemoryLegal DEF NoneDone, LegacyInv
  <1>3. HandLegal'
    <2>1. stage = "ingest" =>
              (Done(db', CurrentFragment.key) => CurrentFragment.key \in CompletedKeys(reassembler'))
      BY DEF NoneDone, LegacyInv, HandLegal, Cached
    <2>2. HandLegal /\ pending' \subseteq pending /\ profile' \in {profile, None} \cup profiles
      BY DEF LegacyInv
    <2>3. QED
      BY <1>1, <2>1, <2>2, HandFrame
  <1>4. QuarantineLegal'
    BY DEF LegacyInv, QuarantineLegal, NoneDone
  <1>5. PhaseLegal'
    BY DEF LegacyInv, PhaseLegal
  <1>6. QED
    BY <1>2, <1>3, <1>4, <1>5 DEF LegacyInv, LegacyStep

\* Copies are restored at startup, or for a late fragment.
LEMMA WhileRestoring ==
    ASSUME LegacyInv, profile # None \/ profiles # {}
    PROVE  phase # "down" /\ (phase \in {"restore"} \/ stage = "ingest")
  BY DEF LegacyInv, PhaseLegal

\* The next copy is passed over, opened, or folded into the complete row of its scan.
LEMMA OpenProfileLegal ==
    ASSUME LegacyInv, OpenProfile
    PROVE  LegacyStep
  <1> DEFINE row == NextProfile
  <1>1. profile = None /\ profiles # {} /\ profiles \in SUBSET ScanRow
    BY DEF OpenProfile, LegacyInv, TypeOK
  <1>2. row \in profiles
    BY <1>1, FirstRow DEF NextProfile
  <1>3. LinksLegal(db, row) /\ ~ TransportComplete(row) /\ row \in ScanRow
    BY <1>1, <1>2 DEF LegacyInv, CopiesLegal
  <1>4. phase # "down" /\ (phase \in {"restore"} \/ stage = "ingest")
    BY <1>1, WhileRestoring
  <1>5. CASE row.key \in quarantined
    <2>1. /\ profiles' = profiles \ {row}
          /\ db' = db /\ rejected' = rejected /\ exits' = exits /\ phase' = phase
          /\ reassembler' = reassembler /\ clock' = clock /\ profile' = profile /\ left' = left
          /\ counts_restored' = counts_restored /\ quarantined' = quarantined
          /\ pending' = pending /\ current' = current /\ stage' = stage
          /\ backlog' = backlog /\ event' = event
      BY <1>5 DEF OpenProfile, fragment, output
    <2> HIDE DEF row
    <2>2. /\ db' \in Store /\ StoreLegal(db') /\ NoneDone /\ Kept(db, db')
          /\ Extends(db, db')
      BY <2>1, SameStore
    <2>3. TypeOK'
      BY <2>1 DEF LegacyInv, TypeOK
    <2>4. CopiesLegal'
      BY <1>1, <2>1 DEF LegacyInv, CopiesLegal
    <2>5. FoldLegal'
      <3>1. phase = "restore" => ~ Done(db, row.key)
        BY <1>5 DEF LegacyInv, QuarantineLegal
      <3>2. QED
        BY <1>1, <2>1, <3>1 DEF LegacyInv, FoldLegal, Restoring
    <2>6. QED
      BY <1>1, <1>4, <2>1, <2>2, <2>3, <2>4, <2>5, RestoreLegal
  <1>6. CASE row.key \notin quarantined /\ CompleteRows(db, row.key) = {}
    <2>1. /\ profiles' = profiles \ {row} /\ profile' = row
          /\ left' = Received(row.fragments) /\ counts_restored' = FALSE
          /\ db' = db /\ rejected' = rejected /\ exits' = exits /\ phase' = phase
          /\ reassembler' = reassembler /\ clock' = clock /\ quarantined' = quarantined
          /\ pending' = pending /\ current' = current /\ stage' = stage
          /\ backlog' = backlog /\ event' = event
      BY <1>6 DEF OpenProfile, fragment, output, durable
    <2> HIDE DEF row
    <2>2. /\ db' \in Store /\ StoreLegal(db') /\ NoneDone /\ Kept(db, db')
      BY <2>1, SameStore
    <2>3. TypeOK'
      BY <1>2, <1>3, <2>1, RowType DEF LegacyInv, TypeOK
    <2>4. ~ Done(db, row.key)
      BY <1>6 DEF CompleteRows, Done
    <2>5. CopiesLegal'
      BY <1>3, <2>1, <2>4 DEF LegacyInv, CopiesLegal, Cached
    <2>6. FoldLegal'
      BY <1>1, <2>1, <2>4 DEF LegacyInv, FoldLegal, Restoring
    <2>7. profiles' \subseteq profiles /\ profile' \in profiles /\ profile'.key \notin quarantined
      BY <1>2, <1>6, <2>1
    <2>8. QED
      BY <1>4, <2>1, <2>2, <2>3, <2>5, <2>6, <2>7, RestoreLegal
  <1>7. CASE row.key \notin quarantined /\ CompleteRows(db, row.key) # {}
             /\ CorruptIncompleteProfile(db, row)
    BY <1>7, ExitLegal DEF OpenProfile
  <1>8. CASE row.key \notin quarantined /\ CompleteRows(db, row.key) # {}
             /\ ~ CorruptIncompleteProfile(db, row)
    <2>1. /\ profiles' = profiles \ {row}
          /\ db' = coalesce_incomplete_profile_into_completed(db, row)
          /\ rejected' = rejected /\ exits' = exits /\ phase' = phase
          /\ reassembler' = reassembler /\ clock' = clock /\ profile' = profile /\ left' = left
          /\ counts_restored' = counts_restored /\ quarantined' = quarantined
          /\ pending' = pending /\ current' = current /\ stage' = stage
          /\ backlog' = backlog /\ event' = event
      BY <1>8 DEF OpenProfile, fragment, output
    <2> HIDE DEF row
    <2>2. db \in Store /\ StoreLegal(db)
      BY DEF LegacyInv, TypeOK
    <2>3. /\ Legal(db, db') /\ NoneNew(db, db')
          /\ \A new \in db'.scans : ~ TransportComplete(new) => new \in db.scans /\ new.id # row.id
      BY <1>3, <2>1, <2>2, CoalesceLegal
    <2>4. NoneDone
      BY <2>3, NoneNewFolds
    <2>5. db' \in Store /\ StoreLegal(db') /\ Kept(db, db')
      BY <2>3 DEF Legal, SameArchive
    <2>6. TypeOK'
      BY <2>1, <2>5 DEF LegacyInv, TypeOK
    <2>7. CopiesLegal'
      <3>1. CopiesLegal /\ Extends(db, db') /\ profiles' \subseteq profiles /\ profile' = None
            /\ left' \subseteq left
        BY <1>1, <2>1, <2>4 DEF LegacyInv, NoneDone
      <3>2. QED
        BY <3>1, CopiesFrame
    <2>8. FoldLegal'
      BY <1>1, <2>1, <2>3, <2>4 DEF LegacyInv, FoldLegal, NoneDone, Restoring
    <2>9. QED
      BY <1>1, <1>4, <2>1, <2>4, <2>5, <2>6, <2>7, <2>8, RestoreLegal
  <1>9. QED
    BY <1>5, <1>6, <1>7, <1>8

\* A copy is done once its counters are restored.
LEMMA CloseProfileLegal ==
    ASSUME LegacyInv, CloseProfile
    PROVE  LegacyStep
  <1>1. profile # None
    BY DEF CloseProfile
  <1>2. phase # "down" /\ (phase \in {"restore"} \/ stage = "ingest")
    BY <1>1, WhileRestoring
  <1>3. CASE counts_restored
    <2>1. /\ profile' = None
          /\ db' = db /\ rejected' = rejected /\ exits' = exits /\ phase' = phase
          /\ reassembler' = reassembler /\ clock' = clock /\ profiles' = profiles /\ left' = left
          /\ counts_restored' = counts_restored /\ quarantined' = quarantined
          /\ pending' = pending /\ current' = current /\ stage' = stage
          /\ backlog' = backlog /\ event' = event
      BY <1>3 DEF CloseProfile, durable, fragment, output
    <2>2. StoreLegal(db') /\ NoneDone /\ NoneToFold /\ Kept(db, db')
      BY <2>1, SameStore
    <2>3. TypeOK'
      BY <2>1 DEF LegacyInv, TypeOK
    <2>4. CopiesLegal'
      BY <2>1 DEF LegacyInv, CopiesLegal
    <2>5. FoldLegal'
      BY <2>1, <2>2, FoldFrame DEF LegacyInv
    <2>6. QED
      BY <1>2, <2>1, <2>2, <2>3, <2>4, <2>5, RestoreLegal
  <1>4. CASE ~ counts_restored
    BY <1>2, <1>4, FailureLegal DEF CloseProfile
  <1>5. QED
    BY <1>3, <1>4

\* The next source of the copy at hand.
LEMMA NextSourceLegal ==
    ASSUME LegacyInv, RestoreFragment
    PROVE  /\ profile \in ScanRow /\ Written /\ left # {}
           /\ Least(left) \in left /\ Least(left) \in Received(profile.fragments)
           /\ profile.fragments[Least(left)] \in Archived(db)
           /\ db.packets[profile.fragments[Least(left)]].fragment.key = profile.key
           /\ db.packets[profile.fragments[Least(left)]].fragment \in Delivered
           /\ phase # "down" /\ (phase \in {"restore"} \/ stage = "ingest")
           /\ stage = "ingest" => profile.key = CurrentFragment.key
  <1>1. profile # None /\ left # {} /\ Written
    BY DEF RestoreFragment
  <1>2. profile \in ScanRow /\ left \in SUBSET Nat
    BY <1>1, ReassemblyAssumption DEF LegacyInv, TypeOK, Index
  <1>3. Least(left) \in left
    BY <1>1, <1>2, LeastType
  <1>4. Least(left) \in Received(profile.fragments) /\ LinksLegal(db, profile)
    BY <1>1, <1>3 DEF LegacyInv, CopiesLegal
  <1>5. /\ profile.fragments[Least(left)] \in Archived(db)
        /\ db.packets[profile.fragments[Least(left)]].fragment.key = profile.key
    BY <1>4 DEF LinksLegal
  <1>6. db.packets[profile.fragments[Least(left)]].fragment \in Delivered
    BY <1>5 DEF LegacyInv, StoreLegal
  <1>7. stage = "ingest" => profile.key = CurrentFragment.key
    BY <1>1 DEF LegacyInv, HandLegal
  <1>8. QED
    BY <1>1, <1>2, <1>3, <1>4, <1>5, <1>6, <1>7, WhileRestoring

\* A source that no longer decodes.
LEMMA QuarantineSourceLegal ==
    ASSUME LegacyInv, RestoreFragment, ~ SourceDecodes
    PROVE  LegacyStep
  <1> DEFINE p == profile.fragments[Least(left)]
             k == profile.key
  <1>1. /\ profile \in ScanRow /\ Written /\ Least(left) \in Received(profile.fragments)
        /\ p \in Archived(db) /\ db.packets[p].fragment.key = k
        /\ phase # "down" /\ (phase \in {"restore"} \/ stage = "ingest")
        /\ stage = "ingest" => k = CurrentFragment.key
    BY NextSourceLegal
  <1>2. QuarantineSource
    BY DEF RestoreFragment, SourceDecodes
  <1>3. CASE MissingV2Packet(db, profile.id, p)
    BY <1>2, <1>3, ExitLegal DEF QuarantineSource
  <1>4. CASE ~ MissingV2Packet(db, profile.id, p)
    <2>1. /\ db' = quarantine_incomplete_profile_fragment(db, decodes, k, p)
          /\ reassembler' = discard(reassembler, k)
          /\ quarantined' = quarantined \cup {k} /\ profile' = None /\ left' = {}
          /\ rejected' = rejected /\ exits' = exits /\ phase' = phase /\ clock' = clock
          /\ profiles' = profiles /\ counts_restored' = counts_restored /\ pending' = pending
          /\ current' = current /\ stage' = stage /\ backlog' = backlog /\ event' = event
      BY <1>2, <1>4 DEF QuarantineSource, fragment, output
    <2>2. PICK row \in db.scans : ~ TransportComplete(row) /\ p \in Linked(row)
      BY <1>4 DEF MissingV2Packet
    <2> HIDE DEF p
    <2>3. db \in Store /\ StoreLegal(db) /\ reassembler \in Reassembler
      BY DEF LegacyInv, TypeOK
    <2>4. row.key = k
      BY <1>1, <2>2, <2>3 DEF StoreLegal, LinksLegal, Linked
    <2>5. ~ Done(db, k)
      BY <1>1, <2>2, <2>4, RowType DEF LegacyInv, FoldLegal, Restoring
    <2>6. k \in Key
      BY <1>1, RowType
    <2> HIDE DEF k
    <2>7. Legal(db, db') /\ NoneNew(db, db') /\ db'.scans = Surviving(db, k)
      BY <1>1, <2>1, <2>3, DismantleLegal
    <2>8. NoneDone /\ Extends(db, db')
      BY <2>7, NoneNewFolds DEF NoneDone
    <2>9. db' \in Store /\ StoreLegal(db') /\ Kept(db, db')
      BY <2>7 DEF Legal, SameArchive
    <2>10. NoneToFold
      BY <2>7, <2>8 DEF NoneToFold, NoneDone, Surviving
    <2>11. /\ reassembler' \in Reassembler
           /\ \A j \in Key : reassembler'.active[j] = IF j = k THEN None ELSE reassembler.active[j]
           /\ \A j \in Key : reassembler'.completed[j] = IF j = k THEN None ELSE reassembler.completed[j]
      BY <2>1, <2>3, <2>6, DiscardType
    <2>12. reassembler'.pushes = reassembler.pushes
      BY <2>1, <2>3 DEF discard, Reassembler
    <2>13. /\ \A j \in ActiveKeys(reassembler') :
                 j \in ActiveKeys(reassembler) /\ j # k /\ reassembler'.active[j] = reassembler.active[j]
           /\ \A j \in CompletedKeys(reassembler') :
                 j \in CompletedKeys(reassembler) /\ reassembler'.completed[j] = reassembler.completed[j]
           /\ \A j \in CompletedKeys(reassembler) : j = k \/ j \in CompletedKeys(reassembler')
      BY <2>11 DEF ActiveKeys, CompletedKeys
    <2>14. TypeOK'
      BY <2>1, <2>6, <2>9, <2>11 DEF LegacyInv, TypeOK
    <2>15. backlog = {} /\ event = None
      BY <1>1 DEF Written
    <2>16. MemoryLegal(db', reassembler', backlog', event')
      <3>1. MemoryLegal(db', reassembler, backlog, event)
        BY <2>8, SameMemoryLegal DEF NoneDone, LegacyInv
      <3>2. TableLegal(db', reassembler')
        BY <2>13, <3>1 DEF MemoryLegal, TableLegal
      <3>3. CacheLegal(reassembler')
        BY <2>12, <2>13, <3>1 DEF MemoryLegal, CacheLegal
      <3>4. QED
        BY <2>1, <2>15, <3>2, <3>3 DEF MemoryLegal, OutLegal, ResultLegal
    <2>17. CopiesLegal'
      BY <2>1, <2>8, CopiesFrame DEF LegacyInv
    <2>18. HandLegal'
      <3>1. stage = "ingest" => ~ Done(db', CurrentFragment.key)
        BY <1>1, <2>5, <2>8 DEF NoneDone, k
      <3>2. HandLegal
        BY DEF LegacyInv
      <3>3. QED
        BY <2>1, <2>8, <3>1, <3>2, HandFrame
    <2>19. QuarantineLegal'
      BY <2>1, <2>5, <2>8, <2>13, <2>15 DEF LegacyInv, QuarantineLegal, NoneDone
    <2>20. FoldLegal'
      BY <2>1, <2>10, FoldFrame DEF LegacyInv
    <2>21. PhaseLegal'
      BY <1>1, <2>1 DEF LegacyInv, PhaseLegal
    <2>22. QED
      BY <2>9, <2>14, <2>16, <2>17, <2>18, <2>19, <2>20, <2>21 DEF LegacyInv, LegacyStep
  <1>5. QED
    BY <1>3, <1>4

\* A source that decodes goes through the reassembler, and the counters of the copy with it.
LEMMA ReplaySourceLegal ==
    ASSUME LegacyInv, RestoreFragment, SourceDecodes
    PROVE  LegacyStep
  <1> DEFINE i == Least(left)
             p == profile.fragments[i]
             f == db.packets[p].fragment
             before == counts_restored \/ contains_active(reassembler, profile.key)
             ready == IF counts_restored THEN reassembler ELSE WithCounts(reassembler)
  <1>1. /\ profile \in ScanRow /\ Written
        /\ p \in Archived(db) /\ f.key = profile.key /\ f \in Delivered
        /\ phase # "down" /\ (phase \in {"restore"} \/ stage = "ingest")
        /\ stage = "ingest" => profile.key = CurrentFragment.key
    BY NextSourceLegal
  <1>2. ReplaySource
    BY DEF RestoreFragment, SourceDecodes
  <1>3. PICK victim, call :
           /\ victim \in Victims(ready, f)
           /\ call = ingest_at(ready, f, p, clock, victim)
           /\ reassembler' = IF before THEN call.state ELSE WithCounts(call.state)
           /\ counts_restored' = (before \/ contains_active(call.state, profile.key))
           /\ backlog' = {call.result.evicted} \ {None}
           /\ event' = EventOf(call.result, p)
           /\ left' = left \ {i}
           /\ clock' = IF phase = "restore" THEN clock + 1 ELSE clock
           /\ db' = db /\ rejected' = rejected /\ exits' = exits /\ phase' = phase
           /\ profiles' = profiles /\ profile' = profile /\ quarantined' = quarantined
           /\ pending' = pending /\ current' = current /\ stage' = stage
    BY <1>2 DEF ReplaySource, durable, fragment
  <1>4. counts_restored' \in BOOLEAN
    BY <1>3 DEF contains_active
  <1> HIDE DEF i, p, f, before, ready
  <1>5. db \in Store /\ reassembler \in Reassembler /\ clock \in Nat
    BY DEF LegacyInv, TypeOK
  <1>6. Alike(reassembler, ready)
    <2>1. CASE counts_restored
      BY <1>5, <2>1 DEF ready, Alike
    <2>2. CASE ~ counts_restored
      BY <1>1, <1>5, <2>2, WithCountsAlike DEF ready
    <2>3. QED
      BY <2>1, <2>2
  <1>7. CompletedKeys(ready) = CompletedKeys(reassembler) /\ ready \in Reassembler
    BY <1>6 DEF Alike, CompletedKeys
  <1>8. backlog = {} /\ event = None
    BY <1>1 DEF Written
  <1>9. MemoryLegal(db, ready, {}, None)
    BY <1>6, <1>8, AlikeLegal DEF LegacyInv
  <1>10. profile # None
    BY <1>1, RowType
  <1>11. Done(db, f.key) => f.key \in CompletedKeys(ready)
    BY <1>1, <1>7, <1>10 DEF LegacyInv, CopiesLegal, Cached
  <1>12. f = db.packets[p].fragment
    BY DEF f
  <1>13. Ingested(db, ready, call.state, backlog', event', f)
    BY <1>1, <1>3, <1>5, <1>7, <1>9, <1>11, <1>12, IngestLegal
  <1>14. Alike(call.state, reassembler')
    <2>1. call.state \in Reassembler
      BY <1>13 DEF Ingested
    <2>2. CASE before
      BY <1>3, <2>1, <2>2 DEF Alike
    <2>3. CASE ~ before
      BY <1>1, <1>3, <2>1, <2>3, WithCountsAlike
    <2>4. QED
      BY <2>2, <2>3
  <1>15. MemoryLegal(db', reassembler', backlog', event')
    BY <1>3, <1>13, <1>14, AlikeLegal DEF Ingested
  <1>16. StoreLegal(db') /\ NoneDone /\ NoneToFold /\ Kept(db, db') /\ Extends(db, db')
    BY <1>3, SameStore
  <1>17. TypeOK'
    <2>1. /\ reassembler' \in Reassembler /\ backlog' \subseteq ReassembledProfile
          /\ event' \in Event \cup {None}
      BY <1>13, <1>14 DEF Ingested, Alike
    <2>2. left' \subseteq Index /\ clock' \in Nat
      BY <1>3, <1>5 DEF LegacyInv, TypeOK
    <2>3. QED
      BY <1>3, <1>4, <2>1, <2>2 DEF LegacyInv, TypeOK
  <1>18. Done(db', profile.key) => profile.key \in CompletedKeys(reassembler')
    BY <1>1, <1>3, <1>7, <1>11, <1>13, <1>14 DEF Ingested, Alike, CompletedKeys
  <1>19. CopiesLegal'
    BY <1>3, <1>16, <1>18, CopiesFrame DEF LegacyInv
  <1>20. HandLegal'
    <2>1. HandLegal
      BY DEF LegacyInv
    <2>2. QED
      BY <1>1, <1>3, <1>16, <1>18, <2>1, HandFrame
  <1>21. QuarantineLegal'
    <2> SUFFICES ASSUME phase = "restore", NEW k \in quarantined
                 PROVE  /\ ~ Done(db, k)
                        /\ k \notin ActiveKeys(reassembler')
                        /\ \A s \in backlog' : s.key # k
                        /\ event' # None /\ event'.profile # None => event'.profile.key # k
                        /\ profile # None => profile.key # k
      BY <1>3 DEF QuarantineLegal
    <2>1. ~ Done(db, k) /\ k \notin ActiveKeys(reassembler) /\ profile.key # k
      BY <1>10 DEF LegacyInv, QuarantineLegal
    <2>2. ActiveKeys(reassembler') = ActiveKeys(call.state) /\ ActiveKeys(ready) = ActiveKeys(reassembler)
      BY <1>6, <1>14 DEF Alike
    <2>3. QED
      BY <1>1, <1>13, <2>1, <2>2 DEF Ingested
  <1>22. FoldLegal'
    BY <1>3, <1>16, FoldFrame DEF LegacyInv
  <1>23. PhaseLegal'
    BY <1>1, <1>3 DEF LegacyInv, PhaseLegal
  <1>24. QED
    BY <1>15, <1>16, <1>17, <1>19, <1>20, <1>21, <1>22, <1>23 DEF LegacyInv, LegacyStep

\* The fragment in hand, before it is reconciled with the store.
LEMMA InHand ==
    ASSUME LegacyInv, stage \in {"reconcile", "ingest", "handle"}
    PROVE  /\ current # None /\ current \in Archived(db) /\ CurrentFragment \in Delivered
           /\ CurrentFragment \in OwnedFragment /\ CurrentFragment.key \in Key
           /\ phase \notin {"down", "restore"}
           /\ stage # "ingest" => profiles = {} /\ profile = None
  <1>1. current # None /\ current \in Archived(db)
    BY DEF LegacyInv, HandLegal
  <1>2. CurrentFragment \in Delivered
    BY <1>1 DEF LegacyInv, StoreLegal, CurrentFragment
  <1>3. CurrentFragment \in OwnedFragment /\ CurrentFragment.key \in Key
    BY <1>2, ReceiverAssumption, FragmentType
  <1>4. QED
    BY <1>1, <1>2, <1>3 DEF LegacyInv, PhaseLegal

\* The store has a verdict for the fragment in hand.
LEMMA MatchLegal ==
    ASSUME LegacyInv, Reconcile, PersistedFragmentMatch(db, CurrentFragment) # None
    PROVE  LegacyStep
  <1>1. PICK f : f = CurrentFragment
    OBVIOUS
  <1>2. PICK match : match = PersistedFragmentMatch(db, f)
    OBVIOUS
  <1>3. stage = "reconcile"
    BY DEF Reconcile
  <1>4. /\ f.key \in Key /\ phase \notin {"down", "restore"} /\ profiles = {} /\ profile = None
    BY <1>1, <1>3, InHand
  <1>5. /\ db' = reconcile_persisted_profile_fragment(db, f, current)
        /\ reassembler' = IF contains_active(reassembler, f.key)
                          THEN restore_receiver_counts(reassembler, f.key,
                                  CountOf(match, "duplicate"), CountOf(match, "conflict"))
                          ELSE reassembler
        /\ current' = None /\ stage' = "idle"
        /\ rejected' = rejected /\ exits' = exits /\ phase' = phase /\ clock' = clock
        /\ profiles' = profiles /\ profile' = profile /\ left' = left
        /\ counts_restored' = counts_restored /\ quarantined' = quarantined
        /\ pending' = pending /\ backlog' = backlog /\ event' = event
    BY <1>1, <1>2 DEF Reconcile, restore, output
  <1>6. db \in Store /\ StoreLegal(db) /\ reassembler \in Reassembler
    BY DEF LegacyInv, TypeOK
  <1>7. Legal(db, db') /\ NoneNew(db, db')
    BY <1>1, <1>5, <1>6, ReconcileLegal
  <1>8. NoneDone /\ Extends(db, db') /\ db' \in Store /\ StoreLegal(db') /\ Kept(db, db')
    BY <1>7, NoneNewFolds DEF NoneDone, Legal, SameArchive
  <1>9. NoneToFold
    <2> SUFFICES ASSUME NEW new \in db'.scans, ~ TransportComplete(new), Done(db', new.key)
                 PROVE  \E row \in db.scans : /\ ~ TransportComplete(row) /\ Done(db, row.key)
                                              /\ row.key = new.key
      BY <1>4 DEF NoneToFold
    <2>1. PICK row \in db.scans : Grown(row, new)
      BY <1>7 DEF NoneNew
    <2>2. ~ TransportComplete(row) /\ row.key = new.key
      BY <2>1, GrownLinks
    <2>3. QED
      BY <1>8, <2>2 DEF NoneDone
  <1>10. Alike(reassembler, reassembler')
    <2>1. CASE contains_active(reassembler, f.key)
      <3>1. CountOf(match, "duplicate") \in Count /\ CountOf(match, "conflict") \in Count
        BY CountOfType
      <3>2. QED
        BY <1>4, <1>5, <1>6, <2>1, <3>1, RestoreAlike
    <2>2. CASE ~ contains_active(reassembler, f.key)
      BY <1>5, <1>6, <2>2 DEF Alike
    <2>3. QED
      BY <2>1, <2>2
  <1>11. MemoryLegal(db', reassembler', backlog', event')
    <2>1. MemoryLegal(db', reassembler, backlog, event)
      BY <1>8, SameMemoryLegal DEF NoneDone, LegacyInv
    <2>2. QED
      BY <1>5, <1>10, <2>1, AlikeLegal
  <1>12. TypeOK'
    BY <1>5, <1>8, <1>10 DEF LegacyInv, TypeOK, Alike
  <1>13. CopiesLegal'
    BY <1>4, <1>5 DEF CopiesLegal
  <1>14. HandLegal'
    BY <1>5, <1>8 DEF LegacyInv, HandLegal, Extends
  <1>15. QuarantineLegal' /\ PhaseLegal'
    BY <1>4, <1>5 DEF QuarantineLegal, PhaseLegal
  <1>16. FoldLegal'
    BY <1>4, <1>5, <1>9, FoldFrame DEF LegacyInv
  <1>17. QED
    BY <1>8, <1>11, <1>12, <1>13, <1>14, <1>15, <1>16 DEF LegacyInv, LegacyStep

\* A scan that is stored as complete has every fragment that may be delivered of it.
LEMMA DoneMatches ==
    ASSUME OneCountPerKey, LegacyInv, NEW f \in Delivered, Done(db, f.key)
    PROVE  PersistedFragmentMatch(db, f) # None
  <1>1. PICK row \in db.scans : row.key = f.key /\ TransportComplete(row)
    BY DEF Done
  <1>2. LinksLegal(db, row)
    BY DEF LegacyInv, StoreLegal
  <1>3. PICK g \in Delivered : g.key = f.key /\ g.metadata = row.metadata
    BY <1>1, <1>2 DEF LinksLegal, Announced
  <1>4. fragment_mask(row.metadata) = fragment_mask(f.metadata)
    BY <1>3 DEF OneCountPerKey, fragment_mask
  <1>5. f.fragment_index \in fragment_mask(f.metadata)
    BY ReceiverAssumption, FragmentType
  <1>6. row.fragments[f.fragment_index] # None
    BY <1>1, <1>4, <1>5 DEF TransportComplete, Received
  <1>7. row \in PersistedRows(db, f)
    BY <1>1, <1>6 DEF PersistedRows
  <1>8. QED
    BY <1>7, MatchType

\* The store does not have the fragment: what it has of the scan is loaded, unless it is in memory.
LEMMA MissLegal ==
    ASSUME OneCountPerKey, LegacyInv, Reconcile, PersistedFragmentMatch(db, CurrentFragment) = None
    PROVE  LegacyStep
  <1>1. PICK f : f = CurrentFragment
    OBVIOUS
  <1>2. PICK k : k = f.key
    OBVIOUS
  <1>3. stage = "reconcile"
    BY DEF Reconcile
  <1>4. /\ k \in Key /\ phase \notin {"down", "restore"} /\ profiles = {} /\ profile = None
        /\ f \in Delivered /\ current # None
    BY <1>1, <1>2, <1>3, InHand
  <1>5. ~ Done(db, k)
    BY <1>1, <1>2, <1>4, DoneMatches
  <1>6. CASE ~ contains_active(reassembler, k) /\ IncompleteReplayLimitExceeded(db, {k})
    <2>1. Exit("IncompleteReplayLimitExceeded")
      BY <1>1, <1>2, <1>6 DEF Reconcile
    <2>2. QED
      BY <2>1, ExitLegal
  <1>7. CASE contains_active(reassembler, k) \/ ~ IncompleteReplayLimitExceeded(db, {k})
    <2>1. /\ stage' = "ingest"
          /\ \/ profiles' = profiles /\ quarantined' = quarantined
             \/ profiles' = incomplete_profiles(db, {k}) /\ quarantined' = {}
          /\ db' = db /\ rejected' = rejected /\ exits' = exits
          /\ phase' = phase /\ reassembler' = reassembler /\ clock' = clock
          /\ profile' = profile /\ left' = left /\ counts_restored' = counts_restored
          /\ pending' = pending /\ current' = current /\ backlog' = backlog /\ event' = event
      BY <1>1, <1>2, <1>7 DEF Reconcile, restore, output, durable
    <2>2. \A row \in profiles' : row \in db.scans /\ row.key = k /\ ~ TransportComplete(row)
      BY <1>4, <2>1 DEF incomplete_profiles, IncompleteRows
    <2>3. /\ db' \in Store /\ StoreLegal(db') /\ NoneDone /\ NoneToFold /\ Kept(db, db')
          /\ Extends(db, db')
      BY <2>1, SameStore
    <2>4. TypeOK'
      <3>1. profiles' \subseteq ScanRow /\ quarantined' \subseteq Key
        BY <2>1, <2>2 DEF LegacyInv, TypeOK, Store
      <3>2. QED
        BY <2>1, <3>1 DEF LegacyInv, TypeOK
    <2>5. MemoryLegal(db', reassembler', backlog', event')
      BY <2>1 DEF LegacyInv
    <2>6. CopiesLegal'
      BY <1>4, <2>1, <2>2 DEF LegacyInv, StoreLegal, CopiesLegal
    <2>7. HandLegal'
      <3>1. CurrentFragment' = CurrentFragment
        BY <2>1 DEF CurrentFragment
      <3>2. QED
        BY <1>1, <1>2, <1>4, <1>5, <2>1, <2>2, <3>1 DEF LegacyInv, HandLegal, Cached
    <2>8. QuarantineLegal' /\ PhaseLegal'
      BY <1>4, <2>1 DEF QuarantineLegal, PhaseLegal
    <2>9. FoldLegal'
      BY <1>4, <2>1, <2>3, FoldFrame DEF LegacyInv
    <2>10. QED
      BY <2>3, <2>4, <2>5, <2>6, <2>7, <2>8, <2>9 DEF LegacyInv, LegacyStep
  <1>8. QED
    BY <1>6, <1>7

\* The packet in hand is ingested.
LEMMA IngestCurrentLegal ==
    ASSUME LegacyInv, IngestCurrent
    PROVE  LegacyStep
  <1>1. PICK f : f = CurrentFragment
    OBVIOUS
  <1>2. PICK p : p = current
    OBVIOUS
  <1>3. stage = "ingest" /\ profiles = {} /\ profile = None /\ backlog = {} /\ event = None
    BY DEF IngestCurrent, Restored, Written
  <1>4. /\ p # None /\ p \in Archived(db) /\ f \in Delivered /\ db.packets[p].fragment = f
        /\ phase \notin {"down", "restore"}
    BY <1>1, <1>2, <1>3, InHand DEF CurrentFragment
  <1>5. PICK victim, call :
           /\ victim \in Victims(reassembler, f)
           /\ call = ingest_at(reassembler, f, p, clock, victim)
           /\ reassembler' = call.state
           /\ backlog' = {call.result.evicted} \ {None}
           /\ event' = EventOf(call.result, p)
    BY <1>1, <1>2 DEF IngestCurrent
  <1>6. /\ db' = db /\ rejected' = rejected /\ exits' = exits /\ phase' = phase
        /\ clock' = clock /\ profiles' = profiles /\ profile' = profile /\ left' = left
        /\ counts_restored' = counts_restored /\ quarantined' = quarantined
        /\ pending' = pending
        /\ \/ current' = None /\ stage' = "idle"
           \/ current' = current /\ stage' = "handle"
    BY DEF IngestCurrent, FinishFragment, durable, restore
  <1>7. db \in Store /\ reassembler \in Reassembler /\ clock \in Nat
    BY DEF LegacyInv, TypeOK
  <1>8. MemoryLegal(db, reassembler, {}, None)
    BY <1>3 DEF LegacyInv
  <1>9. Done(db, f.key) => f.key \in CompletedKeys(reassembler)
    BY <1>1, <1>3 DEF LegacyInv, HandLegal, Cached
  <1>10. Ingested(db, reassembler, call.state, backlog', event', f)
    BY <1>4, <1>5, <1>7, <1>8, <1>9, IngestLegal
  <1>11. MemoryLegal(db', reassembler', backlog', event')
    BY <1>5, <1>6, <1>10 DEF Ingested
  <1>12. db' \in Store /\ StoreLegal(db') /\ NoneDone /\ NoneToFold /\ Kept(db, db')
    BY <1>6, SameStore
  <1>13. TypeOK'
    <2>1. /\ reassembler' \in Reassembler /\ backlog' \subseteq ReassembledProfile
          /\ event' \in Event \cup {None}
      BY <1>5, <1>10 DEF Ingested
    <2>2. current' \in PacketId \cup {None} /\ stage' \in {"idle", "handle"}
      BY <1>6 DEF LegacyInv, TypeOK
    <2>3. QED
      BY <1>6, <2>1, <2>2 DEF LegacyInv, TypeOK
  <1>14. CopiesLegal'
    BY <1>3, <1>6 DEF CopiesLegal
  <1>15. HandLegal'
    BY <1>2, <1>4, <1>6 DEF LegacyInv, HandLegal
  <1>16. QuarantineLegal' /\ PhaseLegal'
    BY <1>3, <1>4, <1>6 DEF QuarantineLegal, PhaseLegal
  <1>17. FoldLegal'
    BY <1>4, <1>6, <1>12, FoldFrame DEF LegacyInv
  <1>18. QED
    BY <1>11, <1>12, <1>13, <1>14, <1>15, <1>16, <1>17 DEF LegacyInv, LegacyStep

\* A scan takes the place of the incomplete rows of its key: the complete row of a scan that is
\* incomplete, or no row, is of that key afterwards.
LEMMA InsertsFold ==
    ASSUME StoreLegal(db), NEW s, ~ Done(db, s.key), Inserts(db, db', s)
    PROVE  /\ db' \in Store /\ StoreLegal(db') /\ Extends(db, db') /\ Kept(db, db') /\ NoneToFold
           /\ \A k : Done(db', k) => Done(db, k) \/ k = s.key
           /\ Received(s.fragments) # fragment_mask(s.metadata) => NoneDone
  <1>1. Legal(db, db')
    BY DEF Inserts
  <1>2. db' \in Store /\ StoreLegal(db') /\ Extends(db, db') /\ Kept(db, db')
    BY <1>1, SameExtends DEF Legal, SameArchive
  <1>3. \A row \in db'.scans : row.key # s.key => row \in db.scans
    BY DEF Inserts
  <1>4. \A k : Done(db', k) => Done(db, k) \/ k = s.key
    BY <1>3 DEF Done
  <1>5. Received(s.fragments) # fragment_mask(s.metadata) => NoneDone
    BY <1>2, <1>4 DEF NoneDone, Done, Inserts
  <1>6. \A new \in db'.scans : ~ TransportComplete(new) /\ Done(db', new.key) => new.key # s.key
    BY DEF Inserts, Done
  <1>7. NoneToFold
    BY <1>3, <1>4, <1>6 DEF NoneToFold
  <1>8. QED
    BY <1>2, <1>4, <1>5, <1>7

\* A scan that is written, whatever remains to be written: FinishFragment leaves the rest to do.
LEMMA WrittenLegal ==
    ASSUME LegacyInv, TypeOK', NEW s, ~ Done(db, s.key), Inserts(db, db', s),
           MemoryLegal(db', reassembler', backlog', event'),
           Done(db', s.key) => s.key \in CompletedKeys(reassembler),
           phase = "restore" => s.key \notin quarantined,
           backlog' \subseteq backlog, event' \in {event, None}, phase # "down",
           reassembler' = reassembler, phase' = phase,
           profiles' = profiles, profile' = profile, left' = left, quarantined' = quarantined,
           pending' = pending,
           (current' = current /\ stage' = stage) \/ (current' = None /\ stage' = "idle" /\ stage = "handle")
    PROVE  LegacyStep
  <1>1. StoreLegal(db)
    BY DEF LegacyInv
  <1>2. /\ db' \in Store /\ StoreLegal(db') /\ Extends(db, db') /\ Kept(db, db') /\ NoneToFold
        /\ \A k : Done(db', k) => Done(db, k) \/ k = s.key
    BY <1>1, InsertsFold
  <1>3. CopiesLegal'
    <2>1. profile' # None => (Done(db', profile.key) => profile.key \in CompletedKeys(reassembler'))
      BY <1>2 DEF LegacyInv, CopiesLegal, Cached
    <2>2. CopiesLegal /\ profiles' \subseteq profiles /\ profile' \in {profile, None} /\ left' \subseteq left
      BY DEF LegacyInv
    <2>3. QED
      BY <1>2, <2>1, <2>2, CopiesFrame
  <1>4. HandLegal'
    <2>1. CASE current' = current /\ stage' = stage
      <3>1. stage = "ingest" =>
                (Done(db', CurrentFragment.key) => CurrentFragment.key \in CompletedKeys(reassembler'))
        BY <1>2 DEF LegacyInv, HandLegal, Cached
      <3>2. HandLegal /\ pending' \subseteq pending /\ profiles' \subseteq profiles
            /\ profile' \in {profile, None} \cup profiles
        BY DEF LegacyInv
      <3>3. QED
        BY <1>2, <2>1, <3>1, <3>2, HandFrame
    <2>2. CASE current' = None /\ stage' = "idle"
      BY <1>2, <2>2 DEF LegacyInv, HandLegal, Extends
    <2>3. QED
      BY <2>1, <2>2
  <1>5. QuarantineLegal'
    BY <1>2 DEF LegacyInv, QuarantineLegal
  <1>6. FoldLegal'
    BY <1>2, FoldFrame DEF LegacyInv
  <1>7. PhaseLegal'
    BY DEF LegacyInv, PhaseLegal
  <1>8. QED
    BY <1>2, <1>3, <1>4, <1>5, <1>6, <1>7 DEF LegacyInv, LegacyStep

\* A scan that left the table incomplete is written.
LEMMA PersistProfileLegal ==
    ASSUME LegacyInv, PersistProfile
    PROVE  LegacyStep
  <1>1. PICK s \in backlog :
           \/ Exit("Sqlite")
           \/ /\ db' = insert_profile_scan(db, s)
              /\ backlog' = backlog \ {s} /\ event' = event /\ FinishFragment(stage)
              /\ rejected' = rejected /\ exits' = exits /\ phase' = phase
              /\ reassembler' = reassembler /\ clock' = clock
              /\ profiles' = profiles /\ profile' = profile /\ left' = left
              /\ counts_restored' = counts_restored /\ quarantined' = quarantined
              /\ pending' = pending
    BY DEF PersistProfile, restore
  <1>2. CASE Exit("Sqlite")
    BY <1>2, ExitLegal
  <1>3. CASE ~ Exit("Sqlite")
    <2>1. db \in Store /\ StoreLegal(db) /\ s \in ReassembledProfile /\ phase # "down"
      BY DEF LegacyInv, TypeOK, PhaseLegal
    <2>2. /\ ScanLegal(db, s.key, s.metadata, s.fragments)
          /\ Received(s.fragments) # fragment_mask(s.metadata)
      BY DEF LegacyInv, MemoryLegal, OutLegal
    <2>3. ~ Done(db, s.key)
      BY <2>2 DEF ScanLegal
    <2>4. Inserts(db, db', s)
      BY <1>1, <1>3, <2>1, <2>2, InsertLegal
    <2>5. NoneDone /\ Extends(db, db') /\ db' \in Store
      BY <2>1, <2>2, <2>3, <2>4, InsertsFold
    <2>6. MemoryLegal(db', reassembler', backlog', event')
      <3>1. MemoryLegal(db', reassembler, backlog, event)
        BY <2>5, SameMemoryLegal DEF NoneDone, LegacyInv
      <3>2. backlog' \subseteq backlog
        BY <1>1, <1>3
      <3>3. QED
        BY <1>1, <1>3, <3>1, <3>2 DEF MemoryLegal, OutLegal, ResultLegal
    <2>7. (current' = current /\ stage' = stage)
             \/ (current' = None /\ stage' = "idle" /\ stage = "handle")
      BY <1>1, <1>3 DEF FinishFragment
    <2>8. TypeOK'
      BY <1>1, <1>3, <2>5, <2>7 DEF LegacyInv, TypeOK
    <2>9. phase = "restore" => s.key \notin quarantined
      BY DEF LegacyInv, QuarantineLegal
    <2>10. ~ Done(db', s.key)
      BY <2>3, <2>5 DEF NoneDone
    <2>11. backlog' \subseteq backlog /\ event' \in {event, None}
      BY <1>1, <1>3
    <2>12. QED
      BY <1>1, <1>3, <2>1, <2>3, <2>4, <2>6, <2>7, <2>8, <2>9, <2>10, <2>11, WrittenLegal
  <1>4. QED
    BY <1>2, <1>3

\* The result of an ingest is written.
LEMMA HandleEventLegal ==
    ASSUME LegacyInv, HandleEvent
    PROVE  LegacyStep
  <1>1. backlog = {} /\ event # None /\ event \in Event /\ phase # "down"
    BY DEF HandleEvent, LegacyInv, TypeOK, PhaseLegal
  <1>2. CASE event.profile = None
    BY <1>1, <1>2, FailureLegal DEF HandleEvent
  <1>3. CASE event.profile # None /\ UniquePacketViolation(db, event.profile)
    BY <1>3, ExitLegal DEF HandleEvent
  <1>4. CASE event.profile # None /\ ~ UniquePacketViolation(db, event.profile)
    <2> DEFINE s == event.profile
               st == IF event.event = "Duplicate" THEN "duplicate" ELSE "conflict"
    <2>1. /\ db' = IF event.event = "Complete"
                   THEN insert_profile_scan(db, s)
                   ELSE insert_profile_integrity_snapshot(db, s, event.packet, st)
          /\ event' = None /\ backlog' = backlog /\ FinishFragment(stage)
          /\ rejected' = rejected /\ exits' = exits /\ phase' = phase
          /\ reassembler' = reassembler /\ clock' = clock
          /\ profiles' = profiles /\ profile' = profile /\ left' = left
          /\ counts_restored' = counts_restored /\ quarantined' = quarantined
          /\ pending' = pending
      BY <1>4 DEF HandleEvent, restore
    <2>2. s \in ReassembledProfile /\ st \in {"duplicate", "conflict"}
      BY <1>1, <1>4 DEF Event
    <2>3. /\ ScanLegal(db, s.key, s.metadata, s.fragments)
          /\ IF event.event = "Complete"
             THEN s.key \notin ActiveKeys(reassembler) /\ s.key \in CompletedKeys(reassembler)
             ELSE Received(s.fragments) # fragment_mask(s.metadata)
      BY <1>1, <1>4 DEF LegacyInv, MemoryLegal, ResultLegal
    <2>4. phase = "restore" => s.key \notin quarantined
      BY <1>1, <1>4 DEF LegacyInv, QuarantineLegal
    <2>5. db \in Store /\ StoreLegal(db) /\ ~ Done(db, s.key)
      BY <2>3 DEF LegacyInv, TypeOK, ScanLegal
    <2> HIDE DEF s, st
    <2>6. Inserts(db, db', s)
      <3>1. CASE event.event = "Complete"
        BY <2>1, <2>2, <2>3, <2>5, <3>1, InsertLegal
      <3>2. CASE event.event # "Complete"
        BY <2>1, <2>2, <2>3, <2>5, <3>2, SnapshotLegal
      <3>3. QED
        BY <3>1, <3>2
    <2>7. /\ Extends(db, db') /\ db' \in Store
          /\ \A k : Done(db', k) => Done(db, k) \/ k = s.key
          /\ event.event # "Complete" => NoneDone
      BY <2>3, <2>5, <2>6, InsertsFold
    <2>8. \A k \in ActiveKeys(reassembler) : ~ Done(db', k)
      <3> SUFFICES ASSUME NEW k \in ActiveKeys(reassembler)
                   PROVE  ~ Done(db', k)
        OBVIOUS
      <3>1. ~ Done(db, k)
        BY DEF LegacyInv, MemoryLegal, TableLegal, ScanLegal
      <3>2. QED
        BY <2>3, <2>7, <3>1 DEF NoneDone
    <2>9. MemoryLegal(db', reassembler', backlog', event')
      <3>1. MemoryLegal(db, reassembler, backlog, event)
        BY DEF LegacyInv
      <3>2. MemoryLegal(db', reassembler, {}, None)
        BY <2>7, <2>8, <3>1, MemoryLegalFrame
      <3>3. QED
        BY <1>1, <2>1, <3>2
    <2>10. Done(db', s.key) => s.key \in CompletedKeys(reassembler)
      BY <2>3, <2>5, <2>7 DEF NoneDone
    <2>11. (current' = current /\ stage' = stage)
             \/ (current' = None /\ stage' = "idle" /\ stage = "handle")
      BY <2>1 DEF FinishFragment
    <2>12. TypeOK'
      BY <2>1, <2>7, <2>11 DEF LegacyInv, TypeOK
    <2>13. backlog' \subseteq backlog /\ event' \in {event, None}
      BY <2>1
    <2>14. QED
      BY <1>1, <2>1, <2>4, <2>5, <2>6, <2>9, <2>10, <2>11, <2>12, <2>13, WrittenLegal
  <1>5. QED
    BY <1>2, <1>3, <1>4

\* The scans of some keys are taken from the table while the process waits for the radio.
LEMMA MovedLegal ==
    ASSUME LegacyInv, Idle, NEW keys \in SUBSET ActiveKeys(reassembler), reassembler' \in Reassembler,
           \A j \in Key :
               reassembler'.active[j] = IF j \in keys THEN None ELSE reassembler.active[j],
           \A j \in Key : reassembler'.completed[j] \in {reassembler.completed[j], None},
           reassembler'.pushes = reassembler.pushes,
           backlog' = FinishAll(reassembler, keys),
           phase' \in {phase, "stopping"}, exits' \in Nat,
           db' = db, rejected' = rejected, clock' = clock,
           profiles' = profiles, profile' = profile, left' = left,
           counts_restored' = counts_restored, quarantined' = quarantined, pending' = pending,
           current' = current, stage' = stage, event' = event
    PROVE  LegacyStep
  <1>1. /\ phase = "live" /\ stage = "idle" /\ backlog = {} /\ event = None
        /\ profiles = {} /\ profile = None /\ reassembler \in Reassembler
    BY DEF Idle, Written, LegacyInv, PhaseLegal, TypeOK
  <1>2. /\ db' \in Store /\ StoreLegal(db') /\ NoneDone /\ NoneToFold /\ Kept(db, db')
        /\ Extends(db, db')
    BY SameStore
  <1>3. /\ ActiveKeys(reassembler') = ActiveKeys(reassembler) \ keys
        /\ \A j \in ActiveKeys(reassembler') : reassembler'.active[j] = reassembler.active[j]
        /\ \A j \in CompletedKeys(reassembler') :
              j \in CompletedKeys(reassembler) /\ reassembler'.completed[j] = reassembler.completed[j]
    BY DEF ActiveKeys, CompletedKeys
  <1>4. backlog' \subseteq ReassembledProfile
    BY <1>1, FinishAllType
  <1>5. \A s \in backlog' :
           /\ s.key \in keys
           /\ s = finish(s.key, reassembler.active[s.key])
           /\ s.metadata = reassembler.active[s.key].metadata
           /\ s.fragments = reassembler.active[s.key].fragments
    BY DEF FinishAll, finish
  <1>6. TableLegal(db, reassembler) /\ CacheLegal(reassembler)
    BY DEF LegacyInv, MemoryLegal
  <1>7. TableLegal(db', reassembler')
    BY <1>3, <1>6 DEF TableLegal
  <1>8. OutLegal(db', reassembler', backlog')
    BY <1>3, <1>5, <1>6 DEF TableLegal, OutLegal
  <1>9. CacheLegal(reassembler')
    BY <1>3, <1>6 DEF CacheLegal
  <1>10. MemoryLegal(db', reassembler', backlog', event')
    BY <1>1, <1>7, <1>8, <1>9 DEF MemoryLegal, ResultLegal
  <1>11. TypeOK'
    BY <1>1, <1>4 DEF LegacyInv, TypeOK
  <1>12. CopiesLegal' /\ QuarantineLegal' /\ PhaseLegal'
    BY <1>1 DEF CopiesLegal, QuarantineLegal, PhaseLegal
  <1>13. HandLegal'
    BY <1>1 DEF LegacyInv, HandLegal
  <1>14. FoldLegal'
    BY <1>1 DEF LegacyInv, FoldLegal
  <1>15. QED
    BY <1>2, <1>10, <1>11, <1>12, <1>13, <1>14 DEF LegacyInv, LegacyStep

\* Scans expire.
LEMMA PersistExpiredLegal ==
    ASSUME LegacyInv, NEW cutoff \in Nat, PersistExpired(cutoff)
    PROVE  LegacyStep
  <1>1. /\ Idle
        /\ reassembler' = expire_before(reassembler, cutoff)
        /\ backlog' = FinishAll(reassembler, ExpiredKeys(reassembler, cutoff))
        /\ db' = db /\ rejected' = rejected /\ exits' = exits
        /\ phase' = phase /\ clock' = clock /\ profiles' = profiles /\ profile' = profile
        /\ left' = left /\ counts_restored' = counts_restored /\ quarantined' = quarantined
        /\ pending' = pending /\ current' = current /\ stage' = stage /\ event' = event
    BY DEF PersistExpired, durable, restore, fragment
  <1>2. reassembler \in Reassembler /\ exits' \in Nat
    BY <1>1 DEF LegacyInv, TypeOK
  <1>3. PICK keys : keys = ExpiredKeys(reassembler, cutoff)
    OBVIOUS
  <1>4. /\ reassembler' \in Reassembler
        /\ \A j \in Key : reassembler'.active[j] = IF j \in keys THEN None ELSE reassembler.active[j]
        /\ \A j \in Key : reassembler'.completed[j] \in {reassembler.completed[j], None}
        /\ keys \in SUBSET ActiveKeys(reassembler)
    BY <1>1, <1>2, <1>3, ExpireType
  <1>5. reassembler'.pushes = reassembler.pushes
    BY <1>1, <1>2 DEF expire_before, Reassembler
  <1>6. backlog' = FinishAll(reassembler, keys) /\ phase' \in {phase, "stopping"}
    BY <1>1, <1>3
  <1>7. QED
    BY <1>1, <1>2, <1>4, <1>5, <1>6, MovedLegal

\* The loop ends and the table is drained.
LEMMA StopLegal ==
    ASSUME LegacyInv, Stop
    PROVE  LegacyStep
  <1>1. /\ Idle
        /\ reassembler' = drain_incomplete(reassembler)
        /\ backlog' = FinishAll(reassembler, ActiveKeys(reassembler))
        /\ exits' = exits + 1 /\ phase' = "stopping"
        /\ db' = db /\ rejected' = rejected
        /\ clock' = clock /\ profiles' = profiles /\ profile' = profile
        /\ left' = left /\ counts_restored' = counts_restored /\ quarantined' = quarantined
        /\ pending' = pending /\ current' = current /\ stage' = stage /\ event' = event
    BY DEF Stop, restore, fragment
  <1>2. reassembler \in Reassembler /\ exits' \in Nat
    BY <1>1 DEF LegacyInv, TypeOK
  <1>3. PICK keys : keys = ActiveKeys(reassembler)
    OBVIOUS
  <1>4. /\ reassembler' \in Reassembler
        /\ \A j \in Key : reassembler'.active[j] = IF j \in keys THEN None ELSE reassembler.active[j]
        /\ \A j \in Key : reassembler'.completed[j] \in {reassembler.completed[j], None}
    BY <1>1, <1>2, <1>3, DrainType DEF ActiveKeys
  <1>5. reassembler'.pushes = reassembler.pushes
    BY <1>1, <1>2 DEF drain_incomplete, Reassembler
  <1>6. /\ keys \in SUBSET ActiveKeys(reassembler) /\ backlog' = FinishAll(reassembler, keys)
        /\ phase' \in {phase, "stopping"}
    BY <1>1, <1>3
  <1>7. QED
    BY <1>1, <1>2, <1>4, <1>5, <1>6, MovedLegal

\* Every step keeps the invariant and every complete row.
LEMMA NextLegal ==
    ASSUME OneCountPerKey, LegacyInv, [Next]_vars
    PROVE  LegacyStep
  <1>1. CASE Start
    BY <1>1, StartLegal
  <1>2. CASE LoadPending \/ OpenRadio
    BY <1>2, OpenLegal
  <1>3. CASE ReplayPending
    BY <1>3, ReplayPendingLegal
  <1>4. CASE OpenProfile
    BY <1>4, OpenProfileLegal
  <1>5. CASE RestoreFragment
    BY <1>5, ReplaySourceLegal, QuarantineSourceLegal
  <1>6. CASE CloseProfile
    BY <1>6, CloseProfileLegal
  <1>7. CASE Reconcile
    BY <1>7, MatchLegal, MissLegal
  <1>8. CASE IngestCurrent
    BY <1>8, IngestCurrentLegal
  <1>9. CASE PersistProfile
    BY <1>9, PersistProfileLegal
  <1>10. CASE HandleEvent
    BY <1>10, HandleEventLegal
  <1>11. CASE \E cutoff \in 1 .. clock + 1 : PersistExpired(cutoff)
    <2>1. PICK cutoff \in 1 .. clock + 1 : PersistExpired(cutoff)
      BY <1>11
    <2>2. cutoff \in Nat
      BY DEF LegacyInv, TypeOK
    <2>3. QED
      BY <2>1, <2>2, PersistExpiredLegal
  <1>12. CASE Crash \/ Stopped
    BY <1>12, CrashLegal
  <1>13. CASE \E f \in Delivered : Receive(f)
    BY <1>13, ReceiveLegal
  <1>14. CASE Stop
    BY <1>14, StopLegal
  <1>15. CASE PollNothing \/ UNCHANGED vars \/ \E f \in Delivered : UpgradeCodec(f)
    BY <1>15, SameLegal DEF PollNothing
  <1>16. QED
    BY <1>1, <1>2, <1>3, <1>4, <1>5, <1>6, <1>7, <1>8, <1>9, <1>10, <1>11, <1>12, <1>13, <1>14,
       <1>15 DEF Next, Process, Environment

-----------------------------------------------------------------------------
(***************************************************************************)
(* The databases that the old receiver left.                               *)
(***************************************************************************)
\* The old receiver archived n packets, in groups.
Grouped(n, arrivals, row_of) ==
    /\ n \in 1 .. MaxLegacy
    /\ arrivals \in [1 .. n -> Delivered] /\ row_of \in [1 .. n -> 1 .. n]
    /\ Grouping(arrivals, row_of)

\* The row of the group of packet o.
GroupRow(n, arrivals, o, row) ==
    /\ row \in ScanRow
    /\ row.key = arrivals[o].key /\ row.metadata = arrivals[o].metadata
    /\ \A i \in Received(row.fragments) :
          row.fragments[i] \in 1 .. n /\ arrivals[row.fragments[i]].key = row.key

\* A row links the packets that were grouped, which are of one scan.
LEMMA LegacyRowLegal ==
    ASSUME NEW n, NEW arrivals, NEW row_of, Grouped(n, arrivals, row_of), NEW o \in 1 .. n
    PROVE  GroupRow(n, arrivals, o, LegacyRow(arrivals, row_of, row_of[o]))
  <1>0. PICK row : row = LegacyRow(arrivals, row_of, row_of[o])
    OBVIOUS
  <1> DEFINE members == {p \in 1 .. n : row_of[p] = row_of[o]}
             At(i)   == {p \in members : arrivals[p].fragment_index = i}
             fragments == [i \in Index |-> IF At(i) = {} THEN None ELSE Least(At(i))]
  <1>1. /\ n \in Nat /\ 1 .. n \subseteq PacketId /\ 1 .. n \subseteq Nat
        /\ DOMAIN arrivals = 1 .. n
        /\ arrivals \in [1 .. n -> Delivered] /\ row_of \in [1 .. n -> 1 .. n]
    BY LegacyAssumption DEF Grouped
  <1>2. Cardinality(DOMAIN arrivals) = n
    BY <1>1, FS_Interval
  <1>3. \A p, q \in 1 .. n : row_of[p] = row_of[q] =>
            arrivals[p].key = arrivals[q].key /\ arrivals[p].metadata = arrivals[q].metadata
    BY <1>1, <1>2 DEF Grouped, Grouping
  <1>4. members \in SUBSET Nat /\ members # {} /\ o \in members
    BY <1>1
  <1>5. Least(members) \in members
    BY <1>4, LeastType
  <1>6. /\ arrivals[Least(members)].key = arrivals[o].key
        /\ arrivals[Least(members)].metadata = arrivals[o].metadata
    BY <1>3, <1>5
  <1>7. row = [id |-> row_of[o], key |-> arrivals[o].key, metadata |-> arrivals[o].metadata,
               fragments |-> fragments, duplicates |-> 0, conflicts |-> 0]
    BY <1>0, <1>1, <1>6 DEF LegacyRow
  <1>8. \A i \in Index : At(i) # {} => Least(At(i)) \in At(i)
    <2> SUFFICES ASSUME NEW i \in Index, At(i) # {}
                 PROVE  Least(At(i)) \in At(i)
      OBVIOUS
    <2>1. At(i) \in SUBSET Nat
      BY <1>4
    <2>2. QED
      BY <2>1, LeastType
  <1>9. fragments \in [Index -> PacketId \cup {None}]
    BY <1>1, <1>8
  <1>10. \A i \in Received(fragments) : fragments[i] \in members
    BY <1>8 DEF Received
  <1>11. arrivals[o] \in OwnedFragment
    BY <1>1, ReceiverAssumption
  <1>12. arrivals[o].key \in Key /\ arrivals[o].metadata \in Meta
    BY <1>11, FragmentType
  <1>13. row_of[o] \in Nat \ {0} /\ 0 \in Count
    BY <1>1, ReassemblyAssumption DEF Count
  <1> HIDE DEF fragments
  <1>14. row \in ScanRow
    BY <1>7, <1>9, <1>12, <1>13 DEF ScanRow
  <1>15. \A i \in Received(fragments) :
            fragments[i] \in 1 .. n /\ arrivals[fragments[i]].key = arrivals[o].key
    BY <1>3, <1>10
  <1>16. QED
    BY <1>0, <1>7, <1>14, <1>15 DEF GroupRow

\* The database at hand is one of them.
LEMMA LegacyStoreLegal ==
    ASSUME LegacyInit
    PROVE  db \in Store /\ StoreLegal(db)
  <1>1. PICK n \in 1 .. MaxLegacy : \E arrivals \in [1 .. n -> Delivered], row_of \in [1 .. n -> 1 .. n] :
           Grouping(arrivals, row_of) /\ db = LegacyStore(arrivals, row_of)
    BY DEF LegacyInit
  <1>2. PICK arrivals \in [1 .. n -> Delivered], row_of \in [1 .. n -> 1 .. n] :
           Grouping(arrivals, row_of) /\ db = LegacyStore(arrivals, row_of)
    BY <1>1
  <1>0. Grouped(n, arrivals, row_of)
    BY <1>2 DEF Grouped
  <1> DEFINE ids == {row_of[p] : p \in DOMAIN arrivals}
             rows == {LegacyRow(arrivals, row_of, id) : id \in ids}
             RowStatus(p) ==
                IF \E row \in rows : p \in Linked(row) /\ TransportComplete(row)
                THEN "assembled" ELSE "incomplete"
             PacketOf(p) == IF p \in DOMAIN arrivals
                            THEN [fragment |-> arrivals[p], status |-> RowStatus(p)] ELSE None
  <1>3. /\ n \in Nat /\ n <= MaxLegacy /\ 1 .. n \subseteq PacketId /\ DOMAIN arrivals = 1 .. n
    BY LegacyAssumption
  <1>4. db = [packets |-> [p \in PacketId |-> PacketOf(p)], scans |-> rows]
    BY <1>2 DEF LegacyStore
  <1>5. db.scans = rows /\ \A p \in PacketId : db.packets[p] = PacketOf(p)
    BY <1>4
  <1>6. \A p \in 1 .. n : PacketOf(p) \in PacketRow /\ PacketOf(p).fragment = arrivals[p]
    BY <1>3, ReceiverAssumption DEF PacketRow, Status
  <1>7. \A p \in PacketId : p \notin 1 .. n => PacketOf(p) = None
    BY <1>3
  <1> HIDE DEF PacketOf
  <1>8. /\ \A p \in Archived(db) : p \in 1 .. n
        /\ \A p \in 1 .. n : p \in Archived(db) /\ db.packets[p].fragment = arrivals[p]
    BY <1>3, <1>5, <1>6, <1>7, StoreNoneAssumption DEF Archived
  <1>9. \A row \in rows : \E o \in 1 .. n : row = LegacyRow(arrivals, row_of, row_of[o])
    BY <1>3
  <1>10. \A row \in rows : row \in ScanRow /\ LinksLegal(db, row)
    <2> SUFFICES ASSUME NEW row \in rows
                 PROVE  row \in ScanRow /\ LinksLegal(db, row)
      OBVIOUS
    <2>1. PICK o \in 1 .. n : row = LegacyRow(arrivals, row_of, row_of[o])
      BY <1>9
    <2>2. GroupRow(n, arrivals, o, row)
      BY <1>0, <2>1, LegacyRowLegal
    <2>3. arrivals[o] \in Delivered
      OBVIOUS
    <2>4. QED
      BY <1>8, <2>2, <2>3 DEF GroupRow, LinksLegal, Announced
  <1>11. IsFiniteSet(rows)
    <2> DEFINE g == [id \in ids |-> LegacyRow(arrivals, row_of, id)]
    <2>1. g \in Surjection(ids, rows)
      BY DEF Surjection
    <2> HIDE DEF g
    <2>2. ids \in SUBSET (1 .. n) /\ IsFiniteSet(1 .. n)
      BY <1>3, FS_Interval
    <2>3. IsFiniteSet(ids)
      BY <2>2, FS_Subset
    <2>4. QED
      BY <2>1, <2>3, FS_Surjection
  <1> HIDE DEF rows
  <1>12. db \in Store
    BY <1>4, <1>6, <1>7, <1>10 DEF Store
  <1>13. \A p \in Archived(db) : db.packets[p].fragment \in Delivered
    BY <1>8
  <1>14. \A a, b \in db.scans : a.key = b.key /\ TransportComplete(a) /\ TransportComplete(b) => a = b
    <2> SUFFICES ASSUME NEW a \in db.scans, NEW b \in db.scans, a.key = b.key,
                        TransportComplete(a), TransportComplete(b)
                 PROVE  a = b
      OBVIOUS
    <2>1. a.key \in Key
      BY <1>5, <1>10, RowType
    <2>2. a \in CompleteRows(db, a.key) /\ b \in CompleteRows(db, a.key)
      BY DEF CompleteRows
    <2>3. IsFiniteSet(CompleteRows(db, a.key)) /\ Cardinality(CompleteRows(db, a.key)) <= 1
      BY <1>5, <1>11, <2>1, FS_Subset DEF CompleteRows, LegacyInit
    <2>4. Cardinality(CompleteRows(db, a.key)) \in {0, 1}
      BY <2>3, FS_CardinalityType
    <2>5. CompleteRows(db, a.key) = {} \/ \E x : CompleteRows(db, a.key) = {x}
      BY <2>3, <2>4, FS_EmptySet, FS_Singleton
    <2>6. QED
      BY <2>2, <2>5
  <1>15. QED
    BY <1>5, <1>10, <1>11, <1>12, <1>13, <1>14 DEF StoreLegal

\* No process has run on it yet.
LEMMA InitLegal ==
    ASSUME LegacyInit
    PROVE  LegacyInv
  <1>1. /\ db \in Store /\ StoreLegal(db)
    BY LegacyStoreLegal
  <1>2. /\ rejected = {} /\ exits = 0 /\ phase = "down" /\ reassembler = EmptyReassembler
        /\ clock = 0 /\ profiles = {} /\ profile = None /\ left = {} /\ counts_restored = FALSE
        /\ quarantined = {} /\ pending = {} /\ current = None /\ stage = "idle"
        /\ backlog = {} /\ event = None
    BY DEF LegacyInit, InitProcess
  <1>3. ActiveKeys(reassembler) = {} /\ CompletedKeys(reassembler) = {}
    BY <1>2, EmptyType
  <1>4. TypeOK
    BY <1>1, <1>2, EmptyType DEF TypeOK
  <1>5. MemoryLegal(db, reassembler, backlog, event)
    BY <1>2, <1>3 DEF MemoryLegal, TableLegal, OutLegal, ResultLegal, CacheLegal
  <1>6. CopiesLegal /\ HandLegal /\ QuarantineLegal
    BY <1>2 DEF CopiesLegal, HandLegal, QuarantineLegal
  <1>7. FoldLegal /\ PhaseLegal
    BY <1>2, <1>3 DEF FoldLegal, PhaseLegal
  <1>8. QED
    BY <1>1, <1>4, <1>5, <1>6, <1>7 DEF LegacyInv

-----------------------------------------------------------------------------
(***************************************************************************)
(* What a database of the old receiver comes to.                           *)
(***************************************************************************)
\* Whatever the old receiver left, and whatever is delivered, crashes and upgrades follow, every
\* scan that is being assembled is incomplete and not stored as complete, and so is every scan on
\* its way to the store, except one that the reassembler remembers as complete.
THEOREM LegacySafety ==
    ASSUME OneCountPerKey
    PROVE  LegacySpec => []LegacyInv
  <1>1. LegacyInit => LegacyInv
    BY InitLegal
  <1>2. LegacyInv /\ [Next]_vars => LegacyInv'
    BY NextLegal DEF LegacyStep
  <1>3. QED
    BY <1>1, <1>2, PTL DEF LegacySpec

\* docs/server-analysis.md:176-178 "merges and deletes obsolete legacy incomplete rows when a
\* same-key complete scan already exists", for every number of scans, fragments and slots.
THEOREM CompletedScansStandAlone ==
    ASSUME OneCountPerKey
    PROVE  LegacySpec => []CompletedAlone
  <1>1. LegacyInv => CompletedAlone
    <2> SUFFICES ASSUME LegacyInv, Idle, NEW row \in db.scans, NEW other \in db.scans,
                        TransportComplete(row), row.key = other.key
                 PROVE  row = other /\ ~ contains_active(reassembler, row.key)
      BY DEF CompletedAlone
    <2>1. phase = "live" /\ Done(db, row.key) /\ Done(db, other.key)
      BY DEF Idle, Done
    <2>2. TransportComplete(other)
      BY <2>1 DEF LegacyInv, FoldLegal
    <2>3. row = other
      BY <2>2 DEF LegacyInv, StoreLegal
    <2>4. row.key \notin ActiveKeys(reassembler)
      BY <2>1 DEF LegacyInv, MemoryLegal, TableLegal, ScanLegal
    <2>5. row.key \in Key
      BY RowType DEF LegacyInv, TypeOK, Store
    <2>6. QED
      BY <2>3, <2>4, <2>5 DEF contains_active, ActiveKeys
  <1>2. QED
    BY <1>1, LegacySafety, PTL

\* No transaction removes a complete row or changes its sources, or takes back a verdict that it
\* counted.
THEOREM CompletedScansStay ==
    ASSUME OneCountPerKey
    PROVE  LegacySpec => CompletedStays
  <1>1. LegacyInv /\ [Next]_vars =>
           [\A row \in db.scans : TransportComplete(row) =>
               \E new \in db'.scans :
                  /\ new.id = row.id /\ new.key = row.key /\ new.metadata = row.metadata
                  /\ new.fragments = row.fragments
                  /\ row.duplicates <= new.duplicates /\ row.conflicts <= new.conflicts]_vars
    BY NextLegal DEF LegacyStep, Kept, Grown
  <1>2. QED
    BY <1>1, LegacySafety, PTL DEF CompletedStays, LegacySpec

=============================================================================
