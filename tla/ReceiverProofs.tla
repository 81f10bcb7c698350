--------------------------- MODULE ReceiverProofs ---------------------------
(***************************************************************************)
(* Proofs about Receiver, for any scans, any number of packets, of active  *)
(* scans, of crashes and of fragments that a codec upgrade rejects: the    *)
(* invariant that no run fails, then, on top of it, the counters and       *)
(* verdicts of the store, the bound on pending packets, and the refinement *)
(* of ScanLedger.                                                          *)
(***************************************************************************)
EXTENDS ReceiverLedger, ReassemblyProofs, FiniteSetTheorems, WellFoundedInduction

\* The fragments of one key announce one fragment count.  Without it a fragment may lie beyond the
\* last index of a scan that is stored as complete, which neither the store nor the memory finds
\* then (the run receiver_poison).
OneCountPerKey ==
    \A f, g \in Delivered : f.key = g.key => FragmentCount[f.metadata] = FragmentCount[g.metadata]

-----------------------------------------------------------------------------
(***************************************************************************)
(* The store d.                                                            *)
(***************************************************************************)
\* A row links archived packets that fit into it, and they have its status.
RowSound(d, row) ==
    /\ Received(row.fragments) # {}
    /\ \A i \in Received(row.fragments) :
          /\ row.fragments[i] \in Archived(d)
          /\ d.packets[row.fragments[i]].fragment.key = row.key
          /\ d.packets[row.fragments[i]].fragment.metadata = row.metadata
          /\ d.packets[row.fragments[i]].fragment.fragment_index = i
          /\ d.packets[row.fragments[i]].status =
                IF TransportComplete(row) THEN "assembled" ELSE "incomplete"

OneRow(d) == \A a, b \in d.scans : a.key = b.key => a = b

\* A packet has the status of a source only as the source of a row.
NoOrphan(d) ==
    \A p \in Archived(d) :
        d.packets[p].status \in {"assembled", "incomplete"} =>
            \E row \in d.scans : p \in Linked(row)

StoreSound(d) ==
    /\ OneRow(d)
    /\ IsFiniteSet(d.scans)
    /\ \A p \in Archived(d) : d.packets[p].fragment \in Delivered
    /\ \A row \in d.scans : RowSound(d, row)
    /\ NoOrphan(d)

\* What a scan in memory holds are archived packets that fit into it and wait for a verdict; ok is
\* the set of fragments that decode.
SlotsSound(d, ok, k, m, fragments) ==
    /\ Received(fragments) # {}
    /\ \A i \in Received(fragments) :
          /\ fragments[i].packet \in Archived(d)
          /\ d.packets[fragments[i].packet].fragment = fragments[i].fragment
          /\ fragments[i].fragment.key = k
          /\ fragments[i].fragment.metadata = m
          /\ fragments[i].fragment.fragment_index = i
          /\ fragments[i].fragment \in ok
          /\ d.packets[fragments[i].packet].status \in {"pending", "incomplete"}

\* The store has no complete row of the scan, and the scan has what an incomplete row has.
Covers(d, k, m, fragments) ==
    \A row \in d.scans : row.key = k =>
        /\ ~ TransportComplete(row)
        /\ row.metadata = m
        /\ \A i \in Received(row.fragments) :
              fragments[i] # None /\ fragments[i].packet = row.fragments[i]

\* Store e has all that store d has of scans other than k.
OtherKeys(d, e, k) ==
    /\ \A p \in Archived(d) :
          p \in Archived(e) /\ e.packets[p].fragment = d.packets[p].fragment
    /\ \A p \in Archived(d) :
          d.packets[p].fragment.key # k => e.packets[p].status = d.packets[p].status
    /\ \A row \in ScanRow : row.key # k => (row \in d.scans <=> row \in e.scans)

-----------------------------------------------------------------------------
(***************************************************************************)
(* Lemmas about the store.                                                 *)
(***************************************************************************)
\* Packet ids are numbers.
LEMMA PacketIdType == PacketId \subseteq Nat /\ None \notin PacketId
  <1>1. Cardinality(PacketId) \in Nat
    BY StoreAssumption, FS_CardinalityType
  <1>2. QED
    BY <1>1, StoreAssumption, StoreNoneAssumption

\* An archived packet has a fragment and a status.
LEMMA ArchivedType ==
    ASSUME NEW d \in Store, NEW p \in Archived(d)
    PROVE  /\ p \in PacketId
           /\ p # None
           /\ d.packets[p] \in PacketRow
           /\ d.packets[p].fragment \in OwnedFragment
           /\ d.packets[p].fragment.key \in Key
           /\ d.packets[p].fragment.metadata \in Meta
           /\ d.packets[p].fragment.fragment_index \in Index
           /\ d.packets[p].fragment.fragment_index \in fragment_mask(d.packets[p].fragment.metadata)
           /\ d.packets[p].status \in Status
  <1>1. p \in PacketId /\ p # None
    BY PacketIdType DEF Archived
  <1>2. d.packets[p] \in PacketRow
    BY DEF Archived, Store
  <1>3. QED
    BY <1>1, <1>2 DEF PacketRow, OwnedFragment

\* A fragment belongs to a scan, and lies within its mask.
LEMMA FragmentType ==
    ASSUME NEW f \in OwnedFragment
    PROVE  /\ f.key \in Key
           /\ f.metadata \in Meta
           /\ f.fragment_index \in Index
           /\ f.fragment_index \in fragment_mask(f.metadata)
  BY DEF OwnedFragment

\* The fields of a row.
LEMMA RowType ==
    ASSUME NEW row \in ScanRow
    PROVE  /\ row.id \in Nat
           /\ row.key \in Key
           /\ row.metadata \in Meta
           /\ row.fragments \in [Index -> PacketId \cup {None}]
           /\ row.duplicates \in Count
           /\ row.conflicts \in Count
           /\ row # None
           /\ Received(row.fragments) \subseteq Index
           /\ \A i \in Received(row.fragments) : row.fragments[i] \in PacketId
           /\ Linked(row) \subseteq PacketId
  BY StoreNoneAssumption DEF ScanRow, Received, Linked

\* The fields of a scan that left the table.
LEMMA ReassembledType ==
    ASSUME NEW s \in ReassembledProfile
    PROVE  /\ s.key \in Key
           /\ s.metadata \in Meta
           /\ s.fragments \in Slots
           /\ s.duplicates \in Count
           /\ s.conflicts \in Count
           /\ s # None
  BY NoneAssumption DEF ReassembledProfile

\* The fields of an active scan.
LEMMA ActiveType ==
    ASSUME NEW r \in Reassembler, NEW k \in ActiveKeys(r)
    PROVE  /\ k \in Key
           /\ r.active[k] \in ActiveProfile
           /\ r.active[k].metadata \in Meta
           /\ r.active[k].fragments \in Slots
           /\ r.active[k].duplicates \in Count
           /\ r.active[k].conflicts \in Count
  <1>1. k \in Key /\ r.active[k] \in ActiveProfile
    BY DEF ActiveKeys, Reassembler
  <1>2. QED
    BY <1>1 DEF ActiveProfile

\* The packets of a scan, slot by slot.
LEMMA SlotType ==
    ASSUME NEW fragments \in Slots, NEW i \in Received(fragments)
    PROVE  /\ i \in Index
           /\ fragments[i] \in Slot
           /\ fragments[i].packet \in PacketId
           /\ fragments[i].fragment \in OwnedFragment
           /\ fragments[i].packet \in Packets(fragments)
  <1>1. i \in Index /\ fragments[i] \in Slot
    BY DEF Received, Slots
  <1>2. QED
    BY <1>1 DEF Slot, Packets

\* SetStatus gives the decoded packets of a set their status and leaves the rest alone.
LEMMA SetStatusEffect ==
    ASSUME NEW P \in [PacketId -> PacketRow \cup {None}], NEW set, NEW st \in Status
    PROVE  /\ SetStatus(P, set, st) \in [PacketId -> PacketRow \cup {None}]
           /\ \A p \in PacketId :
                 /\ SetStatus(P, set, st)[p] = None <=> P[p] = None
                 /\ p \notin set => SetStatus(P, set, st)[p] = P[p]
                 /\ P[p] # None =>
                       /\ SetStatus(P, set, st)[p].fragment = P[p].fragment
                       /\ SetStatus(P, set, st)[p].status =
                             IF p \in set /\ P[p].status # "invalid" THEN st ELSE P[p].status
  <1> DEFINE R == SetStatus(P, set, st)
  <1>1. ASSUME NEW p \in PacketId
        PROVE  /\ R[p] \in PacketRow \cup {None}
               /\ R[p] = None <=> P[p] = None
               /\ p \notin set => R[p] = P[p]
               /\ P[p] # None =>
                     /\ R[p].fragment = P[p].fragment
                     /\ R[p].status =
                           IF p \in set /\ P[p].status # "invalid" THEN st ELSE P[p].status
    <2>1. R[p] = IF p \in set /\ P[p] # None /\ P[p].status # "invalid"
                 THEN [P[p] EXCEPT !.status = st] ELSE P[p]
      BY DEF SetStatus
    <2> DEFINE q == P[p]
    <2>2. q \in PacketRow \cup {None}
      OBVIOUS
    <2> HIDE DEF q
    <2>3. CASE q # None
      <3>1. q \in PacketRow
        BY <2>2, <2>3
      <3>2. [q EXCEPT !.status = st] \in PacketRow
        BY <3>1 DEF PacketRow
      <3>3. [q EXCEPT !.status = st].fragment = q.fragment /\ [q EXCEPT !.status = st].status = st
        BY <3>1 DEF PacketRow
      <3>4. QED
        BY <2>1, <2>3, <3>1, <3>2, <3>3, StoreNoneAssumption DEF q
    <2>4. CASE q = None
      BY <2>1, <2>4 DEF q
    <2>5. QED
      BY <2>3, <2>4
  <1>2. R \in [PacketId -> PacketRow \cup {None}]
    BY <1>1 DEF SetStatus
  <1>3. QED
    BY <1>1, <1>2

\* Invalidate marks archived packets as invalid and leaves the rest alone.
LEMMA InvalidateEffect ==
    ASSUME NEW P \in [PacketId -> PacketRow \cup {None}], NEW set,
           \A p \in PacketId : p \in set => P[p] # None
    PROVE  /\ Invalidate(P, set) \in [PacketId -> PacketRow \cup {None}]
           /\ \A p \in PacketId :
                 /\ Invalidate(P, set)[p] = None <=> P[p] = None
                 /\ p \notin set => Invalidate(P, set)[p] = P[p]
                 /\ P[p] # None =>
                       /\ Invalidate(P, set)[p].fragment = P[p].fragment
                       /\ Invalidate(P, set)[p].status =
                             IF p \in set THEN "invalid" ELSE P[p].status
  <1> DEFINE R == Invalidate(P, set)
  <1>1. ASSUME NEW p \in PacketId
        PROVE  /\ R[p] \in PacketRow \cup {None}
               /\ R[p] = None <=> P[p] = None
               /\ p \notin set => R[p] = P[p]
               /\ P[p] # None =>
                     /\ R[p].fragment = P[p].fragment
                     /\ R[p].status = IF p \in set THEN "invalid" ELSE P[p].status
    <2>1. R[p] = IF p \in set THEN [P[p] EXCEPT !.status = "invalid"] ELSE P[p]
      BY DEF Invalidate
    <2> DEFINE q == P[p]
    <2>2. q \in PacketRow \cup {None} /\ (p \in set => q # None)
      OBVIOUS
    <2> HIDE DEF q
    <2>3. CASE q # None
      <3>1. q \in PacketRow
        BY <2>2, <2>3
      <3>2. [q EXCEPT !.status = "invalid"] \in PacketRow
        BY <3>1 DEF PacketRow, Status
      <3>3. /\ [q EXCEPT !.status = "invalid"].fragment = q.fragment
            /\ [q EXCEPT !.status = "invalid"].status = "invalid"
        BY <3>1 DEF PacketRow
      <3>4. QED
        BY <2>1, <2>3, <3>1, <3>2, <3>3, StoreNoneAssumption DEF q
    <2>4. CASE q = None
      BY <2>1, <2>2, <2>4 DEF q
    <2>5. QED
      BY <2>3, <2>4
  <1>2. R \in [PacketId -> PacketRow \cup {None}]
    BY <1>1 DEF Invalidate
  <1>3. QED
    BY <1>1, <1>2

-----------------------------------------------------------------------------
(***************************************************************************)
(* Least and largest elements.                                             *)
(***************************************************************************)
\* A nonempty set of numbers has a least element.
LEMMA LeastType ==
    ASSUME NEW S \in SUBSET Nat, S # {}
    PROVE  Least(S) \in S /\ \A m \in S : Least(S) <= m
  <1>1. PICK n \in S : \A m \in S : ~ (<<m, n>> \in OpToRel(<, Nat))
    BY WFMin, NatLessThanWellFounded
  <1>2. \A m \in S : n <= m
    <2> SUFFICES ASSUME NEW m \in S
                 PROVE  n <= m
      OBVIOUS
    <2>1. ~ (<<m, n>> \in OpToRel(<, Nat))
      BY <1>1
    <2>2. m \in Nat /\ n \in Nat
      OBVIOUS
    <2>3. QED
      BY <2>1, <2>2 DEF OpToRel
  <1>3. QED
    BY <1>2 DEF Least

\* A nonempty set of rows has one of the least id.
LEMMA FirstRow ==
    ASSUME NEW S \in SUBSET ScanRow, S # {}
    PROVE  \E row \in S : \A other \in S : row.id <= other.id
  <1> DEFINE T == {row.id : row \in S}
  <1>1. T \in SUBSET Nat /\ T # {}
    BY DEF ScanRow
  <1>2. Least(T) \in T /\ \A m \in T : Least(T) <= m
    <2> HIDE DEF T
    <2>1. QED
      BY <1>1, LeastType
  <1>3. PICK row \in S : row.id = Least(T)
    BY <1>2
  <1>4. \A other \in S : row.id <= other.id
    BY <1>2, <1>3
  <1>5. QED
    BY <1>4

\* A nonempty finite set of rows has one of the largest id.
LEMMA LastRow ==
    ASSUME NEW S \in SUBSET ScanRow, S # {}, IsFiniteSet(S)
    PROVE  \E row \in S : \A other \in S : other.id <= row.id
  <1>1. PICK n \in Nat : \E f : f \in Bijection(1 .. n, S)
    BY FS_NatBijection DEF ExistsBijection
  <1>2. PICK f : f \in Bijection(1 .. n, S)
    BY <1>1
  <1>3. /\ f \in [1 .. n -> S]
        /\ \A row \in S : \E j \in 1 .. n : f[j] = row
    BY <1>2 DEF Bijection, Surjection
  <1>4. \A j \in 1 .. n : f[j].id \in Nat
    BY <1>3 DEF ScanRow
  <1> DEFINE Last(m) == \E j \in 1 .. m : \A i \in 1 .. m : f[i].id <= f[j].id
             T == {m \in Nat : 1 <= m /\ m <= n /\ ~ Last(m)}
  <1>5. T = {}
    <2> SUFFICES ASSUME T # {}
                 PROVE  FALSE
      OBVIOUS
    <2>1. Least(T) \in T /\ \A m \in T : Least(T) <= m
      <3>1. T \in SUBSET Nat
        OBVIOUS
      <3> HIDE DEF T
      <3>2. QED
        BY <3>1, LeastType
    <2>2. PICK m : m = Least(T)
      OBVIOUS
    <2>3. m \in Nat /\ 1 <= m /\ m <= n /\ ~ Last(m)
      BY <2>1, <2>2
    <2>4. m # 1
      <3> SUFFICES ASSUME m = 1
                   PROVE  FALSE
        OBVIOUS
      <3>1. 1 \in 1 .. m /\ \A i \in 1 .. m : i = 1
        OBVIOUS
      <3>2. f[1].id <= f[1].id
        BY <1>4, <2>3, <3>1
      <3>3. QED
        BY <2>3, <3>1, <3>2
    <2>5. m - 1 \notin T
      <3> HIDE DEF T
      <3>1. QED
        BY <2>1, <2>2, <2>3
    <2>6. Last(m - 1)
      <3> HIDE DEF Last
      <3>1. QED
        BY <2>3, <2>4, <2>5
    <2>7. PICK j \in 1 .. m - 1 : \A i \in 1 .. m - 1 : f[i].id <= f[j].id
      BY <2>6
    <2>8. \A i \in 1 .. m : i = m \/ i \in 1 .. m - 1
      BY <2>3
    <2>9. f[m].id \in Nat /\ f[j].id \in Nat /\ m \in 1 .. m /\ j \in 1 .. m
      BY <1>4, <2>3, <2>7
    <2>10. CASE f[m].id <= f[j].id
      <3>1. \A i \in 1 .. m : f[i].id <= f[j].id
        BY <2>7, <2>8, <2>10
      <3>2. QED
        BY <2>3, <2>9, <3>1
    <2>11. CASE ~ (f[m].id <= f[j].id)
      <3>1. f[j].id <= f[m].id /\ f[m].id <= f[m].id
        BY <2>9, <2>11
      <3>2. \A i \in 1 .. m : f[i].id <= f[m].id
        <4> SUFFICES ASSUME NEW i \in 1 .. m
                     PROVE  f[i].id <= f[m].id
          OBVIOUS
        <4>1. CASE i = m
          BY <3>1, <4>1
        <4>2. CASE i \in 1 .. m - 1
          <5>1. f[i].id <= f[j].id /\ f[i].id \in Nat
            BY <1>4, <2>3, <2>7, <4>2
          <5>2. QED
            BY <2>9, <3>1, <5>1
        <4>3. QED
          BY <2>8, <4>1, <4>2
      <3>3. QED
        BY <2>3, <2>9, <3>2
    <2>12. QED
      BY <2>10, <2>11
  <1>6. n # 0
    BY <1>3
  <1>7. Last(n)
    <2> HIDE DEF Last
    <2>1. QED
      BY <1>1, <1>5, <1>6
  <1>8. PICK j \in 1 .. n : \A i \in 1 .. n : f[i].id <= f[j].id
    BY <1>7
  <1>9. f[j] \in S /\ \A other \in S : other.id <= f[j].id
    BY <1>3, <1>8
  <1>10. QED
    BY <1>9

\* The next id is an id.
LEMMA NextScanIdType ==
    ASSUME NEW S \in SUBSET ScanRow, IsFiniteSet(S)
    PROVE  NextScanId(S) \in Nat \ {0}
  <1>1. CASE S = {}
    BY <1>1 DEF NextScanId
  <1>2. CASE S # {}
    <2> DEFINE last == CHOOSE row \in S : \A other \in S : other.id <= row.id
    <2>1. last \in S
      BY <1>2, LastRow
    <2>2. NextScanId(S) = 1 + last.id
      BY <1>2 DEF NextScanId
    <2> HIDE DEF last
    <2>3. last.id \in Nat
      BY <2>1 DEF ScanRow
    <2>4. QED
      BY <2>2, <2>3
  <1>3. QED
    BY <1>1, <1>2

-----------------------------------------------------------------------------
(***************************************************************************)
(* A transaction on the rows and packets of one scan leaves what is known  *)
(* of the other scans as it was.                                           *)
(***************************************************************************)
\* What is known of the slots of another scan.
LEMMA SlotsFrame ==
    ASSUME NEW d, NEW e, NEW k, OtherKeys(d, e, k), NEW ok, NEW j, j # k, NEW m, NEW fragments,
           SlotsSound(d, ok, j, m, fragments)
    PROVE  SlotsSound(e, ok, j, m, fragments)
  BY DEF SlotsSound, OtherKeys

\* The same of the rows that a scan covers.
LEMMA CoversFrame ==
    ASSUME NEW d, NEW e \in Store, NEW k, OtherKeys(d, e, k), NEW j, j # k, NEW m, NEW fragments,
           Covers(d, j, m, fragments)
    PROVE  Covers(e, j, m, fragments)
  BY DEF Covers, OtherKeys, Store

\* The same of a row.
LEMMA RowFrame ==
    ASSUME NEW d, NEW e, NEW k, OtherKeys(d, e, k), NEW row, row.key # k, RowSound(d, row)
    PROVE  RowSound(e, row)
  BY DEF RowSound, OtherKeys

\* What is left to show of a store after such a transaction concerns that scan.
LEMMA StoreFrame ==
    ASSUME NEW d \in Store, NEW e \in Store, NEW k, OtherKeys(d, e, k), StoreSound(d),
           \A p \in Archived(e) : p \in Archived(d),
           IsFiniteSet(e.scans),
           \A a, b \in e.scans : a.key = k /\ b.key = k => a = b,
           \A row \in e.scans : row.key = k => RowSound(e, row),
           \A p \in Archived(e) :
              e.packets[p].fragment.key = k /\ e.packets[p].status \in {"assembled", "incomplete"}
                  => \E row \in e.scans : p \in Linked(row)
    PROVE  StoreSound(e)
  <1>1. d.scans \subseteq ScanRow /\ e.scans \subseteq ScanRow
    BY DEF Store
  <1>2. OneRow(e)
    BY <1>1 DEF OneRow, OtherKeys, StoreSound
  <1>3. \A p \in Archived(e) : e.packets[p].fragment \in Delivered
    BY DEF StoreSound, OtherKeys
  <1>4. \A row \in e.scans : RowSound(e, row)
    <2> SUFFICES ASSUME NEW row \in e.scans, row.key # k
                 PROVE  RowSound(e, row)
      OBVIOUS
    <2>1. row \in d.scans
      BY <1>1 DEF OtherKeys
    <2>2. QED
      BY <2>1, RowFrame DEF StoreSound
  <1>5. NoOrphan(e)
    <2> SUFFICES ASSUME NEW p \in Archived(e),
                        e.packets[p].status \in {"assembled", "incomplete"},
                        e.packets[p].fragment.key # k
                 PROVE  \E row \in e.scans : p \in Linked(row)
      BY DEF NoOrphan
    <2>1. /\ p \in Archived(d)
          /\ d.packets[p].fragment = e.packets[p].fragment
          /\ d.packets[p].status = e.packets[p].status
      BY DEF OtherKeys
    <2>2. PICK row \in d.scans : p \in Linked(row)
      BY <2>1 DEF StoreSound, NoOrphan
    <2>3. row.key = d.packets[p].fragment.key
      BY <2>2 DEF StoreSound, RowSound, Linked
    <2>4. row \in e.scans
      BY <1>1, <2>1, <2>3 DEF OtherKeys
    <2>5. QED
      BY <2>2, <2>4
  <1>6. QED
    BY <1>2, <1>3, <1>4, <1>5 DEF StoreSound

-----------------------------------------------------------------------------
(***************************************************************************)
(* The transactions.                                                       *)
(***************************************************************************)
\* The row says what the scan says.
RowOf(s, row) ==
    /\ row.key = s.key
    /\ row.metadata = s.metadata
    /\ \A i \in Index :
          row.fragments[i] = IF s.fragments[i] = None THEN None ELSE s.fragments[i].packet
    /\ row.duplicates = s.duplicates
    /\ row.conflicts = s.conflicts

\* It has the same indices and links the packets of the scan.
LEMMA RowOfScan ==
    ASSUME NEW s \in ReassembledProfile, NEW row \in ScanRow, RowOf(s, row)
    PROVE  /\ Received(row.fragments) = Received(s.fragments)
           /\ \A i \in Received(s.fragments) : row.fragments[i] = s.fragments[i].packet
           /\ Linked(row) = Packets(s.fragments)
           /\ TransportComplete(row) <=> Received(s.fragments) = fragment_mask(s.metadata)
  <1>1. \A i \in Received(s.fragments) : s.fragments[i].packet # None /\ i \in Index
    BY ReassembledType, SlotType, PacketIdType
  <1>2. Received(row.fragments) = Received(s.fragments)
    BY <1>1 DEF Received, RowOf
  <1>3. \A i \in Received(s.fragments) : row.fragments[i] = s.fragments[i].packet
    BY <1>1 DEF Received, RowOf
  <1>4. Linked(row) = Packets(s.fragments)
    BY <1>2, <1>3 DEF Linked, Packets
  <1>5. TransportComplete(row) <=> Received(s.fragments) = fragment_mask(s.metadata)
    BY <1>2 DEF TransportComplete, RowOf
  <1>6. QED
    BY <1>2, <1>3, <1>4, <1>5

\* Store e is store d with the row of scan s.
Inserted(d, e, s) ==
    /\ e \in Store
    /\ StoreSound(e)
    /\ OtherKeys(d, e, s.key)
    /\ Archived(e) = Archived(d)
    /\ \E row \in e.scans : RowOf(s, row)

\* The status that the packets of scan s get.
StatusOf(s) ==
    IF Received(s.fragments) = fragment_mask(s.metadata) THEN "assembled" ELSE "incomplete"

\* insert_profile_scan of a scan that covers the rows it replaces.
LEMMA InsertEffect ==
    ASSUME NEW d \in Store, StoreSound(d), NEW s \in ReassembledProfile, NEW ok,
           SlotsSound(d, ok, s.key, s.metadata, s.fragments),
           Covers(d, s.key, s.metadata, s.fragments)
    PROVE  /\ ~ UniquePacketViolation(d, s)
           /\ Inserted(d, insert_profile_scan(d, s), s)
           /\ \A p \in Archived(d) :
                 insert_profile_scan(d, s).packets[p].status =
                     IF p \in Packets(s.fragments) THEN StatusOf(s) ELSE d.packets[p].status
  <1> DEFINE e   == insert_profile_scan(d, s)
             row == InsertedRow(d, s)
             st  == IF TransportComplete(row) THEN "assembled" ELSE "incomplete"
  <1>1. /\ s.key \in Key /\ s.metadata \in Meta /\ s.fragments \in Slots
        /\ s.duplicates \in Count /\ s.conflicts \in Count
    BY ReassembledType
  <1>2. d.scans \subseteq ScanRow /\ d.packets \in [PacketId -> PacketRow \cup {None}]
    BY DEF Store
  <1>3. Surviving(d, s.key) = {r \in d.scans : r.key # s.key}
    BY DEF Surviving, IncompleteRows, Covers
  <1>4. /\ row \in ScanRow
        /\ RowOf(s, row)
    <2>1. NextScanId(Surviving(d, s.key)) \in Nat \ {0}
      <3>1. Surviving(d, s.key) \in SUBSET ScanRow /\ IsFiniteSet(Surviving(d, s.key))
        BY <1>2, <1>3, FS_Subset DEF StoreSound
      <3>2. QED
        BY <3>1, NextScanIdType
    <2>2. [i \in Index |-> IF s.fragments[i] = None THEN None ELSE s.fragments[i].packet]
             \in [Index -> PacketId \cup {None}]
      BY <1>1 DEF Slots, Slot
    <2>3. QED
      BY <1>1, <2>1, <2>2 DEF InsertedRow, ScanRow, RowOf
  <1> HIDE DEF row
  <1>5. /\ Received(row.fragments) = Received(s.fragments)
        /\ \A i \in Received(s.fragments) : row.fragments[i] = s.fragments[i].packet
        /\ Linked(row) = Packets(s.fragments)
        /\ TransportComplete(row) <=> Received(s.fragments) = fragment_mask(s.metadata)
    BY <1>4, RowOfScan
  <1>6. st = StatusOf(s) /\ st \in Status /\ st \in {"assembled", "incomplete"}
    BY <1>5 DEF StatusOf, Status
  <1>7. /\ e.packets = SetStatus(d.packets, Linked(row), st)
        /\ e.scans = {r \in d.scans : r.key # s.key} \cup {row}
    BY <1>3 DEF insert_profile_scan, row
  <1> HIDE DEF st, e
  <1>8. /\ e.packets \in [PacketId -> PacketRow \cup {None}]
        /\ \A p \in PacketId :
              /\ e.packets[p] = None <=> d.packets[p] = None
              /\ p \notin Linked(row) => e.packets[p] = d.packets[p]
              /\ d.packets[p] # None =>
                    /\ e.packets[p].fragment = d.packets[p].fragment
                    /\ e.packets[p].status =
                          IF p \in Linked(row) /\ d.packets[p].status # "invalid"
                          THEN st ELSE d.packets[p].status
    BY <1>2, <1>6, <1>7, SetStatusEffect
  <1>9. e \in Store
    <2>1. e = [packets |-> SetStatus(d.packets, Linked(row), st), scans |-> e.scans]
      BY <1>7 DEF insert_profile_scan, e, row, st
    <2>2. e.scans \in SUBSET ScanRow
      BY <1>2, <1>4, <1>7
    <2>3. QED
      BY <1>7, <1>8, <2>1, <2>2 DEF Store
  <1>10. Archived(e) = Archived(d)
    BY <1>8 DEF Archived
  <1>11. \A p \in Packets(s.fragments) :
            /\ p \in Archived(d)
            /\ d.packets[p].fragment.key = s.key
            /\ d.packets[p].status \in {"pending", "incomplete"}
    BY DEF SlotsSound, Packets
  <1>12. \A p \in Archived(d) :
            /\ e.packets[p].fragment = d.packets[p].fragment
            /\ e.packets[p].status = IF p \in Packets(s.fragments) THEN st ELSE d.packets[p].status
    BY <1>5, <1>8, <1>11 DEF Archived
  <1>13. OtherKeys(d, e, s.key)
    <2>1. \A p \in Archived(d) :
            p \in Archived(e) /\ e.packets[p].fragment = d.packets[p].fragment
      BY <1>10, <1>12
    <2>2. \A p \in Archived(d) :
            d.packets[p].fragment.key # s.key => e.packets[p].status = d.packets[p].status
      BY <1>11, <1>12
    <2>3. \A r \in ScanRow : r.key # s.key => (r \in d.scans <=> r \in e.scans)
      BY <1>4, <1>7 DEF RowOf
    <2>4. QED
      BY <2>1, <2>2, <2>3 DEF OtherKeys
  <1>14. \A r \in e.scans : r.key = s.key => r = row
    BY <1>7
  <1>15. RowSound(e, row)
    <2>1. Received(row.fragments) # {}
      BY <1>5 DEF SlotsSound
    <2> SUFFICES ASSUME NEW i \in Received(row.fragments)
                 PROVE  /\ row.fragments[i] \in Archived(e)
                        /\ e.packets[row.fragments[i]].fragment.key = row.key
                        /\ e.packets[row.fragments[i]].fragment.metadata = row.metadata
                        /\ e.packets[row.fragments[i]].fragment.fragment_index = i
                        /\ e.packets[row.fragments[i]].status =
                              IF TransportComplete(row) THEN "assembled" ELSE "incomplete"
      BY <2>1 DEF RowSound
    <2>2. i \in Received(s.fragments) /\ row.fragments[i] = s.fragments[i].packet
      BY <1>5
    <2>3. PICK p : p = s.fragments[i].packet
      OBVIOUS
    <2>4. p \in Packets(s.fragments)
      BY <2>2, <2>3 DEF Packets
    <2>5. /\ p \in Archived(d)
          /\ d.packets[p].fragment.key = s.key
          /\ d.packets[p].fragment.metadata = s.metadata
          /\ d.packets[p].fragment.fragment_index = i
      BY <2>2, <2>3 DEF SlotsSound
    <2>6. row.key = s.key /\ row.metadata = s.metadata
      BY <1>4 DEF RowOf
    <2>7. QED
      BY <1>10, <1>12, <2>2, <2>3, <2>4, <2>5, <2>6 DEF st
  <1>16. \A p \in Archived(e) :
              e.packets[p].fragment.key = s.key /\ e.packets[p].status \in {"assembled", "incomplete"}
                  => \E r \in e.scans : p \in Linked(r)
    <2> SUFFICES ASSUME NEW p \in Archived(e), e.packets[p].fragment.key = s.key,
                        e.packets[p].status \in {"assembled", "incomplete"}
                 PROVE  \E r \in e.scans : p \in Linked(r)
      OBVIOUS
    <2>1. CASE p \in Packets(s.fragments)
      BY <1>5, <1>7, <2>1
    <2>2. CASE p \notin Packets(s.fragments)
      <3>1. p \in Archived(d) /\ d.packets[p].status \in {"assembled", "incomplete"}
        BY <1>10, <1>12, <2>2
      <3>2. PICK r \in d.scans : p \in Linked(r)
        BY <3>1 DEF StoreSound, NoOrphan
      <3>3. PICK i \in Received(r.fragments) : p = r.fragments[i]
        BY <3>2 DEF Linked
      <3>4. r.key = s.key
        BY <1>10, <1>12, <3>1, <3>2, <3>3 DEF StoreSound, RowSound
      <3>5. s.fragments[i] # None /\ s.fragments[i].packet = r.fragments[i]
        BY <3>2, <3>3, <3>4 DEF Covers
      <3>6. i \in Received(s.fragments)
        BY <1>2, <3>3, <3>5 DEF Received
      <3>7. p \in Packets(s.fragments)
        BY <3>3, <3>5, <3>6 DEF Packets
      <3>8. QED
        BY <2>2, <3>7
    <2>3. QED
      BY <2>1, <2>2
  <1>17. IsFiniteSet(e.scans)
    <2>1. IsFiniteSet({r \in d.scans : r.key # s.key})
      BY FS_Subset DEF StoreSound
    <2>2. QED
      BY <1>7, <2>1, FS_AddElement
  <1>18. StoreSound(e)
    BY <1>9, <1>10, <1>13, <1>14, <1>15, <1>16, <1>17, StoreFrame
  <1>19. Inserted(d, e, s)
    BY <1>4, <1>7, <1>9, <1>10, <1>13, <1>18 DEF Inserted
  <1>20. ~ UniquePacketViolation(d, s)
    <2> SUFFICES ASSUME NEW p \in Packets(s.fragments), NEW r \in Surviving(d, s.key),
                        p \in Linked(r)
                 PROVE  FALSE
      BY DEF UniquePacketViolation
    <2>1. r \in d.scans /\ r.key # s.key
      BY <1>3
    <2>2. d.packets[p].fragment.key = r.key
      BY <2>1 DEF StoreSound, RowSound, Linked
    <2>3. QED
      BY <1>11, <2>1, <2>2
  <1>21. QED
    BY <1>6, <1>12, <1>19, <1>20 DEF e

\* A packet that is no source of a row gets another such status.
LEMMA StatusEffect ==
    ASSUME NEW d \in Store, NEW e \in Store, StoreSound(d), NEW p \in Archived(d),
           e.scans = d.scans,
           Archived(e) = Archived(d),
           \A q \in Archived(d) : e.packets[q].fragment = d.packets[q].fragment,
           \A q \in Archived(d) : q # p => e.packets[q].status = d.packets[q].status,
           d.packets[p].status \notin {"assembled", "incomplete"},
           e.packets[p].status \notin {"assembled", "incomplete"}
    PROVE  /\ StoreSound(e)
           /\ OtherKeys(d, e, d.packets[p].fragment.key)
  <1> DEFINE k == d.packets[p].fragment.key
  <1>1. OtherKeys(d, e, k)
    BY DEF OtherKeys
  <1>2. \A row \in e.scans : RowSound(e, row)
    <2> SUFFICES ASSUME NEW row \in d.scans
                 PROVE  RowSound(e, row)
      OBVIOUS
    <2>1. RowSound(d, row)
      BY DEF StoreSound
    <2>2. \A i \in Received(row.fragments) : row.fragments[i] # p
      BY <2>1 DEF RowSound
    <2>3. QED
      BY <2>1, <2>2 DEF RowSound
  <1>3. NoOrphan(e)
    BY DEF NoOrphan, StoreSound
  <1>4. StoreSound(e)
    BY <1>2, <1>3 DEF StoreSound, OneRow
  <1>5. QED
    BY <1>1, <1>4

\* insert_profile_integrity_snapshot: the row of the scan, and a verdict for one more packet of it.
LEMMA SnapshotEffect ==
    ASSUME NEW d \in Store, StoreSound(d), NEW s \in ReassembledProfile, NEW ok,
           SlotsSound(d, ok, s.key, s.metadata, s.fragments),
           Covers(d, s.key, s.metadata, s.fragments),
           NEW p \in Archived(d), p \notin Packets(s.fragments),
           d.packets[p].status = "pending",
           d.packets[p].fragment.key = s.key,
           NEW st \in {"duplicate", "conflict"}
    PROVE  /\ Inserted(d, insert_profile_integrity_snapshot(d, s, p, st), s)
           /\ \A q \in Archived(d) :
                 insert_profile_integrity_snapshot(d, s, p, st).packets[q].status =
                     IF q = p THEN st
                     ELSE IF q \in Packets(s.fragments) THEN StatusOf(s) ELSE d.packets[q].status
  <1> DEFINE c == insert_profile_scan(d, s)
             e == insert_profile_integrity_snapshot(d, s, p, st)
  <1>1. /\ Inserted(d, c, s)
        /\ \A q \in Archived(d) :
              c.packets[q].status =
                  IF q \in Packets(s.fragments) THEN StatusOf(s) ELSE d.packets[q].status
    BY InsertEffect
  <1>2. e = [c EXCEPT !.packets = SetStatus(c.packets, {p}, st)]
    BY DEF insert_profile_integrity_snapshot
  <1> HIDE DEF c, e
  <1>3. c \in Store /\ Archived(c) = Archived(d)
    BY <1>1 DEF Inserted
  <1>4. e.packets = SetStatus(c.packets, {p}, st) /\ e.scans = c.scans
    BY <1>2, <1>3 DEF Store
  <1>5. st \in Status
    BY DEF Status
  <1>6. c.packets \in [PacketId -> PacketRow \cup {None}]
    BY <1>3 DEF Store
  <1>7. /\ e.packets \in [PacketId -> PacketRow \cup {None}]
        /\ \A q \in PacketId :
              /\ e.packets[q] = None <=> c.packets[q] = None
              /\ c.packets[q] # None =>
                    /\ e.packets[q].fragment = c.packets[q].fragment
                    /\ e.packets[q].status =
                          IF q \in {p} /\ c.packets[q].status # "invalid"
                          THEN st ELSE c.packets[q].status
    BY <1>4, <1>5, <1>6, SetStatusEffect
  <1>8. e \in Store
    BY <1>2, <1>3, <1>4, <1>7 DEF Store
  <1>9. Archived(e) = Archived(c)
    BY <1>7 DEF Archived
  <1>10. c.packets[p].status = "pending"
    BY <1>1
  <1>11. \A q \in Archived(c) :
            /\ e.packets[q].fragment = c.packets[q].fragment
            /\ e.packets[q].status = IF q = p THEN st ELSE c.packets[q].status
    BY <1>7, <1>10 DEF Archived
  <1>12. \A q \in Archived(d) : c.packets[q].fragment = d.packets[q].fragment
    BY <1>1 DEF Inserted, OtherKeys
  <1>13. StoreSound(e) /\ OtherKeys(c, e, s.key)
    <2>1. StoreSound(c) /\ c.packets[p].fragment.key = s.key
      BY <1>1, <1>12 DEF Inserted
    <2>2. e.packets[p].status \notin {"assembled", "incomplete"}
      BY <1>3, <1>11
    <2>3. /\ p \in Archived(c)
          /\ c.packets[p].status \notin {"assembled", "incomplete"}
          /\ \A q \in Archived(c) : e.packets[q].fragment = c.packets[q].fragment
          /\ \A q \in Archived(c) : q # p => e.packets[q].status = c.packets[q].status
      BY <1>3, <1>10, <1>11
    <2>4. StoreSound(e) /\ OtherKeys(c, e, c.packets[p].fragment.key)
      BY <1>3, <1>4, <1>8, <1>9, <2>1, <2>2, <2>3, StatusEffect
    <2>5. QED
      BY <2>1, <2>4
  <1>14. OtherKeys(d, e, s.key)
    <2>1. OtherKeys(d, c, s.key)
      BY <1>1 DEF Inserted
    <2>2. QED
      BY <1>3, <1>4, <1>9, <1>11, <1>12, <1>13, <2>1 DEF OtherKeys
  <1>15. \E row \in e.scans : RowOf(s, row)
    BY <1>1, <1>4 DEF Inserted
  <1>16. Inserted(d, e, s)
    BY <1>3, <1>8, <1>9, <1>13, <1>14, <1>15 DEF Inserted
  <1>17. QED
    BY <1>1, <1>3, <1>11, <1>16 DEF e

\* quarantine_pending_profile_fragment: the packet becomes invalid.
LEMMA QuarantinePendingEffect ==
    ASSUME NEW d \in Store, StoreSound(d), NEW p \in Archived(d), d.packets[p].status = "pending"
    PROVE  LET e == quarantine_pending_profile_fragment(d, p)
           IN /\ e \in Store
              /\ StoreSound(e)
              /\ OtherKeys(d, e, d.packets[p].fragment.key)
              /\ Archived(e) = Archived(d)
              /\ e.scans = d.scans
              /\ \A q \in Archived(d) :
                    /\ e.packets[q].fragment = d.packets[q].fragment
                    /\ e.packets[q].status = IF q = p THEN "invalid" ELSE d.packets[q].status
  <1> DEFINE e == quarantine_pending_profile_fragment(d, p)
  <1>1. e = [d EXCEPT !.packets = Invalidate(d.packets, {p})]
    BY DEF quarantine_pending_profile_fragment
  <1> HIDE DEF e
  <1>2. e.packets = Invalidate(d.packets, {p}) /\ e.scans = d.scans
    BY <1>1 DEF Store
  <1>3. d.packets \in [PacketId -> PacketRow \cup {None}]
    BY DEF Store
  <1>4. \A q \in PacketId : q \in {p} => d.packets[q] # None
    BY DEF Archived
  <1>5. /\ e.packets \in [PacketId -> PacketRow \cup {None}]
        /\ \A q \in PacketId :
              /\ e.packets[q] = None <=> d.packets[q] = None
              /\ d.packets[q] # None =>
                    /\ e.packets[q].fragment = d.packets[q].fragment
                    /\ e.packets[q].status = IF q \in {p} THEN "invalid" ELSE d.packets[q].status
    BY <1>2, <1>3, <1>4, InvalidateEffect
  <1>6. e \in Store
    BY <1>1, <1>2, <1>5 DEF Store
  <1>7. Archived(e) = Archived(d)
    BY <1>5 DEF Archived
  <1>8. \A q \in Archived(d) :
            /\ e.packets[q].fragment = d.packets[q].fragment
            /\ e.packets[q].status = IF q = p THEN "invalid" ELSE d.packets[q].status
    BY <1>5 DEF Archived
  <1>9. StoreSound(e) /\ OtherKeys(d, e, d.packets[p].fragment.key)
    BY <1>2, <1>6, <1>7, <1>8, StatusEffect
  <1>10. QED
    BY <1>2, <1>6, <1>7, <1>8, <1>9 DEF e

\* A packet with a new id is archived.
LEMMA ArchiveEffect ==
    ASSUME NEW d \in Store, StoreSound(d), NEW f \in Delivered, NEW p \in PacketId,
           p \notin Archived(d), NEW st \in {"pending", "invalid"}, NEW e,
           e = [d EXCEPT !.packets[p] = [fragment |-> f, status |-> st]]
    PROVE  /\ e \in Store
           /\ StoreSound(e)
           /\ Archived(e) = Archived(d) \cup {p}
           /\ e.scans = d.scans
           /\ \A q \in Archived(d) : e.packets[q] = d.packets[q]
           /\ e.packets[p].fragment = f
           /\ e.packets[p].status = st
  <1> DEFINE new == [fragment |-> f, status |-> st]
  <1>1. new \in PacketRow /\ new # None
    BY ReceiverAssumption, StoreNoneAssumption DEF PacketRow, Status
  <1>2. d.packets \in [PacketId -> PacketRow \cup {None}]
    BY DEF Store
  <1> HIDE DEF new
  <1>3. e.packets = [d.packets EXCEPT ![p] = new] /\ e.scans = d.scans
    BY DEF Store, new
  <1>4. e \in Store
    BY <1>1 DEF Store, new
  <1>5. /\ e.packets[p] = new
        /\ \A q \in PacketId : q # p => e.packets[q] = d.packets[q]
    BY <1>2, <1>3
  <1>6. Archived(e) = Archived(d) \cup {p}
    BY <1>1, <1>5 DEF Archived
  <1>7. \A q \in Archived(d) : e.packets[q] = d.packets[q]
    BY <1>5 DEF Archived
  <1>8. e.packets[p].fragment = f /\ e.packets[p].status = st
    BY <1>5 DEF new
  <1>9. StoreSound(e)
    <2>1. \A row \in e.scans : RowSound(e, row)
      BY <1>3, <1>6, <1>7 DEF StoreSound, RowSound
    <2>2. NoOrphan(e)
      BY <1>3, <1>6, <1>7, <1>8 DEF StoreSound, NoOrphan
    <2>3. \A q \in Archived(e) : e.packets[q].fragment \in Delivered
      BY <1>6, <1>7, <1>8 DEF StoreSound
    <2>4. QED
      BY <1>3, <2>1, <2>2, <2>3 DEF StoreSound, OneRow
  <1>10. QED
    BY <1>3, <1>4, <1>6, <1>7, <1>8, <1>9

\* AddCounts moves the counters of a row and nothing else.
LEMMA AddCountsType ==
    ASSUME NEW row \in ScanRow, NEW x \in Count, NEW y \in Count
    PROVE  /\ AddCounts(row, x, y) \in ScanRow
           /\ AddCounts(row, x, y).key = row.key
           /\ AddCounts(row, x, y).metadata = row.metadata
           /\ AddCounts(row, x, y).fragments = row.fragments
           /\ AddCounts(row, x, y).duplicates = saturating_add(row.duplicates, x)
           /\ AddCounts(row, x, y).conflicts = saturating_add(row.conflicts, y)
  <1>1. saturating_add(row.duplicates, x) \in Count /\ saturating_add(row.conflicts, y) \in Count
    BY RowType, SaturatingType
  <1>2. QED
    BY <1>1 DEF AddCounts, ScanRow

\* A match counts once, on one of the two counters.
LEMMA CountOfType ==
    ASSUME NEW match, NEW st
    PROVE  CountOf(match, st) \in Count
  BY ReassemblyAssumption DEF CountOf, Count

\* What the store says of a fragment is a verdict, unless no row of its scan has its index.
LEMMA MatchType ==
    ASSUME NEW d, NEW f
    PROVE  /\ PersistedFragmentMatch(d, f) \in {None, "duplicate", "conflict"}
           /\ PersistedFragmentMatch(d, f) = None <=> PersistedRows(d, f) = {}
  BY StoreNoneAssumption DEF PersistedFragmentMatch

\* The row that reconcile_persisted_profile_fragment updates: the counters of row become those of new.
Updated(row, new, match) ==
    /\ new.key = row.key
    /\ new.metadata = row.metadata
    /\ new.fragments = row.fragments
    /\ new.duplicates = saturating_add(row.duplicates, CountOf(match, "duplicate"))
    /\ new.conflicts = saturating_add(row.conflicts, CountOf(match, "conflict"))

\* reconcile_persisted_profile_fragment of a pending packet that the store knows.
LEMMA ReconcileEffect ==
    ASSUME NEW d \in Store, StoreSound(d), NEW p \in Archived(d), d.packets[p].status = "pending",
           NEW f, f = d.packets[p].fragment, PersistedFragmentMatch(d, f) # None
    PROVE  LET e == reconcile_persisted_profile_fragment(d, f, p)
           IN /\ e \in Store
              /\ StoreSound(e)
              /\ OtherKeys(d, e, f.key)
              /\ Archived(e) = Archived(d)
              /\ \A q \in Archived(d) :
                    /\ e.packets[q].fragment = d.packets[q].fragment
                    /\ e.packets[q].status =
                          IF q = p THEN PersistedFragmentMatch(d, f) ELSE d.packets[q].status
              /\ \E row \in d.scans, new \in e.scans :
                    row.key = f.key /\ Updated(row, new, PersistedFragmentMatch(d, f))
  <1> DEFINE match == PersistedFragmentMatch(d, f)
             x == CountOf(match, "duplicate")
             y == CountOf(match, "conflict")
             e == reconcile_persisted_profile_fragment(d, f, p)
  <1>1. match \in {"duplicate", "conflict"} /\ PersistedRows(d, f) # {} /\ match \in Status
    BY MatchType DEF Status
  <1>2. x \in Count /\ y \in Count
    BY CountOfType
  <1>3. d.scans \subseteq ScanRow /\ d.packets \in [PacketId -> PacketRow \cup {None}]
    BY DEF Store
  <1>4. PICK row \in PersistedRows(d, f) : TRUE
    BY <1>1
  <1>5. row \in d.scans /\ row.key = f.key /\ row \in ScanRow
    BY <1>3, <1>4 DEF PersistedRows
  <1>6. PersistedRows(d, f) = {row} /\ {r \in d.scans : r.key = f.key} = {row}
    BY <1>4, <1>5 DEF PersistedRows, StoreSound, OneRow
  <1> DEFINE new == AddCounts(row, x, y)
  <1>7. /\ e.packets = SetStatus(d.packets, {p}, match)
        /\ e.scans = (d.scans \ {row}) \cup {new}
        /\ e = [packets |-> e.packets, scans |-> e.scans]
    <2>1. e = [packets |-> SetStatus(d.packets, {p}, match),
               scans |-> (d.scans \ PersistedRows(d, f)) \cup
                            {AddCounts(r, x, y) : r \in PersistedRows(d, f)}]
      BY DEF reconcile_persisted_profile_fragment
    <2>2. {AddCounts(r, x, y) : r \in PersistedRows(d, f)} = {new}
      BY <1>6
    <2> HIDE DEF e, x, y, match, new
    <2>3. QED
      BY <1>6, <2>1, <2>2
  <1>8. new \in ScanRow /\ Updated(row, new, match)
    BY <1>2, <1>5, AddCountsType DEF Updated
  <1> HIDE DEF x, y, new, match, e
  <1>9. /\ e.packets \in [PacketId -> PacketRow \cup {None}]
        /\ \A q \in PacketId :
              /\ e.packets[q] = None <=> d.packets[q] = None
              /\ d.packets[q] # None =>
                    /\ e.packets[q].fragment = d.packets[q].fragment
                    /\ e.packets[q].status =
                          IF q \in {p} /\ d.packets[q].status # "invalid"
                          THEN match ELSE d.packets[q].status
    BY <1>1, <1>3, <1>7, SetStatusEffect
  <1>10. e \in Store
    <2>1. e.scans \subseteq ScanRow
      BY <1>3, <1>7, <1>8
    <2>2. QED
      BY <1>7, <1>9, <2>1 DEF Store
  <1>11. Archived(e) = Archived(d)
    BY <1>9 DEF Archived
  <1>12. \A q \in Archived(d) :
            /\ e.packets[q].fragment = d.packets[q].fragment
            /\ e.packets[q].status = IF q = p THEN match ELSE d.packets[q].status
    BY <1>9 DEF Archived
  <1>13. new \in e.scans /\ \A r \in e.scans : r.key = f.key => r = new
    BY <1>6, <1>7
  <1>14. OtherKeys(d, e, f.key)
    <2>1. \A r \in ScanRow : r.key # f.key => (r \in d.scans <=> r \in e.scans)
      BY <1>5, <1>7, <1>8 DEF Updated
    <2>2. QED
      BY <1>11, <1>12, <2>1 DEF OtherKeys
  <1>15. RowSound(e, new)
    <2>1. RowSound(d, row)
      BY <1>5 DEF StoreSound
    <2>2. \A i \in Received(row.fragments) : row.fragments[i] # p
      BY <2>1 DEF RowSound
    <2>3. new.fragments = row.fragments /\ new.key = row.key /\ new.metadata = row.metadata
      BY <1>8 DEF Updated
    <2>4. TransportComplete(new) <=> TransportComplete(row)
      BY <2>3 DEF TransportComplete
    <2>5. QED
      BY <1>11, <1>12, <2>1, <2>2, <2>3, <2>4 DEF RowSound
  <1>16. \A q \in Archived(e) :
              e.packets[q].fragment.key = f.key /\ e.packets[q].status \in {"assembled", "incomplete"}
                  => \E r \in e.scans : q \in Linked(r)
    <2> SUFFICES ASSUME NEW q \in Archived(d), q # p,
                        d.packets[q].status \in {"assembled", "incomplete"}
                 PROVE  \E r \in e.scans : q \in Linked(r)
      BY <1>1, <1>11, <1>12
    <2>1. PICK r \in d.scans : q \in Linked(r)
      BY DEF StoreSound, NoOrphan
    <2>2. CASE r = row
      <3>1. q \in Linked(new)
        BY <1>8, <2>1, <2>2 DEF Updated, Linked
      <3>2. QED
        BY <1>13, <3>1
    <2>3. CASE r # row
      BY <1>7, <2>1, <2>3
    <2>4. QED
      BY <2>2, <2>3
  <1>17. IsFiniteSet(e.scans)
    <2>1. IsFiniteSet(d.scans \ {row})
      BY FS_Subset DEF StoreSound
    <2>2. QED
      BY <1>7, <2>1, FS_AddElement
  <1>18. StoreSound(e)
    BY <1>10, <1>11, <1>13, <1>14, <1>15, <1>16, <1>17, StoreFrame
  <1>19. QED
    BY <1>5, <1>8, <1>10, <1>11, <1>12, <1>13, <1>14, <1>18 DEF e, match

\* Store e is store d without the row of scan k, and of the packets that decode none has a verdict of
\* that scan any more.
Dismantled(d, e, ok, k) ==
    /\ e \in Store
    /\ StoreSound(e)
    /\ OtherKeys(d, e, k)
    /\ Archived(e) = Archived(d)
    /\ e.scans = {row \in d.scans : row.key # k}
    /\ \A p \in Archived(d) : e.packets[p].status \in {"duplicate", "conflict"} =>
          /\ e.packets[p].status = d.packets[p].status
          /\ d.packets[p].fragment \in ok => d.packets[p].fragment.key # k

\* quarantine_incomplete_profile_fragment dismantles the row of a scan.
LEMMA QuarantineEffect ==
    ASSUME NEW d \in Store, StoreSound(d), NEW ok, NEW row \in d.scans, ~ TransportComplete(row),
           NEW p \in Linked(row)
    PROVE  Dismantled(d, quarantine_incomplete_profile_fragment(d, ok, row.key, p), ok, row.key)
  <1> DEFINE k == row.key
             candidates == ReplayCandidates(d, ok, k, p)
             matching   == {q \in candidates : DecodesTo(d, ok, k, q)}
             requeued   == SetStatus(d.packets, matching, "pending")
             bad        == (candidates \ matching) \cup {p}
             e == quarantine_incomplete_profile_fragment(d, ok, k, p)
  <1>1. d.scans \subseteq ScanRow /\ d.packets \in [PacketId -> PacketRow \cup {None}]
    BY DEF Store
  <1>2. \A r \in d.scans : r.key = k => r = row
    BY DEF StoreSound, OneRow
  <1>3. IncompleteRows(d, k) = {row}
    BY <1>2 DEF IncompleteRows
  <1>4. \A q \in Linked(row) :
            /\ q \in Archived(d)
            /\ d.packets[q].fragment.key = k
            /\ d.packets[q].status = "incomplete"
    BY DEF StoreSound, RowSound, Linked
  <1>5. /\ candidates \subseteq Archived(d)
        /\ Linked(row) \ {p} \subseteq candidates
        /\ \A q \in candidates : d.packets[q].fragment.key = k
        /\ \A q \in Archived(d) :
              d.packets[q].status \in {"duplicate", "conflict"} /\ DecodesTo(d, ok, k, q)
                  => q \in candidates
    <2> DEFINE sources == UNION {Linked(r) : r \in IncompleteRows(d, k)}
               sourced == sources \cap UNION {WithStatus(d, s) :
                             s \in {"pending", "incomplete", "duplicate", "conflict"}}
               events  == IF CompleteRows(d, k) = {} THEN IntegrityEvents(d, ok, k) ELSE {}
    <2>1. candidates = (sourced \cup events) \ {p}
      BY DEF ReplayCandidates
    <2>2. sources = Linked(row)
      BY <1>3
    <2>3. sourced = Linked(row)
      BY <1>4, <2>2 DEF WithStatus
    <2>4. \A q \in events : q \in Archived(d) /\ d.packets[q].fragment.key = k
      BY DEF IntegrityEvents, DecodesTo, WithStatus
    <2>5. CompleteRows(d, k) = {}
      BY <1>2 DEF CompleteRows
    <2>6. \A q \in Archived(d) :
              d.packets[q].status \in {"duplicate", "conflict"} /\ DecodesTo(d, ok, k, q)
                  => q \in events
      BY <2>5 DEF IntegrityEvents, DecodesTo, WithStatus
    <2> HIDE DEF sourced, events, candidates
    <2>7. \A q \in Archived(d) : d.packets[q].status \in {"duplicate", "conflict"} => q # p
      BY <1>4
    <2>8. QED
      BY <1>4, <2>1, <2>3, <2>4, <2>6, <2>7
  <1>6. /\ e.packets = Invalidate(requeued, bad)
        /\ e.scans = {r \in d.scans : r.key # k}
        /\ e = [packets |-> e.packets, scans |-> e.scans]
    <2>1. e = [packets |-> Invalidate(requeued, bad), scans |-> Surviving(d, k)]
      BY DEF quarantine_incomplete_profile_fragment
    <2>2. Surviving(d, k) = {r \in d.scans : r.key # k}
      BY <1>2, <1>3 DEF Surviving
    <2> HIDE DEF e, requeued, bad
    <2>3. QED
      BY <2>1, <2>2
  <1>7. matching \subseteq candidates
    OBVIOUS
  <1> HIDE DEF candidates, matching, requeued, e
  <1>8. /\ requeued \in [PacketId -> PacketRow \cup {None}]
        /\ \A q \in PacketId :
              /\ requeued[q] = None <=> d.packets[q] = None
              /\ d.packets[q] # None =>
                    /\ requeued[q].fragment = d.packets[q].fragment
                    /\ requeued[q].status =
                          IF q \in matching /\ d.packets[q].status # "invalid"
                          THEN "pending" ELSE d.packets[q].status
    BY <1>1, SetStatusEffect DEF requeued, Status
  <1>9. \A q \in PacketId : q \in bad => requeued[q] # None
    BY <1>4, <1>5, <1>8 DEF Archived
  <1>10. bad \subseteq Linked(row) \cup candidates /\ p \in bad /\ candidates \subseteq bad \cup matching
    OBVIOUS
  <1> HIDE DEF bad
  <1>11. /\ e.packets \in [PacketId -> PacketRow \cup {None}]
         /\ \A q \in PacketId :
              /\ e.packets[q] = None <=> requeued[q] = None
              /\ requeued[q] # None =>
                    /\ e.packets[q].fragment = requeued[q].fragment
                    /\ e.packets[q].status =
                          IF q \in bad THEN "invalid" ELSE requeued[q].status
    BY <1>6, <1>8, <1>9, InvalidateEffect
  <1>12. e \in Store
    BY <1>1, <1>6, <1>11 DEF Store
  <1>13. Archived(e) = Archived(d)
    BY <1>8, <1>11 DEF Archived
  <1>14. \A q \in Archived(d) :
            /\ e.packets[q].fragment = d.packets[q].fragment
            /\ q \notin bad \cup matching => e.packets[q].status = d.packets[q].status
            /\ q \in bad \cup matching => e.packets[q].status \in {"pending", "invalid"}
    BY <1>8, <1>11 DEF Archived
  <1>15. OtherKeys(d, e, k)
    <2>1. \A q \in Archived(d) :
            d.packets[q].fragment.key # k => e.packets[q].status = d.packets[q].status
      BY <1>4, <1>5, <1>7, <1>10, <1>14
    <2>2. \A r \in ScanRow : r.key # k => (r \in d.scans <=> r \in e.scans)
      BY <1>6
    <2>3. QED
      BY <1>13, <1>14, <2>1, <2>2 DEF OtherKeys
  <1>16. \A q \in Archived(e) :
              e.packets[q].fragment.key = k /\ e.packets[q].status \in {"assembled", "incomplete"}
                  => \E r \in e.scans : q \in Linked(r)
    <2> SUFFICES ASSUME NEW q \in Archived(d), d.packets[q].fragment.key = k,
                        e.packets[q].status \in {"assembled", "incomplete"}
                 PROVE  FALSE
      BY <1>13, <1>14
    <2>1. q \notin bad \cup matching /\ d.packets[q].status \in {"assembled", "incomplete"}
      BY <1>14
    <2>2. PICK r \in d.scans : q \in Linked(r)
      BY <2>1 DEF StoreSound, NoOrphan
    <2>3. r.key = k
      BY <2>2 DEF StoreSound, RowSound, Linked
    <2>4. q \in Linked(row)
      BY <1>2, <2>2, <2>3
    <2>5. QED
      BY <1>5, <1>10, <2>1, <2>4
  <1>17. IsFiniteSet(e.scans)
    BY <1>6, FS_Subset DEF StoreSound
  <1>18. \A r \in e.scans : r.key # k
    BY <1>6
  <1>19. StoreSound(e)
    BY <1>12, <1>13, <1>15, <1>16, <1>17, <1>18, StoreFrame
  <1>20. \A q \in Archived(d) : e.packets[q].status \in {"duplicate", "conflict"} =>
              /\ e.packets[q].status = d.packets[q].status
              /\ d.packets[q].fragment \in ok => d.packets[q].fragment.key # k
    <2> SUFFICES ASSUME NEW q \in Archived(d), e.packets[q].status \in {"duplicate", "conflict"}
                 PROVE  /\ e.packets[q].status = d.packets[q].status
                        /\ d.packets[q].fragment \in ok => d.packets[q].fragment.key # k
      OBVIOUS
    <2>1. q \notin bad \cup matching
      BY <1>14
    <2>2. e.packets[q].status = d.packets[q].status /\ q \notin candidates
      BY <1>10, <1>14, <2>1
    <2>3. QED
      BY <1>5, <2>2 DEF DecodesTo
  <1>21. QED
    BY <1>6, <1>12, <1>13, <1>15, <1>19, <1>20 DEF e, Dismantled

-----------------------------------------------------------------------------
(***************************************************************************)
(* The inductive invariant: scans in memory are active in the table, in    *)
(* the backlog, or in the event.                                           *)
(***************************************************************************)
\* Packet p fills a slot of an active scan.
InTable(r, p) == \E k \in ActiveKeys(r) : p \in Packets(r.active[k].fragments)

\* Packet p fills a slot of a scan in memory.
InMemory(r, scans, ev, p) ==
    \/ InTable(r, p)
    \/ \E s \in scans : p \in Packets(s.fragments)
    \/ ev # None /\ p \in Packets(ev.profile.fragments)

\* Scan k is being restored from its row.
Restoring(row, k) == row # None /\ row.key = k

\* An active scan is incomplete, and covers its row once that is restored.
ActiveSound ==
    \A k \in ActiveKeys(reassembler) :
        /\ SlotsSound(db, decodes, k, reassembler.active[k].metadata, reassembler.active[k].fragments)
        /\ Received(reassembler.active[k].fragments) # fragment_mask(reassembler.active[k].metadata)
        /\ Restoring(profile, k)
              \/ Covers(db, k, reassembler.active[k].metadata, reassembler.active[k].fragments)

\* So is a scan of the backlog, which is nowhere else.
BacklogSound ==
    /\ \A s \in backlog :
          /\ SlotsSound(db, decodes, s.key, s.metadata, s.fragments)
          /\ Received(s.fragments) # fragment_mask(s.metadata)
          /\ Covers(db, s.key, s.metadata, s.fragments)
          /\ s.key \notin ActiveKeys(reassembler)
          /\ ~ Restoring(profile, s.key)
    /\ \A s, t \in backlog : s.key = t.key => s = t

\* The result of an ingest: a scan that left the table complete ...
CompleteSound(ev) ==
    /\ ev.profile.key \notin ActiveKeys(reassembler)
    /\ Received(ev.profile.fragments) = fragment_mask(ev.profile.metadata)
    /\ current \in Packets(ev.profile.fragments)

\* ... or a snapshot of an active scan, with the packet that moved its counter.
SnapshotSound(ev) ==
    /\ ev.profile.key \in ActiveKeys(reassembler)
    /\ ev.profile = finish(ev.profile.key, reassembler.active[ev.profile.key])
    /\ db.packets[current].status = "pending"
    /\ CurrentFragment.key = ev.profile.key
    /\ current \notin Packets(ev.profile.fragments)

EventSound ==
    event # None =>
        /\ event.profile # None
        /\ stage = "handle"
        /\ event.packet = current
        /\ SlotsSound(db, decodes, event.profile.key, event.profile.metadata, event.profile.fragments)
        /\ Covers(db, event.profile.key, event.profile.metadata, event.profile.fragments)
        /\ \A t \in backlog : t.key # event.profile.key
        /\ event.event = "Complete" => CompleteSound(event)
        /\ event.event # "Complete" => SnapshotSound(event)

\* The event is a counter change of scan k.
Moved(ev, k) == ev # None /\ ev.event # "Complete" /\ ev.profile.key = k

\* The counters of an active scan are those of its row, unless their change is yet to be written.
CountsSound ==
    \A k \in ActiveKeys(reassembler) : \A row \in db.scans :
        row.key = k /\ ~ Moved(event, k) =>
            /\ reassembler.active[k].duplicates = row.duplicates
            /\ reassembler.active[k].conflicts = row.conflicts

\* A scan in the completed cache is stored as complete, or is about to be.
CacheSound ==
    \A k \in CompletedKeys(reassembler) :
        \/ \E row \in db.scans : row.key = k /\ TransportComplete(row)
        \/ event # None /\ event.event = "Complete" /\ event.profile.key = k

\* The copies still to be replayed are rows of the store, and of scans that are nowhere in memory.
ProfilesSound ==
    \A row \in profiles :
        /\ row \in db.scans
        /\ ~ TransportComplete(row)
        /\ row.key \notin ActiveKeys(reassembler)
        /\ row.key \notin quarantined
        /\ \A s \in backlog : s.key # row.key
        /\ ~ Restoring(profile, row.key)

\* What the table has of the row being replayed.
Replayed(r, row, todo) ==
    /\ row.key \in ActiveKeys(r)
    /\ r.active[row.key].metadata = row.metadata
    /\ Received(r.active[row.key].fragments) = Received(row.fragments) \ todo
    /\ \A i \in Received(row.fragments) \ todo :
          r.active[row.key].fragments[i].packet = row.fragments[i]

\* The row being replayed is a row of the store, and the active scan has what was replayed of it.
ProfileSound ==
    profile # None =>
        /\ profile \in db.scans
        /\ ~ TransportComplete(profile)
        /\ left \subseteq Received(profile.fragments)
        /\ left = Received(profile.fragments) =>
              ~ counts_restored /\ profile.key \notin ActiveKeys(reassembler)
        /\ left # Received(profile.fragments) =>
              counts_restored /\ Replayed(reassembler, profile, left)

\* Where the process may be.
PhaseSound ==
    /\ phase \in {"down", "restore", "stopping"} => stage = "idle"
    /\ stage = "idle" <=> current = None
    /\ stage = "idle" /\ phase # "restore" => profiles = {} /\ profile = None
    /\ stage \in {"reconcile", "handle"} => profiles = {} /\ profile = None
    /\ stage = "reconcile" \/ phase = "down" \/ (phase = "replay" /\ stage = "idle") => backlog = {}
    /\ phase \in {"down", "stopping"} => ActiveKeys(reassembler) = {}
    /\ phase = "down" => CompletedKeys(reassembler) = {} /\ quarantined = {}
    /\ phase # "replay" => pending = {}

\* Once the store has been searched for the fragment in hand, what it has of the scan is in memory
\* or about to be restored.
SearchedSound ==
    stage = "ingest" =>
        /\ \A row \in db.scans : row.key = CurrentFragment.key =>
              /\ row.fragments[CurrentFragment.fragment_index] = None
              /\ ~ TransportComplete(row)
              /\ row \in profiles \/ Restoring(profile, row.key) \/ row.key \in ActiveKeys(reassembler)
        /\ \A s \in backlog : s.key # CurrentFragment.key
        /\ \A row \in profiles : row.key = CurrentFragment.key
        /\ profile # None => profile.key = CurrentFragment.key

\* The packet in hand waits for its verdict, or for its result to be written.
CurrentSound ==
    current # None =>
        /\ current \in Archived(db)
        /\ CurrentFragment \in decodes
        /\ stage \in {"reconcile", "ingest"} =>
              db.packets[current].status = "pending" /\ ~ InMemory(reassembler, backlog, event, current)
        /\ stage = "handle" /\ event = None => InTable(reassembler, current)

\* Once pending packets are loaded, every one is to be replayed, in hand or in memory.
PendingSound ==
    /\ phase \in {"replay", "live", "stopping"} =>
          \A p \in WithStatus(db, "pending") :
              p \in pending \/ p = current \/ InMemory(reassembler, backlog, event, p)
    /\ phase = "restore" =>
          \A p \in WithStatus(db, "pending") : ~ InMemory(reassembler, backlog, event, p)
    /\ \A p \in pending :
          p \in WithStatus(db, "pending") /\ ~ InMemory(reassembler, backlog, event, p) /\ p # current

\* Once a row has been replayed, its sources decode with the installed codec.
DecodeSound ==
    phase # "down" =>
        \A row \in db.scans : ~ TransportComplete(row) =>
            \/ row \in profiles /\ phase = "restore"
            \/ \A i \in Received(row.fragments) :
                  \/ row = profile /\ i \in left /\ phase = "restore"
                  \/ db.packets[row.fragments[i]].fragment \in decodes

\* The process ends on no inconsistency.
FailureSound ==
    failure \in {None, "IncompleteReplayLimitExceeded", "PendingReplayLimitExceeded"}

IInv ==
    /\ TypeOK /\ StoreSound(db)
    /\ ActiveSound /\ BacklogSound /\ EventSound /\ CountsSound /\ CacheSound
    /\ ProfilesSound /\ ProfileSound
    /\ PhaseSound /\ SearchedSound /\ CurrentSound /\ PendingSound /\ DecodeSound /\ FailureSound

-----------------------------------------------------------------------------
(***************************************************************************)
(* The process ends and starts.                                            *)
(***************************************************************************)
\* An empty reassembler has no scan.
LEMMA EmptyType ==
    /\ EmptyReassembler \in Reassembler
    /\ ActiveKeys(EmptyReassembler) = {}
    /\ CompletedKeys(EmptyReassembler) = {}
  BY DEF EmptyReassembler, Reassembler, ActiveKeys, CompletedKeys

\* When the process is gone, what the invariant says is about the store.
LEMMA DownSound ==
    ASSUME db \in Store, StoreSound(db), rejected \subseteq Delivered, exits \in Nat, FailureSound,
           phase = "down", reassembler = EmptyReassembler, clock = 0, profiles = {}, profile = None,
           left = {}, counts_restored = FALSE, quarantined = {}, pending = {}, current = None,
           stage = "idle", backlog = {}, event = None
    PROVE  IInv
  <1>1. TypeOK
    BY EmptyType DEF TypeOK
  <1>2. /\ ActiveKeys(reassembler) = {}
        /\ CompletedKeys(reassembler) = {}
    BY EmptyType
  <1>3. ActiveSound /\ CountsSound /\ CacheSound
    BY <1>2 DEF ActiveSound, CountsSound, CacheSound
  <1>4. BacklogSound /\ EventSound /\ ProfilesSound /\ ProfileSound
    BY DEF BacklogSound, EventSound, ProfilesSound, ProfileSound
  <1>5. PhaseSound
    BY <1>2 DEF PhaseSound
  <1>6. SearchedSound /\ CurrentSound /\ PendingSound /\ DecodeSound
    BY DEF SearchedSound, CurrentSound, PendingSound, DecodeSound
  <1>7. QED
    BY <1>1, <1>3, <1>4, <1>5, <1>6 DEF IInv

\* The same after a step.
LEMMA DownSoundNext ==
    ASSUME db' \in Store, StoreSound(db'), rejected' \subseteq Delivered, exits' \in Nat,
           FailureSound', Forget
    PROVE  IInv'
  <1>1. TypeOK'
    BY EmptyType DEF TypeOK, Forget
  <1>2. /\ ActiveKeys(reassembler') = {}
        /\ CompletedKeys(reassembler') = {}
    BY EmptyType DEF Forget
  <1>3. (ActiveSound /\ CountsSound /\ CacheSound)'
    BY <1>2 DEF ActiveSound, CountsSound, CacheSound
  <1>4. (BacklogSound /\ EventSound /\ ProfilesSound /\ ProfileSound)'
    BY DEF BacklogSound, EventSound, ProfilesSound, ProfileSound, Forget
  <1>5. PhaseSound'
    BY <1>2 DEF PhaseSound, Forget
  <1>6. (SearchedSound /\ CurrentSound /\ PendingSound /\ DecodeSound)'
    BY DEF SearchedSound, CurrentSound, PendingSound, DecodeSound, Forget
  <1>7. QED
    BY <1>1, <1>3, <1>4, <1>5, <1>6 DEF IInv

\* The empty database is sound.
LEMMA InitIInv == Init => IInv
  <1> SUFFICES ASSUME Init
               PROVE  IInv
    OBVIOUS
  <1>1. db = EmptyStore /\ db \in Store
    BY DEF Init, EmptyStore, Store
  <1>2. db.scans = {} /\ Archived(db) = {}
    BY <1>1 DEF EmptyStore, Archived
  <1>3. StoreSound(db)
    BY <1>2, FS_EmptySet DEF StoreSound, OneRow, NoOrphan
  <1>4. FailureSound
    BY DEF Init, InitProcess, FailureSound
  <1>5. QED
    BY <1>1, <1>3, <1>4, DownSound DEF Init, InitProcess

\* A replay limit is the only error the process may end on.
LEMMA ExitStep ==
    ASSUME IInv, NEW error \in {"IncompleteReplayLimitExceeded", "PendingReplayLimitExceeded"},
           Exit(error)
    PROVE  IInv'
  <1>1. db' = db /\ rejected' = rejected /\ exits' = exits /\ Forget /\ failure' = error
    BY DEF Exit, durable
  <1>2. db \in Store /\ StoreSound(db) /\ rejected \subseteq Delivered /\ exits \in Nat
    BY DEF IInv, TypeOK
  <1>3. FailureSound'
    BY <1>1 DEF FailureSound
  <1>4. QED
    BY <1>1, <1>2, <1>3, DownSoundNext

\* A crash, or the end of a process that was stopped.
LEMMA CrashStep ==
    ASSUME IInv, Crash \/ Stopped
    PROVE  IInv'
  <1>1. db' = db /\ rejected' = rejected /\ Forget /\ failure' = failure
    BY DEF Crash, Stopped, durable
  <1>2. /\ db \in Store /\ StoreSound(db) /\ rejected \subseteq Delivered /\ exits \in Nat
        /\ FailureSound
    BY DEF IInv, TypeOK
  <1>3. exits' \in Nat
    BY <1>2 DEF Crash, Stopped, durable
  <1>4. FailureSound'
    BY <1>1, <1>2 DEF FailureSound
  <1>5. QED
    BY <1>1, <1>2, <1>3, <1>4, DownSoundNext

\* While the process is down there is nothing in memory.
LEMMA DownEmpty ==
    ASSUME IInv, phase = "down"
    PROVE  /\ ActiveKeys(reassembler) = {} /\ CompletedKeys(reassembler) = {}
           /\ backlog = {} /\ event = None /\ profiles = {} /\ profile = None /\ quarantined = {}
           /\ current = None /\ stage = "idle" /\ pending = {}
  BY DEF IInv, PhaseSound, EventSound

\* A codec upgrade changes what decodes while nothing is in memory.
LEMMA UpgradeStep ==
    ASSUME IInv, NEW f \in Delivered, UpgradeCodec(f)
    PROVE  IInv'
  <1>1. /\ phase = "down" /\ phase' = phase /\ rejected' = rejected \cup {f}
        /\ db' = db /\ exits' = exits /\ failure' = failure /\ reassembler' = reassembler
        /\ clock' = clock /\ profiles' = profiles /\ profile' = profile /\ left' = left
        /\ counts_restored' = counts_restored /\ quarantined' = quarantined
        /\ pending' = pending /\ current' = current /\ stage' = stage
        /\ backlog' = backlog /\ event' = event
    BY DEF UpgradeCodec, restore, fragment, output
  <1>2. /\ ActiveKeys(reassembler) = {} /\ CompletedKeys(reassembler) = {}
        /\ backlog = {} /\ event = None /\ profiles = {} /\ profile = None /\ quarantined = {}
        /\ current = None /\ stage = "idle" /\ pending = {}
    BY <1>1, DownEmpty
  <1>3. TypeOK'
    BY <1>1 DEF IInv, TypeOK
  <1>4. StoreSound(db')
    BY <1>1 DEF IInv
  <1>5. (ActiveSound /\ CountsSound /\ CacheSound)'
    BY <1>1, <1>2 DEF ActiveSound, CountsSound, CacheSound
  <1>6. (BacklogSound /\ EventSound /\ ProfilesSound /\ ProfileSound)'
    BY <1>1, <1>2 DEF BacklogSound, EventSound, ProfilesSound, ProfileSound
  <1>7. PhaseSound' /\ FailureSound'
    BY <1>1 DEF IInv, PhaseSound, FailureSound
  <1>8. (SearchedSound /\ CurrentSound /\ PendingSound /\ DecodeSound)'
    BY <1>1, <1>2 DEF SearchedSound, CurrentSound, PendingSound, DecodeSound
  <1>9. QED
    BY <1>3, <1>4, <1>5, <1>6, <1>7, <1>8 DEF IInv

\* Startup loads every incomplete row.
LEMMA StartStep ==
    ASSUME IInv, Start
    PROVE  IInv'
  <1>1. CASE IncompleteReplayLimitExceeded(db, Key)
    BY <1>1, ExitStep DEF Start
  <1>2. CASE ~ IncompleteReplayLimitExceeded(db, Key)
    <2>1. /\ phase = "down" /\ phase' = "restore" /\ failure' = None
          /\ profiles' = incomplete_profiles(db, Key)
          /\ db' = db /\ rejected' = rejected /\ exits' = exits /\ reassembler' = reassembler
          /\ clock' = clock /\ profile' = profile /\ left' = left
          /\ counts_restored' = counts_restored /\ quarantined' = quarantined
          /\ pending' = pending /\ current' = current /\ stage' = stage
          /\ backlog' = backlog /\ event' = event
      BY <1>2 DEF Start, durable, fragment, output
    <2>2. /\ ActiveKeys(reassembler) = {} /\ CompletedKeys(reassembler) = {}
          /\ backlog = {} /\ event = None /\ profiles = {} /\ profile = None /\ quarantined = {}
          /\ current = None /\ stage = "idle" /\ pending = {}
      BY <2>1, DownEmpty
    <2>3. db.scans \subseteq ScanRow
      BY DEF IInv, TypeOK, Store
    <2>4. profiles' = {row \in db.scans : ~ TransportComplete(row)}
      BY <2>1, <2>3, RowType DEF incomplete_profiles, IncompleteRows
    <2>5. TypeOK'
      BY <2>1, <2>3, <2>4 DEF IInv, TypeOK
    <2>6. StoreSound(db')
      BY <2>1 DEF IInv
    <2>7. (ActiveSound /\ CountsSound /\ CacheSound)'
      BY <2>1, <2>2 DEF ActiveSound, CountsSound, CacheSound
    <2>8. (BacklogSound /\ EventSound /\ ProfileSound)'
      BY <2>1, <2>2 DEF BacklogSound, EventSound, ProfileSound
    <2>9. ProfilesSound'
      BY <2>1, <2>2, <2>4 DEF ProfilesSound, Restoring
    <2>10. PhaseSound' /\ FailureSound'
      BY <2>1, <2>2 DEF PhaseSound, FailureSound
    <2>11. \A p : ~ InMemory(reassembler, backlog, event, p)
      BY <2>2 DEF InMemory, InTable
    <2>12. (SearchedSound /\ CurrentSound /\ PendingSound /\ DecodeSound)'
      BY <2>1, <2>2, <2>4, <2>11 DEF SearchedSound, CurrentSound, PendingSound, DecodeSound
    <2>13. QED
      BY <2>5, <2>6, <2>7, <2>8, <2>9, <2>10, <2>12 DEF IInv
  <1>3. QED
    BY <1>1, <1>2

\* Every row is restored, and every pending packet is loaded.
LEMMA LoadPendingStep ==
    ASSUME IInv, LoadPending
    PROVE  IInv'
  <1>1. CASE PendingReplayLimitExceeded(db)
    BY <1>1, ExitStep DEF LoadPending
  <1>2. CASE ~ PendingReplayLimitExceeded(db)
    <2>1. /\ phase = "restore" /\ phase' = "replay"
          /\ backlog = {} /\ event = None /\ profile = None /\ profiles = {}
          /\ pending' = WithStatus(db, "pending")
          /\ db' = db /\ rejected' = rejected /\ exits' = exits /\ failure' = failure
          /\ reassembler' = reassembler /\ clock' = clock
          /\ profiles' = profiles /\ profile' = profile /\ left' = left
          /\ counts_restored' = counts_restored /\ quarantined' = quarantined
          /\ current' = current /\ stage' = stage /\ backlog' = backlog /\ event' = event
      BY <1>2 DEF LoadPending, Restored, Written, durable, restore, fragment, output
    <2>2. decodes' = decodes
      BY <2>1 DEF decodes
    <2>3. stage = "idle" /\ current = None
      BY <2>1 DEF IInv, PhaseSound
    <2>4. TypeOK'
      BY <2>1 DEF IInv, TypeOK, WithStatus, Archived
    <2>5. StoreSound(db')
      BY <2>1 DEF IInv
    <2>6. (ActiveSound /\ CountsSound /\ CacheSound)'
      BY <2>1, <2>2 DEF IInv, ActiveSound, CountsSound, CacheSound
    <2>7. (BacklogSound /\ EventSound /\ ProfilesSound /\ ProfileSound)'
      BY <2>1 DEF BacklogSound, EventSound, ProfilesSound, ProfileSound
    <2>8. PhaseSound' /\ FailureSound'
      BY <2>1, <2>3 DEF IInv, PhaseSound, FailureSound
    <2>9. (SearchedSound /\ CurrentSound)'
      BY <2>1, <2>3 DEF SearchedSound, CurrentSound
    <2>10. PendingSound'
      <3>1. \A p \in WithStatus(db, "pending") : p # None
        BY PacketIdType DEF WithStatus, Archived
      <3>2. QED
        BY <2>1, <2>3, <3>1 DEF IInv, PendingSound
    <2>11. DecodeSound'
      <3>1. \A row \in db.scans : row # None
        BY RowType DEF IInv, TypeOK, Store
      <3>2. QED
        BY <2>1, <2>2, <3>1 DEF IInv, DecodeSound
    <2>12. QED
      BY <2>4, <2>5, <2>6, <2>7, <2>8, <2>9, <2>10, <2>11 DEF IInv
  <1>3. QED
    BY <1>1, <1>2

\* The radio is opened once no pending packet is left to replay.
LEMMA OpenRadioStep ==
    ASSUME IInv, OpenRadio
    PROVE  IInv'
  <1>1. /\ phase = "replay" /\ phase' = "live" /\ stage = "idle" /\ pending = {}
        /\ db' = db /\ rejected' = rejected /\ exits' = exits /\ failure' = failure
        /\ reassembler' = reassembler /\ clock' = clock
        /\ profiles' = profiles /\ profile' = profile /\ left' = left
        /\ counts_restored' = counts_restored /\ quarantined' = quarantined
        /\ pending' = pending
        /\ current' = current /\ stage' = stage /\ backlog' = backlog /\ event' = event
    BY DEF OpenRadio, durable, restore, fragment, output
  <1>2. decodes' = decodes /\ CurrentFragment' = CurrentFragment
    BY <1>1 DEF decodes, CurrentFragment
  <1>3. TypeOK'
    BY <1>1 DEF IInv, TypeOK
  <1>4. StoreSound(db')
    BY <1>1 DEF IInv
  <1>5. (ActiveSound /\ CountsSound /\ CacheSound)'
    BY <1>1, <1>2 DEF IInv, ActiveSound, CountsSound, CacheSound
  <1>6. BacklogSound' /\ ProfilesSound' /\ ProfileSound'
    BY <1>1, <1>2 DEF IInv, BacklogSound, ProfilesSound, ProfileSound, PhaseSound
  <1>7. EventSound'
    BY <1>1 DEF IInv, EventSound
  <1>8. PhaseSound' /\ FailureSound'
    BY <1>1 DEF IInv, PhaseSound, FailureSound
  <1>9. (SearchedSound /\ CurrentSound)'
    BY <1>1 DEF IInv, PhaseSound, SearchedSound, CurrentSound
  <1>10. PendingSound'
    BY <1>1 DEF IInv, PendingSound
  <1>11. DecodeSound'
    BY <1>1, <1>2 DEF IInv, DecodeSound
  <1>12. QED
    BY <1>3, <1>4, <1>5, <1>6, <1>7, <1>8, <1>9, <1>10, <1>11 DEF IInv

-----------------------------------------------------------------------------
(***************************************************************************)
(* A packet is archived, or taken from the list of pending packets.        *)
(***************************************************************************)
\* What a scan holds stays so while the packets in it keep their status.
LEMMA SlotsKept ==
    ASSUME NEW d, NEW e, NEW ok, NEW k, NEW m, NEW fragments, SlotsSound(d, ok, k, m, fragments),
           \A q \in Packets(fragments) : q \in Archived(d) =>
               /\ q \in Archived(e)
               /\ e.packets[q].fragment = d.packets[q].fragment
               /\ e.packets[q].status = d.packets[q].status
    PROVE  SlotsSound(e, ok, k, m, fragments)
  <1>1. \A i \in Received(fragments) : fragments[i].packet \in Packets(fragments)
    BY DEF Packets
  <1>2. QED
    BY <1>1 DEF SlotsSound

\* A transaction on packets that are not in memory concerns neither the table nor the backlog.
LEMMA MemoryFrame ==
    ASSUME IInv, event = None, event' = None, reassembler' = reassembler, backlog' = backlog,
           profile' = profile, profiles' = profiles, left' = left,
           counts_restored' = counts_restored, quarantined' = quarantined, decodes' = decodes,
           db' \in Store, db'.scans = db.scans,
           \A q \in Archived(db) :
               q \in Archived(db') /\ db'.packets[q].fragment = db.packets[q].fragment,
           \A q \in Archived(db) : InMemory(reassembler, backlog, event, q) =>
               db'.packets[q].status = db.packets[q].status
    PROVE  /\ ActiveSound' /\ BacklogSound' /\ EventSound' /\ CountsSound' /\ CacheSound'
           /\ ProfilesSound' /\ ProfileSound'
  <1>1. \A k, m, fragments : Covers(db, k, m, fragments) => Covers(db', k, m, fragments)
    BY DEF Covers
  <1>2. ActiveSound'
    <2> SUFFICES ASSUME NEW k \in ActiveKeys(reassembler)
                 PROVE  SlotsSound(db', decodes, k, reassembler.active[k].metadata,
                                   reassembler.active[k].fragments)
      BY <1>1 DEF IInv, ActiveSound
    <2>1. \A q \in Packets(reassembler.active[k].fragments) : InMemory(reassembler, backlog, event, q)
      BY DEF InMemory, InTable
    <2>2. SlotsSound(db, decodes, k, reassembler.active[k].metadata, reassembler.active[k].fragments)
      BY DEF IInv, ActiveSound
    <2>3. QED
      BY <2>1, <2>2, SlotsKept
  <1>3. BacklogSound'
    <2> SUFFICES ASSUME NEW s \in backlog
                 PROVE  SlotsSound(db', decodes, s.key, s.metadata, s.fragments)
      BY <1>1 DEF IInv, BacklogSound
    <2>1. \A q \in Packets(s.fragments) : InMemory(reassembler, backlog, event, q)
      BY DEF InMemory
    <2>2. SlotsSound(db, decodes, s.key, s.metadata, s.fragments)
      BY DEF IInv, BacklogSound
    <2>3. QED
      BY <2>1, <2>2, SlotsKept
  <1>4. EventSound'
    BY DEF EventSound
  <1>5. CountsSound' /\ CacheSound'
    BY DEF IInv, CountsSound, CacheSound
  <1>6. ProfilesSound'
    BY DEF IInv, ProfilesSound
  <1>7. ProfileSound'
    BY DEF IInv, ProfileSound
  <1>8. QED
    BY <1>2, <1>3, <1>4, <1>5, <1>6, <1>7

\* A packet of the store is a packet.
LEMMA PendingType ==
    ASSUME NEW d
    PROVE  \A q \in WithStatus(d, "pending") : q # None /\ q \in PacketId /\ q \in Archived(d)
  BY PacketIdType DEF WithStatus, Archived

\* A pending packet is taken up, or quarantined because it no longer decodes.
LEMMA ReplayPendingStep ==
    ASSUME IInv, ReplayPending
    PROVE  IInv'
  <1> DEFINE p == Least(pending)
             f == db.packets[p].fragment
  <1>1. /\ phase = "replay" /\ stage = "idle" /\ pending # {}
        /\ current = None /\ backlog = {} /\ event = None /\ profiles = {} /\ profile = None
    BY DEF ReplayPending, IInv, PhaseSound, EventSound
  <1>2. p \in pending
    BY <1>1, LeastType, PacketIdType DEF IInv, TypeOK
  <1>3. /\ p \in Archived(db) /\ db.packets[p].status = "pending"
        /\ ~ InMemory(reassembler, backlog, event, p)
    BY <1>2 DEF IInv, PendingSound, WithStatus
  <1>4. p \in PacketId /\ p # None
    BY <1>3, ArchivedType DEF IInv, TypeOK
  <1>5. CASE f \in decodes
    <2>1. /\ current' = p /\ stage' = "reconcile" /\ pending' = pending \ {p} /\ clock' = clock + 1
          /\ db' = db /\ rejected' = rejected /\ exits' = exits /\ failure' = failure
          /\ phase' = phase /\ reassembler' = reassembler
          /\ profiles' = profiles /\ profile' = profile /\ left' = left
          /\ counts_restored' = counts_restored /\ quarantined' = quarantined
          /\ backlog' = backlog /\ event' = event
      BY <1>5 DEF ReplayPending, durable, restore, output
    <2> HIDE DEF p
    <2>2. decodes' = decodes
      BY <2>1 DEF decodes
    <2>3. TypeOK'
      BY <1>4, <2>1 DEF IInv, TypeOK
    <2>4. StoreSound(db') /\ FailureSound'
      BY <2>1 DEF IInv, FailureSound
    <2>5. /\ ActiveSound' /\ BacklogSound' /\ EventSound' /\ CountsSound' /\ CacheSound'
          /\ ProfilesSound' /\ ProfileSound'
      BY <1>1, <2>1, <2>2, MemoryFrame DEF IInv, TypeOK
    <2>6. PhaseSound'
      BY <1>1, <1>4, <2>1 DEF IInv, PhaseSound
    <2>7. SearchedSound'
      BY <2>1 DEF SearchedSound
    <2>8. CurrentSound'
      BY <1>3, <1>5, <2>1, <2>2 DEF CurrentSound, CurrentFragment
    <2>9. PendingSound'
      BY <1>1, <2>1, PendingType DEF IInv, PendingSound
    <2>10. DecodeSound'
      BY <1>1, <2>1, <2>2 DEF IInv, DecodeSound
    <2>11. QED
      BY <2>3, <2>4, <2>5, <2>6, <2>7, <2>8, <2>9, <2>10 DEF IInv
  <1>6. CASE f \notin decodes
    <2>1. /\ db' = quarantine_pending_profile_fragment(db, p) /\ pending' = pending \ {p}
          /\ rejected' = rejected /\ exits' = exits /\ failure' = failure
          /\ phase' = phase /\ reassembler' = reassembler /\ clock' = clock
          /\ profiles' = profiles /\ profile' = profile /\ left' = left
          /\ counts_restored' = counts_restored /\ quarantined' = quarantined
          /\ current' = current /\ stage' = stage /\ backlog' = backlog /\ event' = event
      BY <1>3, <1>6 DEF ReplayPending, durable, restore, fragment, output
    <2> HIDE DEF p
    <2>2. decodes' = decodes
      BY <2>1 DEF decodes
    <2>3. /\ db' \in Store /\ StoreSound(db')
          /\ Archived(db') = Archived(db) /\ db'.scans = db.scans
          /\ \A q \in Archived(db) :
                /\ db'.packets[q].fragment = db.packets[q].fragment
                /\ db'.packets[q].status = IF q = p THEN "invalid" ELSE db.packets[q].status
      BY <1>3, <2>1, QuarantinePendingEffect DEF IInv, TypeOK
    <2>4. TypeOK'
      BY <2>1, <2>3 DEF IInv, TypeOK
    <2>5. /\ ActiveSound' /\ BacklogSound' /\ EventSound' /\ CountsSound' /\ CacheSound'
          /\ ProfilesSound' /\ ProfileSound'
      BY <1>1, <1>3, <2>1, <2>2, <2>3, MemoryFrame
    <2>6. PhaseSound' /\ FailureSound'
      BY <1>1, <2>1 DEF IInv, PhaseSound, FailureSound
    <2>7. SearchedSound' /\ CurrentSound'
      BY <1>1, <2>1 DEF SearchedSound, CurrentSound
    <2>8. WithStatus(db', "pending") = WithStatus(db, "pending") \ {p}
      BY <2>3 DEF WithStatus
    <2>9. PendingSound'
      BY <1>1, <2>1, <2>8 DEF IInv, PendingSound
    <2>10. DecodeSound'
      <3>1. \A row \in db.scans : \A i \in Received(row.fragments) :
               db'.packets[row.fragments[i]].fragment = db.packets[row.fragments[i]].fragment
        BY <2>3 DEF IInv, StoreSound, RowSound
      <3>2. QED
        BY <1>1, <2>1, <2>2, <2>3, <3>1 DEF IInv, DecodeSound
    <2>11. QED
      BY <2>3, <2>4, <2>5, <2>6, <2>7, <2>9, <2>10 DEF IInv
  <1>7. QED
    BY <1>5, <1>6

\* A packet from the radio is archived, and taken up if it decodes.
LEMMA ReceiveStep ==
    ASSUME IInv, NEW f \in Delivered, Receive(f)
    PROVE  IInv'
  <1> DEFINE p == Least(PacketId \ Archived(db))
  <1>1. /\ phase = "live" /\ stage = "idle" /\ backlog = {} /\ event = None
        /\ current = None /\ profiles = {} /\ profile = None /\ pending = {}
        /\ PacketId \ Archived(db) # {}
    BY DEF Receive, Idle, Written, IInv, PhaseSound, Archived
  <1>2. p \in PacketId /\ p \notin Archived(db) /\ p # None
    BY <1>1, LeastType, PacketIdType
  <1>3. /\ rejected' = rejected /\ exits' = exits /\ failure' = failure
        /\ phase' = phase /\ reassembler' = reassembler
        /\ profiles' = profiles /\ profile' = profile /\ left' = left
        /\ counts_restored' = counts_restored /\ quarantined' = quarantined
        /\ pending' = pending /\ backlog' = backlog /\ event' = event
    BY DEF Receive, restore, output
  <1>4. decodes' = decodes
    BY <1>3 DEF decodes
  <1>5. \/ /\ f \in decodes
           /\ db' = [db EXCEPT !.packets[p] = [fragment |-> f, status |-> "pending"]]
           /\ current' = p /\ stage' = "reconcile" /\ clock' = clock + 1
        \/ /\ f \notin decodes
           /\ db' = [db EXCEPT !.packets[p] = [fragment |-> f, status |-> "invalid"]]
           /\ current' = current /\ stage' = stage /\ clock' = clock
    BY DEF Receive, archive_v2_profile_fragment, archive_packet, fragment
  <1> HIDE DEF p
  <1>6. /\ db' \in Store /\ StoreSound(db')
        /\ Archived(db') = Archived(db) \cup {p}
        /\ db'.scans = db.scans
        /\ \A q \in Archived(db) : db'.packets[q] = db.packets[q]
        /\ db'.packets[p].fragment = f
        /\ db'.packets[p].status = IF f \in decodes THEN "pending" ELSE "invalid"
    <2>1. db \in Store /\ StoreSound(db)
      BY DEF IInv, TypeOK
    <2>2. CASE f \in decodes
      BY <1>2, <1>5, <2>1, <2>2, ArchiveEffect
    <2>3. CASE f \notin decodes
      BY <1>2, <1>5, <2>1, <2>3, ArchiveEffect
    <2>4. QED
      BY <2>2, <2>3
  <1>7. TypeOK'
    <2>1. /\ current' \in PacketId \cup {None} /\ clock' \in Nat
          /\ stage' \in {"idle", "reconcile", "ingest", "handle"}
      BY <1>2, <1>5 DEF IInv, TypeOK
    <2>2. QED
      BY <1>3, <1>6, <2>1 DEF IInv, TypeOK
  <1>8. /\ ActiveSound' /\ BacklogSound' /\ EventSound' /\ CountsSound' /\ CacheSound'
        /\ ProfilesSound' /\ ProfileSound'
    BY <1>1, <1>3, <1>4, <1>6, MemoryFrame
  <1>9. PhaseSound' /\ FailureSound'
    BY <1>1, <1>2, <1>3, <1>5 DEF IInv, PhaseSound, FailureSound
  <1>10. SearchedSound'
    BY <1>1, <1>5 DEF SearchedSound
  <1>11. \A q : InMemory(reassembler, backlog, event, q) => q \in Archived(db)
    BY <1>1 DEF IInv, ActiveSound, SlotsSound, InMemory, InTable, Packets
  <1>12. CurrentSound'
    BY <1>1, <1>2, <1>3, <1>4, <1>5, <1>6, <1>11 DEF CurrentSound, CurrentFragment
  <1>13. PendingSound'
    <2>1. \A q \in WithStatus(db', "pending") :
            q \in WithStatus(db, "pending") \/ q = current'
      BY <1>5, <1>6 DEF WithStatus
    <2>2. QED
      BY <1>1, <1>3, <2>1, PendingType DEF IInv, PendingSound
  <1>14. DecodeSound'
    <2>1. \A row \in db.scans : \A i \in Received(row.fragments) :
             db'.packets[row.fragments[i]] = db.packets[row.fragments[i]]
      BY <1>6 DEF IInv, StoreSound, RowSound
    <2>2. QED
      BY <1>1, <1>3, <1>4, <1>6, <2>1 DEF IInv, DecodeSound
  <1>15. QED
    BY <1>6, <1>7, <1>8, <1>9, <1>10, <1>12, <1>13, <1>14 DEF IInv

-----------------------------------------------------------------------------
(***************************************************************************)
(* Rows are restored.                                                      *)
(***************************************************************************)
\* The next row to be replayed is one of those loaded, and its key has no complete row: neither
\* coalesce_incomplete_profile_into_completed nor its error is ever reached.
LEMMA OpenProfileStep ==
    ASSUME IInv, OpenProfile
    PROVE  IInv'
  <1>1. backlog = {} /\ event = None /\ profile = None /\ profiles # {}
    BY DEF OpenProfile, Written
  <1>2. PICK row : row = NextProfile
    OBVIOUS
  <1>3. profiles \in SUBSET ScanRow
    BY DEF IInv, TypeOK
  <1>4. row \in profiles /\ row \in ScanRow
    <2>1. NextProfile \in profiles
      BY <1>1, <1>3, FirstRow DEF NextProfile
    <2>2. QED
      BY <1>2, <1>3, <2>1
  <1>5. /\ row \in db.scans
        /\ ~ TransportComplete(row)
        /\ row.key \notin ActiveKeys(reassembler)
        /\ row.key \notin quarantined
    BY <1>4 DEF IInv, ProfilesSound
  <1>6. \A r \in db.scans : r.key = row.key => r = row
    BY <1>5 DEF IInv, StoreSound, OneRow
  <1>7. CompleteRows(db, row.key) = {}
    BY <1>5, <1>6 DEF CompleteRows
  <1>8. /\ profiles' = profiles \ {row} /\ profile' = row /\ left' = Received(row.fragments)
        /\ counts_restored' = FALSE
        /\ db' = db /\ rejected' = rejected /\ exits' = exits /\ failure' = failure
        /\ phase' = phase /\ reassembler' = reassembler /\ clock' = clock
        /\ quarantined' = quarantined /\ pending' = pending
        /\ current' = current /\ stage' = stage /\ backlog' = backlog /\ event' = event
    BY <1>2, <1>5, <1>7 DEF OpenProfile, durable, fragment, output
  <1>9. decodes' = decodes /\ CurrentFragment' = CurrentFragment
    BY <1>8 DEF decodes, CurrentFragment
  <1>10. row # None /\ Received(row.fragments) \subseteq Index
    BY <1>4, RowType
  <1>11. TypeOK'
    BY <1>4, <1>8, <1>10 DEF IInv, TypeOK
  <1>12. StoreSound(db') /\ FailureSound'
    BY <1>8 DEF IInv, FailureSound
  <1>13. ActiveSound'
    BY <1>1, <1>8, <1>9 DEF IInv, ActiveSound, Restoring
  <1>14. BacklogSound' /\ EventSound'
    BY <1>1, <1>8 DEF BacklogSound, EventSound
  <1>15. CountsSound' /\ CacheSound'
    BY <1>8 DEF IInv, CountsSound, CacheSound
  <1>16. ProfilesSound'
    <2>1. \A r \in profiles \ {row} : r.key # row.key
      BY <1>6 DEF IInv, ProfilesSound
    <2>2. QED
      BY <1>1, <1>8, <2>1 DEF IInv, ProfilesSound, Restoring
  <1>17. ProfileSound'
    <2>1. ~ counts_restored'
      BY <1>8
    <2>2. QED
      BY <1>5, <1>8, <2>1 DEF ProfileSound
  <1>18. PhaseSound'
    BY <1>1, <1>8 DEF IInv, PhaseSound
  <1>19. SearchedSound'
    BY <1>1, <1>4, <1>6, <1>8, <1>9, <1>10 DEF IInv, SearchedSound, Restoring
  <1>20. CurrentSound' /\ PendingSound'
    BY <1>8, <1>9 DEF IInv, CurrentSound, PendingSound
  <1>21. DecodeSound'
    <2>1. \A r \in db.scans : r # None
      BY RowType DEF IInv, TypeOK, Store
    <2>2. QED
      BY <1>1, <1>8, <1>9, <2>1 DEF IInv, DecodeSound
  <1>22. QED
    BY <1>11, <1>12, <1>13, <1>14, <1>15, <1>16, <1>17, <1>18, <1>19, <1>20, <1>21 DEF IInv

\* A row that is replayed to the end was restored with its counters: InternalState is never reached
\* here, and the active scan covers the row.
LEMMA CloseProfileStep ==
    ASSUME IInv, CloseProfile
    PROVE  IInv'
  <1>1. backlog = {} /\ event = None /\ profile # None /\ left = {}
    BY DEF CloseProfile, Written
  <1>2. profile \in db.scans /\ ~ TransportComplete(profile) /\ Received(profile.fragments) # {}
    BY <1>1 DEF IInv, ProfileSound, StoreSound, RowSound
  <1>3. counts_restored /\ Replayed(reassembler, profile, left)
    BY <1>1, <1>2 DEF IInv, ProfileSound
  <1>4. /\ profile' = None
        /\ db' = db /\ rejected' = rejected /\ exits' = exits /\ failure' = failure
        /\ phase' = phase /\ reassembler' = reassembler /\ clock' = clock
        /\ profiles' = profiles /\ left' = left
        /\ counts_restored' = counts_restored /\ quarantined' = quarantined /\ pending' = pending
        /\ current' = current /\ stage' = stage /\ backlog' = backlog /\ event' = event
    BY <1>3 DEF CloseProfile, durable, fragment, output
  <1>5. decodes' = decodes /\ CurrentFragment' = CurrentFragment
    BY <1>4 DEF decodes, CurrentFragment
  <1>6. TypeOK'
    BY <1>4 DEF IInv, TypeOK
  <1>7. StoreSound(db') /\ FailureSound'
    BY <1>4 DEF IInv, FailureSound
  <1>8. PICK k : k = profile.key
    OBVIOUS
  <1>9. k \in ActiveKeys(reassembler)
        /\ Covers(db, k, reassembler.active[k].metadata, reassembler.active[k].fragments)
    <2>1. \A r \in db.scans : r.key = k => r = profile
      BY <1>2, <1>8 DEF IInv, StoreSound, OneRow
    <2>2. \A i \in Received(profile.fragments) :
            /\ i \in Received(reassembler.active[k].fragments)
            /\ reassembler.active[k].fragments[i].packet = profile.fragments[i]
      BY <1>1, <1>3, <1>8 DEF Replayed
    <2>3. \A i \in Received(reassembler.active[k].fragments) :
            reassembler.active[k].fragments[i] # None
      BY DEF Received
    <2>4. k \in ActiveKeys(reassembler) /\ reassembler.active[k].metadata = profile.metadata
      BY <1>3, <1>8 DEF Replayed
    <2>5. QED
      BY <1>2, <2>1, <2>2, <2>3, <2>4 DEF Covers
  <1>10. ActiveSound'
    BY <1>1, <1>4, <1>5, <1>8, <1>9 DEF IInv, ActiveSound, Restoring
  <1>11. BacklogSound' /\ EventSound'
    BY <1>1, <1>4 DEF BacklogSound, EventSound
  <1>12. CountsSound' /\ CacheSound'
    BY <1>4 DEF IInv, CountsSound, CacheSound
  <1>13. ProfilesSound' /\ ProfileSound'
    BY <1>1, <1>4 DEF IInv, ProfilesSound, ProfileSound, Restoring
  <1>14. PhaseSound'
    BY <1>4 DEF IInv, PhaseSound
  <1>15. SearchedSound'
    BY <1>1, <1>4, <1>5, <1>8, <1>9 DEF IInv, SearchedSound, Restoring
  <1>16. CurrentSound' /\ PendingSound'
    BY <1>4, <1>5 DEF IInv, CurrentSound, PendingSound
  <1>17. DecodeSound'
    BY <1>1, <1>4, <1>5 DEF IInv, DecodeSound
  <1>18. QED
    BY <1>6, <1>7, <1>10, <1>11, <1>12, <1>13, <1>14, <1>15, <1>16, <1>17 DEF IInv

\* A source of the row being replayed.
LEMMA NextSource ==
    ASSUME IInv, RestoreFragment
    PROVE  /\ backlog = {} /\ event = None
           /\ profile # None /\ profile \in db.scans /\ profile \in ScanRow
           /\ ~ TransportComplete(profile)
           /\ Least(left) \in left /\ Least(left) \in Received(profile.fragments)
           /\ Least(left) \in Index
           /\ profile.fragments[Least(left)] \in Archived(db)
           /\ profile.fragments[Least(left)] \in Linked(profile)
           /\ db.packets[profile.fragments[Least(left)]].fragment.key = profile.key
           /\ db.packets[profile.fragments[Least(left)]].fragment.metadata = profile.metadata
           /\ db.packets[profile.fragments[Least(left)]].fragment.fragment_index = Least(left)
           /\ db.packets[profile.fragments[Least(left)]].status = "incomplete"
           /\ \A r \in db.scans : r.key = profile.key => r = profile
  <1>1. backlog = {} /\ event = None /\ profile # None /\ left # {}
    BY DEF RestoreFragment, Written
  <1>2. profile \in db.scans /\ ~ TransportComplete(profile) /\ left \subseteq Received(profile.fragments)
    BY <1>1 DEF IInv, ProfileSound
  <1>3. profile \in ScanRow
    BY <1>2 DEF IInv, TypeOK, Store
  <1>4. left \subseteq Index /\ Index \subseteq Nat
    BY ReassemblyAssumption DEF IInv, TypeOK, Index
  <1>5. Least(left) \in left
    BY <1>1, <1>4, LeastType
  <1>6. PICK i : i = Least(left)
    OBVIOUS
  <1>7. i \in left /\ i \in Received(profile.fragments) /\ i \in Index
    BY <1>2, <1>4, <1>5, <1>6
  <1>8. RowSound(db, profile)
    BY <1>2 DEF IInv, StoreSound
  <1>9. /\ profile.fragments[i] \in Archived(db)
        /\ db.packets[profile.fragments[i]].fragment.key = profile.key
        /\ db.packets[profile.fragments[i]].fragment.metadata = profile.metadata
        /\ db.packets[profile.fragments[i]].fragment.fragment_index = i
        /\ db.packets[profile.fragments[i]].status = "incomplete"
    BY <1>2, <1>7, <1>8 DEF RowSound
  <1>10. profile.fragments[i] \in Linked(profile)
    BY <1>7 DEF Linked
  <1>11. \A r \in db.scans : r.key = profile.key => r = profile
    BY <1>2 DEF IInv, StoreSound, OneRow
  <1>12. QED
    BY <1>1, <1>2, <1>3, <1>6, <1>7, <1>9, <1>10, <1>11

\* A source that no longer decodes is met at startup only; its row is there, so MissingV2Packet is not
\* reached, and once it is dismantled nothing of its scan is left in memory.
LEMMA QuarantineStep ==
    ASSUME IInv, RestoreFragment,
           db.packets[profile.fragments[Least(left)]].fragment \notin decodes
    PROVE  IInv'
  <1>1. PICK i : i = Least(left)
    OBVIOUS
  <1>2. PICK p : p = profile.fragments[i]
    OBVIOUS
  <1>3. PICK k : k = profile.key
    OBVIOUS
  <1>4. /\ backlog = {} /\ event = None
        /\ profile # None /\ profile \in db.scans /\ profile \in ScanRow
        /\ ~ TransportComplete(profile)
        /\ i \in left /\ i \in Received(profile.fragments)
        /\ p \in Linked(profile)
        /\ \A r \in db.scans : r.key = k => r = profile
        /\ db.packets[p].fragment \notin decodes
    BY <1>1, <1>2, <1>3, NextSource
  <1>5. k \in Key
    BY <1>3, <1>4, RowType
  <1>6. ~ MissingV2Packet(db, profile.id, p)
    BY <1>4 DEF MissingV2Packet
  <1>7. phase = "restore"
    <2>1. profile \notin profiles
      BY <1>4 DEF IInv, ProfilesSound, Restoring
    <2>2. phase # "down"
      BY <1>4, DownEmpty
    <2>3. QED
      BY <1>2, <1>4, <2>1, <2>2 DEF IInv, DecodeSound
  <1>8. stage = "idle" /\ current = None /\ pending = {}
    BY <1>7 DEF IInv, PhaseSound
  <1>9. /\ db' = quarantine_incomplete_profile_fragment(db, decodes, k, p)
        /\ reassembler' = discard(reassembler, k)
        /\ quarantined' = quarantined \cup {k}
        /\ profile' = None /\ left' = {}
        /\ rejected' = rejected /\ exits' = exits /\ failure' = failure /\ phase' = phase
        /\ clock' = clock /\ profiles' = profiles /\ counts_restored' = counts_restored
        /\ pending' = pending /\ current' = current /\ stage' = stage
        /\ backlog' = backlog /\ event' = event
    BY <1>1, <1>2, <1>3, <1>6 DEF RestoreFragment, QuarantineSource, fragment, output
  <1>10. decodes' = decodes
    BY <1>9 DEF decodes
  <1>11. /\ db' \in Store /\ StoreSound(db') /\ OtherKeys(db, db', k)
         /\ Archived(db') = Archived(db)
         /\ db'.scans = {r \in db.scans : r.key # k}
    <2>1. Dismantled(db, db', decodes, k)
      BY <1>3, <1>4, <1>9, QuarantineEffect DEF IInv, TypeOK
    <2>2. QED
      BY <2>1 DEF Dismantled
  <1>12. /\ reassembler' \in Reassembler
         /\ \A j \in Key : reassembler'.active[j] = IF j = k THEN None ELSE reassembler.active[j]
         /\ \A j \in Key : reassembler'.completed[j] = IF j = k THEN None ELSE reassembler.completed[j]
    BY <1>5, <1>9, DiscardType DEF IInv, TypeOK
  <1>13. /\ ActiveKeys(reassembler') = ActiveKeys(reassembler) \ {k}
         /\ \A j \in ActiveKeys(reassembler') : reassembler'.active[j] = reassembler.active[j]
         /\ CompletedKeys(reassembler') = CompletedKeys(reassembler) \ {k}
    BY <1>12 DEF ActiveKeys, CompletedKeys
  <1>14. TypeOK'
    BY <1>5, <1>9, <1>11, <1>12 DEF IInv, TypeOK
  <1>15. FailureSound'
    BY <1>9 DEF IInv, FailureSound
  <1>16. ActiveSound'
    <2> SUFFICES ASSUME NEW j \in ActiveKeys(reassembler), j # k
                 PROVE  /\ SlotsSound(db', decodes, j, reassembler.active[j].metadata,
                                      reassembler.active[j].fragments)
                        /\ Received(reassembler.active[j].fragments) #
                              fragment_mask(reassembler.active[j].metadata)
                        /\ Covers(db', j, reassembler.active[j].metadata,
                                  reassembler.active[j].fragments)
      BY <1>10, <1>13 DEF ActiveSound
    <2>1. /\ SlotsSound(db, decodes, j, reassembler.active[j].metadata, reassembler.active[j].fragments)
          /\ Received(reassembler.active[j].fragments) # fragment_mask(reassembler.active[j].metadata)
          /\ Covers(db, j, reassembler.active[j].metadata, reassembler.active[j].fragments)
      BY <1>3 DEF IInv, ActiveSound, Restoring
    <2>2. QED
      BY <1>11, <2>1, SlotsFrame, CoversFrame
  <1>17. BacklogSound' /\ EventSound' /\ ProfileSound'
    BY <1>4, <1>9 DEF BacklogSound, EventSound, ProfileSound
  <1>18. CountsSound'
    BY <1>4, <1>9, <1>11, <1>13 DEF IInv, CountsSound
  <1>19. CacheSound'
    BY <1>4, <1>9, <1>11, <1>13 DEF IInv, CacheSound
  <1>20. ProfilesSound'
    BY <1>3, <1>4, <1>9, <1>11, <1>13 DEF IInv, ProfilesSound, Restoring
  <1>21. PhaseSound'
    BY <1>7, <1>8, <1>4, <1>9 DEF IInv, PhaseSound
  <1>22. SearchedSound' /\ CurrentSound'
    BY <1>8, <1>9 DEF SearchedSound, CurrentSound
  <1>23. PendingSound'
    <2> SUFFICES ASSUME NEW q \in WithStatus(db', "pending"), InMemory(reassembler', {}, None, q)
                 PROVE  FALSE
      BY <1>4, <1>7, <1>8, <1>9 DEF PendingSound
    <2>1. PICK j \in ActiveKeys(reassembler') : q \in Packets(reassembler'.active[j].fragments)
      BY DEF InMemory, InTable
    <2>2. j \in ActiveKeys(reassembler) /\ j # k /\ q \in Packets(reassembler.active[j].fragments)
      BY <1>13, <2>1
    <2>3. db.packets[q].fragment.key = j /\ q \in Archived(db)
      BY <2>2 DEF IInv, ActiveSound, SlotsSound, Packets
    <2>4. db'.packets[q].status = db.packets[q].status
      BY <1>11, <2>2, <2>3 DEF OtherKeys
    <2>5. q \in WithStatus(db, "pending")
      BY <2>3, <2>4 DEF WithStatus
    <2>6. InMemory(reassembler, backlog, event, q)
      BY <2>2 DEF InMemory, InTable
    <2>7. QED
      BY <1>7, <2>5, <2>6 DEF IInv, PendingSound
  <1>24. DecodeSound'
    <2>1. \A row \in db.scans : \A j \in Received(row.fragments) :
             db'.packets[row.fragments[j]].fragment = db.packets[row.fragments[j]].fragment
      BY <1>11 DEF IInv, StoreSound, RowSound, OtherKeys
    <2>2. \A row \in db'.scans : row \in db.scans /\ row # profile
      BY <1>3, <1>11
    <2>3. QED
      BY <1>7, <1>9, <1>10, <2>1, <2>2 DEF IInv, DecodeSound
  <1>25. QED
    BY <1>11, <1>14, <1>15, <1>16, <1>17, <1>18, <1>19, <1>20, <1>21, <1>22, <1>23, <1>24 DEF IInv

-----------------------------------------------------------------------------
(***************************************************************************)
(* An ingest makes room for scan k: scan v, if any, moves from the table   *)
(* to the backlog.                                                         *)
(***************************************************************************)
Room(r, s, k, v, out) ==
    /\ s \in Reassembler
    /\ v \in EvictionChoices(r, k)
    /\ v = None \/ (v \in ActiveKeys(r) /\ v # k)
    /\ \A j \in Key : j # k => s.active[j] = IF j = v THEN None ELSE r.active[j]
    /\ out = {Evicted(r, v)} \ {None}

\* No scan is lost, and none is in both places.
LEMMA RoomMemory ==
    ASSUME NEW r \in Reassembler, NEW s, NEW k \in Key, NEW v, NEW out, Room(r, s, k, v, out)
    PROVE  /\ out \subseteq ReassembledProfile
           /\ \A j \in ActiveKeys(s) : j # k => j \in ActiveKeys(r) /\ s.active[j] = r.active[j]
           /\ \A t \in out :
                 /\ t.key \in ActiveKeys(r)
                 /\ t.key # k
                 /\ t.key \notin ActiveKeys(s)
                 /\ t.metadata = r.active[t.key].metadata
                 /\ t.fragments = r.active[t.key].fragments
           /\ \A t, u \in out : t = u
           /\ \A j \in ActiveKeys(r) : j # k =>
                 j \in ActiveKeys(s) \/ \E t \in out : t.fragments = r.active[j].fragments
           /\ out = {} => \A j \in ActiveKeys(r) : j # k => j \in ActiveKeys(s)
  <1>1. CASE v = None
    <2>1. out = {}
      BY <1>1 DEF Room, Evicted
    <2>2. \A j \in Key : j # k => s.active[j] = r.active[j]
      BY <1>1, ReassemblyAssumption DEF Room
    <2>3. QED
      BY <2>1, <2>2 DEF ActiveKeys
  <1>2. CASE v # None
    <2>1. v \in ActiveKeys(r) /\ v # k /\ v \in Key /\ r.active[v] \in ActiveProfile
      BY <1>2, ActiveType DEF Room
    <2>2. PICK t : t = finish(v, r.active[v])
      OBVIOUS
    <2>3. /\ t \in ReassembledProfile /\ t # None /\ t.key = v
          /\ t.metadata = r.active[v].metadata /\ t.fragments = r.active[v].fragments
      BY <2>1, <2>2, FinishType
    <2>4. out = {t}
      BY <1>2, <2>2, <2>3 DEF Room, Evicted
    <2>5. \A j \in Key : j # k => s.active[j] = IF j = v THEN None ELSE r.active[j]
      BY DEF Room
    <2>6. /\ v \notin ActiveKeys(s)
          /\ \A j \in ActiveKeys(s) : j # k => j \in ActiveKeys(r) /\ s.active[j] = r.active[j]
          /\ \A j \in ActiveKeys(r) : j # k => j \in ActiveKeys(s) \/ j = v
      BY <2>1, <2>5 DEF ActiveKeys
    <2>7. QED
      BY <2>1, <2>3, <2>4, <2>6
  <1>3. QED
    BY <1>1, <1>2

\* What the invariant says of the other scans, after an ingest has made room for scan k.
LEMMA RoomSound ==
    ASSUME IInv, NEW k \in Key, NEW v, Room(reassembler, reassembler', k, v, backlog'),
           \A j : Restoring(profile, j) => j = k,
           db' = db, decodes' = decodes, profile' = profile
    PROVE  /\ BacklogSound'
           /\ \A j \in ActiveKeys(reassembler') : j # k =>
                 /\ SlotsSound(db', decodes', j, reassembler'.active[j].metadata,
                               reassembler'.active[j].fragments)
                 /\ Received(reassembler'.active[j].fragments) #
                       fragment_mask(reassembler'.active[j].metadata)
                 /\ Covers(db', j, reassembler'.active[j].metadata,
                           reassembler'.active[j].fragments)
  <1>1. reassembler \in Reassembler
    BY DEF IInv, TypeOK
  <1>2. /\ \A j \in ActiveKeys(reassembler') :
              j # k => j \in ActiveKeys(reassembler) /\ reassembler'.active[j] = reassembler.active[j]
        /\ \A t \in backlog' :
              /\ t.key \in ActiveKeys(reassembler)
              /\ t.key # k
              /\ t.key \notin ActiveKeys(reassembler')
              /\ t.metadata = reassembler.active[t.key].metadata
              /\ t.fragments = reassembler.active[t.key].fragments
        /\ \A t, u \in backlog' : t = u
    BY <1>1, RoomMemory
  <1>3. \A j \in ActiveKeys(reassembler) : j # k =>
           /\ SlotsSound(db, decodes, j, reassembler.active[j].metadata, reassembler.active[j].fragments)
           /\ Received(reassembler.active[j].fragments) # fragment_mask(reassembler.active[j].metadata)
           /\ Covers(db, j, reassembler.active[j].metadata, reassembler.active[j].fragments)
           /\ ~ Restoring(profile, j)
    BY DEF IInv, ActiveSound
  <1>4. BacklogSound'
    BY <1>2, <1>3 DEF BacklogSound
  <1>5. QED
    BY <1>2, <1>3, <1>4

\* The packets in memory after an ingest: those of scan k, and those of the other scans.
LEMMA RoomPackets ==
    ASSUME NEW r \in Reassembler, NEW s, NEW k \in Key, NEW v, NEW out, Room(r, s, k, v, out),
           NEW q
    PROVE  /\ InTable(r, q) =>
                 \/ InMemory(s, out, None, q)
                 \/ k \in ActiveKeys(r) /\ q \in Packets(r.active[k].fragments)
           /\ InMemory(s, out, None, q) =>
                 \/ InTable(r, q)
                 \/ k \in ActiveKeys(s) /\ q \in Packets(s.active[k].fragments)
  <1>1. /\ \A j \in ActiveKeys(s) : j # k => j \in ActiveKeys(r) /\ s.active[j] = r.active[j]
        /\ \A t \in out :
              t.key \in ActiveKeys(r) /\ t.fragments = r.active[t.key].fragments
        /\ \A j \in ActiveKeys(r) : j # k =>
              j \in ActiveKeys(s) \/ \E t \in out : t.fragments = r.active[j].fragments
    BY RoomMemory
  <1>2. InTable(r, q) => InMemory(s, out, None, q)
                          \/ (k \in ActiveKeys(r) /\ q \in Packets(r.active[k].fragments))
    BY <1>1 DEF InTable, InMemory
  <1>3. InMemory(s, out, None, q) => InTable(r, q)
                          \/ (k \in ActiveKeys(s) /\ q \in Packets(s.active[k].fragments))
    BY <1>1 DEF InTable, InMemory
  <1>4. QED
    BY <1>2, <1>3

\* The fragment f of packet p fills a slot of scan x, which is sound or new.
CanFill(d, ok, r, f, p, t, x) ==
    /\ d \in Store /\ r \in Reassembler /\ t \in Nat
    /\ p \in Archived(d)
    /\ f = d.packets[p].fragment
    /\ d.packets[p].status \in {"pending", "incomplete"}
    /\ f \in ok
    /\ FillsSlot(r, f, t, x)
    /\ f.key \in ActiveKeys(r) =>
          SlotsSound(d, ok, f.key, r.active[f.key].metadata, r.active[f.key].fragments)

\* Scan y is scan x with that slot filled.
Filled(d, ok, r, f, p, x, y) ==
    /\ SlotsSound(d, ok, f.key, f.metadata, y.fragments)
    /\ y \in ActiveProfile
    /\ y.metadata = f.metadata
    /\ y.duplicates = x.duplicates
    /\ y.conflicts = x.conflicts
    /\ Received(y.fragments) = Received(x.fragments) \cup {f.fragment_index}
    /\ y.fragments[f.fragment_index].packet = p
    /\ \A i \in Index : i # f.fragment_index => y.fragments[i] = x.fragments[i]
    /\ Packets(y.fragments) = Packets(x.fragments) \cup {p}
    /\ f.key \notin ActiveKeys(r) => Received(x.fragments) = {} /\ Packets(x.fragments) = {}
    /\ f.key \in ActiveKeys(r) => x = r.active[f.key]

\* A fragment that fills a slot of a sound scan, or opens one, leaves it sound.
LEMMA FillSoundTyped ==
    ASSUME NEW d, NEW ok, NEW r \in Reassembler, NEW f \in OwnedFragment, NEW p \in Archived(d),
           NEW t \in Nat, NEW x, FillsSlot(r, f, t, x),
           p \in PacketId,
           f \in ok, d.packets[p].fragment = f, d.packets[p].status \in {"pending", "incomplete"},
           f.key \in ActiveKeys(r) =>
               SlotsSound(d, ok, f.key, r.active[f.key].metadata, r.active[f.key].fragments)
    PROVE  Filled(d, ok, r, f, p, x, Accept(x, f, p, t))
  <1>1. /\ x \in ActiveProfile
        /\ x.metadata = f.metadata
        /\ f.key \in ActiveKeys(r) => x = r.active[f.key]
        /\ f.key \notin ActiveKeys(r) => x = NewActive(f, t)
        /\ x.fragments[f.fragment_index] = None
    BY FragmentType DEF FillsSlot, contains_active, ActiveKeys
  <1>2. f.key \notin ActiveKeys(r) => Received(x.fragments) = {} /\ Packets(x.fragments) = {}
    BY <1>1, NewActiveType DEF Packets
  <1>3. \A i \in Received(x.fragments) :
          /\ x.fragments[i].packet \in Archived(d)
          /\ d.packets[x.fragments[i].packet].fragment = x.fragments[i].fragment
          /\ x.fragments[i].fragment.key = f.key
          /\ x.fragments[i].fragment.metadata = f.metadata
          /\ x.fragments[i].fragment.fragment_index = i
          /\ x.fragments[i].fragment \in ok
          /\ d.packets[x.fragments[i].packet].status \in {"pending", "incomplete"}
    <2>1. CASE f.key \in ActiveKeys(r)
      <3>1. SlotsSound(d, ok, f.key, f.metadata, x.fragments)
        BY <1>1, <2>1
      <3>2. QED
        BY Zenon, <3>1 DEF SlotsSound
    <2>2. CASE f.key \notin ActiveKeys(r)
      BY <1>2, <2>2
    <2>3. QED
      BY <2>1, <2>2
  <1> DEFINE y == Accept(x, f, p, t)
  <1>4. /\ y \in ActiveProfile /\ y.metadata = f.metadata
        /\ y.duplicates = x.duplicates /\ y.conflicts = x.conflicts
    BY <1>1, AcceptType
  <1>5. /\ Received(y.fragments) = Received(x.fragments) \cup {f.fragment_index}
        /\ y.fragments[f.fragment_index] = [fragment |-> f, packet |-> p]
        /\ \A i \in Index : i # f.fragment_index => y.fragments[i] = x.fragments[i]
    BY <1>1, ReceivedAccept
  <1>6. Packets(y.fragments) = Packets(x.fragments) \cup {p}
    BY <1>1, PacketsAccept
  <1> HIDE DEF y
  <1>7. y.fragments[f.fragment_index].packet = p /\ y.fragments[f.fragment_index].fragment = f
    BY <1>5
  <1>8. SlotsSound(d, ok, f.key, f.metadata, y.fragments)
    <2> SUFFICES ASSUME NEW i \in Received(y.fragments)
                 PROVE  /\ y.fragments[i].packet \in Archived(d)
                        /\ d.packets[y.fragments[i].packet].fragment = y.fragments[i].fragment
                        /\ y.fragments[i].fragment.key = f.key
                        /\ y.fragments[i].fragment.metadata = f.metadata
                        /\ y.fragments[i].fragment.fragment_index = i
                        /\ y.fragments[i].fragment \in ok
                        /\ d.packets[y.fragments[i].packet].status \in {"pending", "incomplete"}
      BY Zenon, <1>5 DEF SlotsSound
    <2>1. CASE i = f.fragment_index
      BY <1>7, <2>1
    <2>2. CASE i # f.fragment_index
      <3>1. i \in Received(x.fragments) /\ i \in Index
        BY <1>5, <2>2 DEF Received
      <3>2. y.fragments[i] = x.fragments[i]
        BY <1>5, <2>2, <3>1
      <3>3. QED
        BY <1>3, <3>1, <3>2
    <2>3. QED
      BY <2>1, <2>2
  <1>9. QED
    BY <1>1, <1>2, <1>4, <1>5, <1>6, <1>7, <1>8 DEF y, Filled

\* The same, from the store alone.
LEMMA FillSound ==
    ASSUME NEW d, NEW ok, NEW r, NEW f, NEW p, NEW t, NEW x, CanFill(d, ok, r, f, p, t, x)
    PROVE  Filled(d, ok, r, f, p, x, Accept(x, f, p, t))
  <1>1. d \in Store /\ p \in Archived(d) /\ f = d.packets[p].fragment
    BY DEF CanFill
  <1>2. f \in OwnedFragment /\ p \in PacketId
    BY <1>1, ArchivedType
  <1>3. QED
    BY <1>1, <1>2, FillSoundTyped DEF CanFill

-----------------------------------------------------------------------------
(***************************************************************************)
(* A source of a row is replayed.                                          *)
(***************************************************************************)
\* Scan k of the fragment f of packet p became y; its counters are those of row.
Replay(k, f, p, x) ==
    /\ FillsSlot(reassembler, f, clock, x)
    /\ k \in ActiveKeys(reassembler')
    /\ reassembler'.active[k].metadata = Accept(x, f, p, clock).metadata
    /\ reassembler'.active[k].fragments = Accept(x, f, p, clock).fragments
    /\ Received(reassembler'.active[k].fragments) # fragment_mask(f.metadata)
    /\ IF k \in ActiveKeys(reassembler)
       THEN /\ reassembler'.active[k].duplicates = x.duplicates
            /\ reassembler'.active[k].conflicts = x.conflicts
       ELSE /\ reassembler'.active[k].duplicates = profile.duplicates
            /\ reassembler'.active[k].conflicts = profile.conflicts
    /\ reassembler'.completed = reassembler.completed

\* A counter joins a new scan as it is.
LEMMA AddToZero ==
    ASSUME NEW n \in Count
    PROVE  saturating_add(0, n) = n
  BY ReassemblyAssumption DEF saturating_add, Count

\* The slots of a scan after it accepted a fragment.
LEMMA AcceptReceives ==
    ASSUME NEW x \in ActiveProfile, NEW f \in OwnedFragment, NEW p \in PacketId, NEW t \in Nat,
           NEW fr, fr = Accept(x, f, p, t).fragments
    PROVE  \A i : i \in Received(fr) <=> i \in Received(x.fragments) \/ i = f.fragment_index
  <1>1. /\ Received(Accept(x, f, p, t).fragments) = Received(x.fragments) \cup {f.fragment_index}
        /\ Accept(x, f, p, t).fragments[f.fragment_index] = [fragment |-> f, packet |-> p]
        /\ \A i \in Index :
              i # f.fragment_index => Accept(x, f, p, t).fragments[i] = x.fragments[i]
    BY ReceivedAccept
  <1>2. Received(fr) = Received(x.fragments) \cup {f.fragment_index}
    BY <1>1
  <1>3. QED
    BY <1>2

\* The source that RestoreFragment takes next decodes: its index, its packet, the fragment stored for
\* it and the key of the scan.
SourceInHand(i, p, f, k) ==
    /\ i = Least(left) /\ p = profile.fragments[i] /\ k = profile.key
    /\ f = db.packets[p].fragment /\ f \in decodes

\* The fragment always fills a slot and never completes the scan: no event comes of a restore.
LEMMA SourceReplayed ==
    ASSUME IInv, RestoreFragment, NEW i, NEW p, NEW f, NEW k, SourceInHand(i, p, f, k)
    PROVE  /\ \E v, x : Room(reassembler, reassembler', k, v, backlog') /\ Replay(k, f, p, x)
           /\ event' = None /\ counts_restored' = TRUE /\ left' = left \ {i}
           /\ clock' \in Nat
           /\ db' = db /\ rejected' = rejected /\ exits' = exits /\ failure' = failure
           /\ phase' = phase /\ profiles' = profiles /\ profile' = profile
           /\ quarantined' = quarantined /\ pending' = pending
           /\ current' = current /\ stage' = stage
  <1>0. /\ i = Least(left) /\ p = profile.fragments[i] /\ f = db.packets[p].fragment
        /\ k = profile.key /\ f \in decodes
    BY DEF SourceInHand
  <1>1. /\ backlog = {} /\ event = None
        /\ profile # None /\ profile \in db.scans /\ profile \in ScanRow
        /\ ~ TransportComplete(profile)
        /\ i \in left /\ i \in Received(profile.fragments) /\ i \in Index
        /\ p \in Archived(db) /\ f.key = k /\ f.metadata = profile.metadata /\ f.fragment_index = i
        /\ \A r \in db.scans : r.key = k => r = profile
    BY <1>0, NextSource
  <1>2. /\ reassembler \in Reassembler /\ clock \in Nat /\ db \in Store
        /\ counts_restored \in BOOLEAN
    BY DEF IInv, TypeOK
  <1>3. /\ f \in OwnedFragment /\ p \in PacketId /\ k \in Key
        /\ f.fragment_index \in fragment_mask(f.metadata)
        /\ profile.duplicates \in Count /\ profile.conflicts \in Count
    BY <1>0, <1>1, <1>2, ArchivedType, RowType
  <1>4. reassembler.completed[k] = None
    BY <1>1, <1>3 DEF IInv, CacheSound, CompletedKeys
  <1>5. /\ counts_restored <=> k \in ActiveKeys(reassembler)
        /\ contains_active(reassembler, k) <=> k \in ActiveKeys(reassembler)
        /\ k \in ActiveKeys(reassembler) => Replayed(reassembler, profile, left)
    <2>1. ProfileSound
      BY DEF IInv
    <2>2. \/ ~ counts_restored /\ k \notin ActiveKeys(reassembler)
          \/ counts_restored /\ Replayed(reassembler, profile, left)
      BY <1>0, <1>1, <2>1 DEF ProfileSound
    <2>3. Replayed(reassembler, profile, left) => k \in ActiveKeys(reassembler)
      BY <1>0 DEF Replayed
    <2>4. contains_active(reassembler, k) <=> k \in ActiveKeys(reassembler)
      BY <1>3 DEF contains_active, ActiveKeys
    <2>5. QED
      BY <2>2, <2>3, <2>4
  <1> DEFINE before == counts_restored \/ contains_active(reassembler, profile.key)
             ready  == IF counts_restored THEN reassembler ELSE WithCounts(reassembler)
  <1>6. before <=> k \in ActiveKeys(reassembler)
    BY <1>0, <1>5
  <1>7. ready = reassembler
    BY <1>0, <1>5 DEF WithCounts
  <1>8. /\ ReplaySource
        /\ db' = db /\ rejected' = rejected /\ exits' = exits /\ failure' = failure
        /\ phase' = phase /\ profiles' = profiles /\ profile' = profile
        /\ quarantined' = quarantined /\ pending' = pending
        /\ current' = current /\ stage' = stage
        /\ left' = left \ {i}
        /\ clock' = IF phase = "restore" THEN clock + 1 ELSE clock
    BY Zenon, <1>0 DEF RestoreFragment, ReplaySource, durable, fragment
  <1>9. PICK v \in Victims(ready, f) :
          LET call == ingest_at(ready, f, p, clock, v)
          IN /\ reassembler' = IF before THEN call.state ELSE WithCounts(call.state)
             /\ counts_restored' = (before \/ contains_active(call.state, profile.key))
             /\ backlog' = {call.result.evicted} \ {None}
             /\ event' = EventOf(call.result, p)
    BY Zenon, <1>0, <1>8 DEF ReplaySource
  <1> DEFINE call == IngestActive(reassembler, f, p, clock, v)
  <1>10. v \in EvictionChoices(reassembler, k)
    BY <1>1, <1>4, <1>7, <1>9 DEF Victims
  <1>11. ingest_at(ready, f, p, clock, v) = call
    BY <1>1, <1>4, <1>7 DEF ingest_at
  <1>12. /\ reassembler' = IF before THEN call.state ELSE WithCounts(call.state)
         /\ counts_restored' = (before \/ contains_active(call.state, k))
         /\ backlog' = {call.result.evicted} \ {None}
         /\ event' = EventOf(call.result, p)
    BY Zenon, <1>0, <1>9, <1>11
  <1>13. /\ call.state \in Reassembler
         /\ call.result.evicted = Evicted(reassembler, v)
         /\ \/ CountedCase(reassembler, call.state, call.result, f, v)
            \/ PendingCase(reassembler, call.state, call.result, f, p, clock, v)
            \/ CompleteCase(reassembler, call.state, call.result, f, p, clock, v)
    BY <1>1, <1>2, <1>3, <1>10, IngestActiveCases
  <1>14. v = None \/ (v \in ActiveKeys(reassembler) /\ v # k)
    BY <1>2, <1>3, <1>10, EvictionChoicesType
  <1> HIDE DEF call, before, ready
  \* The scan, if active, has the metadata of the row and not yet this source.
  <1>15. k \in ActiveKeys(reassembler) =>
           /\ reassembler.active[k].metadata = f.metadata
           /\ reassembler.active[k].fragments[i] = None
           /\ Received(reassembler.active[k].fragments) = Received(profile.fragments) \ left
    <2> SUFFICES ASSUME k \in ActiveKeys(reassembler)
                 PROVE  /\ reassembler.active[k].metadata = f.metadata
                        /\ reassembler.active[k].fragments[i] = None
                        /\ Received(reassembler.active[k].fragments) = Received(profile.fragments) \ left
      OBVIOUS
    <2>1. /\ reassembler.active[k].metadata = profile.metadata
          /\ Received(reassembler.active[k].fragments) = Received(profile.fragments) \ left
      BY <1>0, <1>5 DEF Replayed
    <2>2. i \notin Received(reassembler.active[k].fragments)
      BY <1>1, <2>1
    <2>3. reassembler.active[k].fragments[i] = None
      BY <1>1, <2>2 DEF Received
    <2>4. QED
      BY <1>1, <2>1, <2>3
  <1>16. ASSUME NEW x, FillsSlot(reassembler, f, clock, x)
         PROVE  /\ Received(Accept(x, f, p, clock).fragments) # fragment_mask(f.metadata)
                /\ Accept(x, f, p, clock) \in ActiveProfile
                /\ Accept(x, f, p, clock).duplicates = x.duplicates
                /\ Accept(x, f, p, clock).conflicts = x.conflicts
                /\ k \notin ActiveKeys(reassembler) => x.duplicates = 0 /\ x.conflicts = 0
    <2>1. x \in ActiveProfile
      BY <1>16 DEF FillsSlot
    <2>2. \A j : j \in Received(Accept(x, f, p, clock).fragments) <=>
                 j \in Received(x.fragments) \/ j = i
      <3>1. PICK t \in Nat : t = clock
        BY <1>2
      <3>2. PICK fr : fr = Accept(x, f, p, t).fragments
        OBVIOUS
      <3>3. f \in OwnedFragment
        BY <1>3
      <3>4. p \in PacketId
        BY <1>3
      <3>5. \A j : j \in Received(fr) <=> j \in Received(x.fragments) \/ j = f.fragment_index
        BY ONLY <2>1, <3>2, <3>3, <3>4, t \in Nat, AcceptReceives
      <3>6. QED
        BY <1>1, <3>1, <3>2, <3>5
    <2>3. /\ k \in ActiveKeys(reassembler) => x = reassembler.active[k]
          /\ k \notin ActiveKeys(reassembler) => x = NewActive(f, clock)
      BY <1>1, <1>5, <1>16 DEF FillsSlot
    <2>4. Received(x.fragments) \subseteq Received(profile.fragments)
      BY <1>2, <1>3, <1>15, <2>3, NewActiveType
    <2>5. Received(profile.fragments) \subseteq fragment_mask(f.metadata)
      <3> SUFFICES ASSUME NEW j \in Received(profile.fragments)
                   PROVE  j \in fragment_mask(f.metadata)
        OBVIOUS
      <3>1. RowSound(db, profile)
        BY <1>1 DEF IInv, StoreSound
      <3>2. PICK q \in Archived(db) : /\ db.packets[q].fragment.metadata = f.metadata
                                       /\ db.packets[q].fragment.fragment_index = j
        BY <1>1, <3>1 DEF RowSound
      <3>3. QED
        BY <1>2, <3>2, ArchivedType
    <2>6. Received(profile.fragments) # fragment_mask(f.metadata)
      BY <1>1 DEF TransportComplete
    <2>7. Received(Accept(x, f, p, clock).fragments) # fragment_mask(f.metadata)
      BY <1>1, <2>2, <2>4, <2>5, <2>6
    <2>8. k \notin ActiveKeys(reassembler) => x.duplicates = 0 /\ x.conflicts = 0
      BY <2>3 DEF NewActive
    <2>9. QED
      BY <1>2, <1>3, <2>1, <2>7, <2>8, AcceptType
  <1>17. ~ CountedCase(reassembler, call.state, call.result, f, v)
    <2> SUFFICES ASSUME CountedCase(reassembler, call.state, call.result, f, v)
                 PROVE  FALSE
      OBVIOUS
    <2>1. k \in ActiveKeys(reassembler)
      BY <1>1, <1>5 DEF CountedCase
    <2>2. /\ reassembler.active[k].metadata = f.metadata
          /\ reassembler.active[k].fragments[i] = None
      BY <1>15, <2>1
    <2>3. Verdict(reassembler.active[k], f) = "Accepted"
      BY <1>1, <2>2 DEF Verdict
    <2>4. call.result.event \in {"Duplicate", "Conflict"}
      BY DEF CountedCase
    <2>5. Evict(reassembler, v).active[k] = reassembler.active[k]
      BY <1>2, <1>3, <1>14, ReassemblyAssumption, EvictType DEF ActiveKeys
    <2>6. Entry(Evict(reassembler, v), f, clock) = reassembler.active[k]
      BY <1>1, <1>5, <2>1, <2>5 DEF Entry, contains_active
    <2>7. call.result.event \in {"Complete", "Pending"}
      BY <2>3, <2>6 DEF call, IngestActive, Result
    <2>8. QED
      BY <2>4, <2>7
  <1>18. ~ CompleteCase(reassembler, call.state, call.result, f, p, clock, v)
    BY <1>16 DEF CompleteCase
  <1>19. PICK x : /\ FillsSlot(reassembler, f, clock, x)
                  /\ call.result.event = "Pending"
                  /\ Received(Accept(x, f, p, clock).fragments) # fragment_mask(f.metadata)
                  /\ Table(reassembler, call.state, k, v, Accept(x, f, p, clock))
                  /\ call.state.completed = reassembler.completed
    BY <1>1, <1>13, <1>17, <1>18 DEF PendingCase
  <1>20. PICK y : y = Accept(x, f, p, clock)
    OBVIOUS
  <1>21. /\ y \in ActiveProfile /\ y # None
         /\ y.duplicates = x.duplicates /\ y.conflicts = x.conflicts
         /\ k \notin ActiveKeys(reassembler) => y.duplicates = 0 /\ y.conflicts = 0
    BY <1>16, <1>19, <1>20, NoneAssumption
  <1>22. /\ call.state.active[k] = y
         /\ \A j \in Key : j # k =>
               call.state.active[j] = IF j = v THEN None ELSE reassembler.active[j]
         /\ contains_active(call.state, k)
    BY <1>3, <1>19, <1>20, <1>21 DEF Table, contains_active
  <1>23. /\ reassembler' \in Reassembler
         /\ reassembler'.completed = reassembler.completed
         /\ \A j \in Key : j # k => reassembler'.active[j] = call.state.active[j]
         /\ reassembler'.active[k] # None
         /\ reassembler'.active[k].metadata = y.metadata
         /\ reassembler'.active[k].fragments = y.fragments
         /\ IF k \in ActiveKeys(reassembler)
            THEN /\ reassembler'.active[k].duplicates = x.duplicates
                 /\ reassembler'.active[k].conflicts = x.conflicts
            ELSE /\ reassembler'.active[k].duplicates = profile.duplicates
                 /\ reassembler'.active[k].conflicts = profile.conflicts
    <2>1. CASE k \in ActiveKeys(reassembler)
      <3>1. reassembler' = call.state
        BY <1>6, <1>12, <2>1
      <3>2. QED
        BY <1>13, <1>19, <1>21, <1>22, <2>1, <3>1
    <2>2. CASE k \notin ActiveKeys(reassembler)
      <3>1. reassembler' =
               restore_receiver_counts(call.state, k, profile.duplicates, profile.conflicts)
        BY <1>0, <1>6, <1>12, <1>22, <2>2 DEF WithCounts
      <3>2. /\ reassembler' \in Reassembler
            /\ reassembler'.completed = call.state.completed
            /\ \A j \in Key : j # k => reassembler'.active[j] = call.state.active[j]
            /\ reassembler'.active[k] \in ActiveProfile
            /\ reassembler'.active[k].metadata = y.metadata
            /\ reassembler'.active[k].fragments = y.fragments
            /\ reassembler'.active[k].duplicates = saturating_add(y.duplicates, profile.duplicates)
            /\ reassembler'.active[k].conflicts = saturating_add(y.conflicts, profile.conflicts)
        BY <1>3, <1>13, <1>22, <3>1, RestoreType
      <3>3. /\ saturating_add(y.duplicates, profile.duplicates) = profile.duplicates
            /\ saturating_add(y.conflicts, profile.conflicts) = profile.conflicts
        BY <1>3, <1>21, <2>2, AddToZero
      <3>4. QED
        BY <1>19, <2>2, <3>2, <3>3, NoneAssumption
    <2>3. QED
      BY <2>1, <2>2
  <1>24. Replay(k, f, p, x)
    <2>1. Received(reassembler'.active[k].fragments) # fragment_mask(f.metadata)
      BY <1>19, <1>20, <1>23
    <2>2. QED
      BY <1>3, <1>19, <1>20, <1>23, <2>1 DEF Replay, ActiveKeys
  <1>25. Room(reassembler, reassembler', k, v, backlog')
    BY <1>10, <1>12, <1>13, <1>14, <1>22, <1>23 DEF Room
  <1>26. event' = None
    BY <1>12, <1>19 DEF EventOf
  <1>27. counts_restored' = TRUE
    BY <1>12, <1>22
  <1>28. clock' \in Nat
    BY <1>2, <1>8
  <1>29. QED
    BY <1>8, <1>24, <1>25, <1>26, <1>27, <1>28

\* The same for the index, the packet, the fragment and the key read from the state.
LEMMA ReplayEffect ==
    ASSUME IInv, RestoreFragment, NEW i, i = Least(left), NEW p, p = profile.fragments[i],
           NEW f, f = db.packets[p].fragment, f \in decodes, NEW k, k = profile.key
    PROVE  /\ \E v, x : Room(reassembler, reassembler', k, v, backlog') /\ Replay(k, f, p, x)
           /\ event' = None /\ counts_restored' = TRUE /\ left' = left \ {i}
           /\ clock' \in Nat
           /\ db' = db /\ rejected' = rejected /\ exits' = exits /\ failure' = failure
           /\ phase' = phase /\ profiles' = profiles /\ profile' = profile
           /\ quarantined' = quarantined /\ pending' = pending
           /\ current' = current /\ stage' = stage
  BY SourceReplayed DEF SourceInHand

\* A source that decodes is replayed.
LEMMA ReplayStep ==
    ASSUME IInv, RestoreFragment,
           db.packets[profile.fragments[Least(left)]].fragment \in decodes
    PROVE  IInv'
  <1>1. PICK i : i = Least(left)
    OBVIOUS
  <1>2. PICK p : p = profile.fragments[i]
    OBVIOUS
  <1>3. PICK f : f = db.packets[p].fragment
    OBVIOUS
  <1>4. PICK k : k = profile.key
    OBVIOUS
  <1>5. f \in decodes
    BY <1>1, <1>2, <1>3
  <1>6. /\ \E v, x : Room(reassembler, reassembler', k, v, backlog') /\ Replay(k, f, p, x)
        /\ event' = None /\ counts_restored' = TRUE /\ left' = left \ {i}
        /\ clock' \in Nat
        /\ db' = db /\ rejected' = rejected /\ exits' = exits /\ failure' = failure
        /\ phase' = phase /\ profiles' = profiles /\ profile' = profile
        /\ quarantined' = quarantined /\ pending' = pending
        /\ current' = current /\ stage' = stage
    BY <1>1, <1>2, <1>3, <1>4, <1>5, ReplayEffect
  <1>7. PICK v, x : Room(reassembler, reassembler', k, v, backlog') /\ Replay(k, f, p, x)
    BY <1>6
  <1>8. decodes' = decodes
    BY <1>6 DEF decodes
  <1>9. /\ backlog = {} /\ event = None
        /\ profile # None /\ profile \in db.scans /\ profile \in ScanRow
        /\ i \in left /\ i \in Received(profile.fragments) /\ i \in Index
        /\ p \in Archived(db) /\ f.key = k /\ f.metadata = profile.metadata /\ f.fragment_index = i
        /\ db.packets[p].status = "incomplete"
        /\ \A r \in db.scans : r.key = k => r = profile
    BY <1>1, <1>2, <1>3, <1>4, NextSource
  <1>10. /\ reassembler \in Reassembler /\ db \in Store /\ clock \in Nat
    BY DEF IInv, TypeOK
  <1>11. f \in OwnedFragment /\ p \in PacketId /\ k \in Key
    BY <1>3, <1>4, <1>9, <1>10, ArchivedType, RowType
  <1>12. /\ backlog' \subseteq ReassembledProfile
         /\ \A j \in ActiveKeys(reassembler') : j # k => j \in ActiveKeys(reassembler)
         /\ \A t \in backlog' : t.key \in ActiveKeys(reassembler) /\ t.key # k
    BY <1>7, <1>10, <1>11, RoomMemory
  <1>13. /\ reassembler' \in Reassembler
         /\ k \in ActiveKeys(reassembler')
         /\ reassembler'.completed = reassembler.completed
    BY <1>7 DEF Room, Replay
  <1>14. PICK fr : fr = reassembler'.active[k].fragments
    OBVIOUS
  <1>15. /\ SlotsSound(db, decodes, k, f.metadata, fr)
         /\ reassembler'.active[k].metadata = f.metadata
         /\ Received(fr) = Received(x.fragments) \cup {i}
         /\ fr[i].packet = p
         /\ \A j \in Index : j # i => fr[j] = x.fragments[j]
         /\ Packets(fr) = Packets(x.fragments) \cup {p}
         /\ k \notin ActiveKeys(reassembler) =>
               Received(x.fragments) = {} /\ Packets(x.fragments) = {}
         /\ k \in ActiveKeys(reassembler) => x = reassembler.active[k]
         /\ Received(fr) # fragment_mask(f.metadata)
    <2>1. PICK t \in Nat : t = clock
      BY <1>10
    <2>2. FillsSlot(reassembler, f, t, x)
      BY <1>7, <2>1 DEF Replay
    <2>3. k \in ActiveKeys(reassembler) =>
             SlotsSound(db, decodes, k, reassembler.active[k].metadata, reassembler.active[k].fragments)
      BY DEF IInv, ActiveSound
    <2>4. CanFill(db, decodes, reassembler, f, p, t, x)
      BY <1>3, <1>5, <1>9, <1>10, <2>2, <2>3 DEF CanFill
    <2>5. Filled(db, decodes, reassembler, f, p, x, Accept(x, f, p, t))
      BY <2>4, FillSound
    <2>6. PICK y : y = Accept(x, f, p, t)
      OBVIOUS
    <2>7. /\ reassembler'.active[k].metadata = y.metadata
          /\ fr = y.fragments
          /\ Received(fr) # fragment_mask(f.metadata)
      BY <1>7, <1>14, <2>1, <2>6 DEF Replay
    <2>8. Filled(db, decodes, reassembler, f, p, x, y)
      BY <2>5, <2>6
    <2>9. QED
      BY <1>9, <2>7, <2>8 DEF Filled
  <1>16. /\ k \notin ActiveKeys(reassembler) => left = Received(profile.fragments)
         /\ k \in ActiveKeys(reassembler) =>
               /\ Received(reassembler.active[k].fragments) = Received(profile.fragments) \ left
               /\ \A j \in Received(profile.fragments) \ left :
                     reassembler.active[k].fragments[j].packet = profile.fragments[j]
    BY <1>4, <1>9 DEF IInv, ProfileSound, Replayed
  <1>17. /\ BacklogSound'
         /\ \A j \in ActiveKeys(reassembler') : j # k =>
               /\ SlotsSound(db', decodes', j, reassembler'.active[j].metadata,
                             reassembler'.active[j].fragments)
               /\ Received(reassembler'.active[j].fragments) #
                     fragment_mask(reassembler'.active[j].metadata)
               /\ Covers(db', j, reassembler'.active[j].metadata,
                         reassembler'.active[j].fragments)
    <2>1. \A j : Restoring(profile, j) => j = k
      BY <1>4 DEF Restoring
    <2>2. QED
      BY <1>6, <1>7, <1>8, <1>11, <2>1, RoomSound
  <1>18. TypeOK'
    BY <1>6, <1>12, <1>13 DEF IInv, TypeOK
  <1>19. ActiveSound'
    BY <1>4, <1>6, <1>8, <1>9, <1>14, <1>15, <1>17 DEF ActiveSound, Restoring
  <1>20. EventSound' /\ FailureSound' /\ StoreSound(db')
    BY <1>6 DEF IInv, EventSound, FailureSound
  <1>21. CountsSound'
    <2> SUFFICES ASSUME NEW j \in ActiveKeys(reassembler'), NEW row \in db.scans, row.key = j
                 PROVE  /\ reassembler'.active[j].duplicates = row.duplicates
                        /\ reassembler'.active[j].conflicts = row.conflicts
      BY <1>6 DEF CountsSound
    <2>1. \A n \in ActiveKeys(reassembler) : \A r \in db.scans : r.key = n =>
             /\ reassembler.active[n].duplicates = r.duplicates
             /\ reassembler.active[n].conflicts = r.conflicts
      BY <1>9 DEF IInv, CountsSound, Moved
    <2>2. CASE j = k
      <3>1. row = profile
        BY <1>9, <2>2
      <3>2. QED
        BY <1>4, <1>7, <1>9, <1>15, <2>1, <2>2, <3>1 DEF Replay
    <2>3. CASE j # k
      <3>1. j \in ActiveKeys(reassembler) /\ reassembler'.active[j] = reassembler.active[j]
        BY <1>7, <1>10, <1>11, <2>3, RoomMemory
      <3>2. QED
        BY <2>1, <3>1
    <2>4. QED
      BY <2>2, <2>3
  <1>22. CacheSound'
    BY <1>6, <1>9, <1>13 DEF IInv, CacheSound, CompletedKeys
  <1>23. ProfilesSound'
    BY <1>4, <1>6, <1>9, <1>12 DEF IInv, ProfilesSound, Restoring
  <1>24. ProfileSound'
    <2>1. left \subseteq Received(profile.fragments) /\ ~ TransportComplete(profile)
      BY <1>9 DEF IInv, ProfileSound
    <2>2. Received(fr) = Received(profile.fragments) \ (left \ {i})
      BY <1>9, <1>15, <1>16, <2>1
    <2>3. \A j \in Received(profile.fragments) \ (left \ {i}) : fr[j].packet = profile.fragments[j]
      <3> SUFFICES ASSUME NEW j \in Received(profile.fragments), j \notin left \ {i}
                   PROVE  fr[j].packet = profile.fragments[j]
        OBVIOUS
      <3>1. CASE j = i
        BY <1>2, <1>15, <3>1
      <3>2. CASE j # i
        <4>1. j \in Index /\ j \notin left
          BY <3>2 DEF Received
        <4>2. k \in ActiveKeys(reassembler) /\ x = reassembler.active[k]
          BY <1>15, <1>16, <4>1
        <4>3. fr[j] = x.fragments[j]
          BY <1>15, <3>2, <4>1
        <4>4. QED
          BY <1>16, <4>1, <4>2, <4>3
      <3>3. QED
        BY <3>1, <3>2
    <2>4. Replayed(reassembler', profile, left \ {i})
      BY <1>4, <1>9, <1>13, <1>14, <1>15, <2>2, <2>3 DEF Replayed
    <2>5. QED
      BY <1>6, <1>9, <2>1, <2>4 DEF ProfileSound
  <1>25. phase # "down" /\ (phase = "restore" \/ stage = "ingest")
    BY <1>9, DownEmpty DEF IInv, PhaseSound, TypeOK
  <1>26. PhaseSound'
    BY <1>6, <1>9, <1>25 DEF IInv, PhaseSound
  <1>27. SearchedSound'
    BY <1>4, <1>6, <1>9, <1>12 DEF IInv, SearchedSound, Restoring, CurrentFragment
  <1>28. \A q \in WithStatus(db, "pending") :
            InMemory(reassembler', backlog', event', q) <=> InMemory(reassembler, backlog, event, q)
    <2> SUFFICES ASSUME NEW q \in WithStatus(db, "pending")
                 PROVE  InMemory(reassembler', backlog', None, q) <=> InTable(reassembler, q)
      BY <1>6, <1>9 DEF InMemory
    <2>1. q # p
      BY <1>9 DEF WithStatus
    <2>2. /\ InTable(reassembler, q) =>
                \/ InMemory(reassembler', backlog', None, q)
                \/ k \in ActiveKeys(reassembler) /\ q \in Packets(reassembler.active[k].fragments)
          /\ InMemory(reassembler', backlog', None, q) =>
                \/ InTable(reassembler, q)
                \/ k \in ActiveKeys(reassembler') /\ q \in Packets(reassembler'.active[k].fragments)
      BY <1>7, <1>10, <1>11, RoomPackets
    <2>3. q \in Packets(fr) <=>
             k \in ActiveKeys(reassembler) /\ q \in Packets(reassembler.active[k].fragments)
      BY <1>15, <2>1
    <2>4. q \in Packets(fr) => InMemory(reassembler', backlog', None, q)
      BY <1>13, <1>14 DEF InMemory, InTable
    <2>5. k \in ActiveKeys(reassembler) /\ q \in Packets(reassembler.active[k].fragments)
             => InTable(reassembler, q)
      BY DEF InTable
    <2>6. QED
      BY <1>14, <2>2, <2>3, <2>4, <2>5
  <1>29. CurrentSound'
    <2> SUFFICES ASSUME current # None
                 PROVE  /\ stage = "ingest"
                        /\ current \in Archived(db) /\ CurrentFragment \in decodes
                        /\ db.packets[current].status = "pending"
                        /\ ~ InMemory(reassembler', backlog', event', current)
      BY <1>6, <1>8 DEF CurrentSound, CurrentFragment
    <2>1. stage = "ingest"
      BY <1>25 DEF IInv, PhaseSound
    <2>2. /\ current \in Archived(db) /\ CurrentFragment \in decodes
          /\ db.packets[current].status = "pending"
          /\ ~ InMemory(reassembler, backlog, event, current)
      BY <2>1 DEF IInv, CurrentSound
    <2>3. current \in WithStatus(db, "pending")
      BY <2>2 DEF WithStatus
    <2>4. QED
      BY <1>28, <2>1, <2>2, <2>3
  <1>30. PendingSound'
    BY <1>6, <1>28 DEF IInv, PendingSound
  <1>31. DecodeSound'
    BY <1>2, <1>3, <1>5, <1>6, <1>8 DEF IInv, DecodeSound
  <1>32. QED
    BY <1>17, <1>18, <1>19, <1>20, <1>21, <1>22, <1>23, <1>24, <1>26, <1>27, <1>29, <1>30, <1>31 DEF IInv


-----------------------------------------------------------------------------
(***************************************************************************)
(* The packet in hand is compared with the store.                          *)
(***************************************************************************)
\* While a packet is compared, nothing else is going on.
LEMMA Reconciling ==
    ASSUME IInv, stage = "reconcile"
    PROVE  /\ phase \in {"replay", "live"}
           /\ current # None /\ current \in Archived(db) /\ CurrentFragment \in decodes
           /\ CurrentFragment \in OwnedFragment /\ CurrentFragment.key \in Key
           /\ db.packets[current].status = "pending"
           /\ ~ InMemory(reassembler, backlog, event, current)
           /\ profiles = {} /\ profile = None /\ backlog = {} /\ event = None
           /\ reassembler \in Reassembler /\ db \in Store /\ StoreSound(db)
  <1>1. phase \in {"replay", "live"} /\ current # None /\ profiles = {} /\ profile = None
        /\ backlog = {} /\ event = None
    BY DEF IInv, PhaseSound, EventSound, TypeOK
  <1>2. /\ current \in Archived(db) /\ CurrentFragment \in decodes
        /\ db.packets[current].status = "pending"
        /\ ~ InMemory(reassembler, backlog, event, current)
    BY <1>1 DEF IInv, CurrentSound
  <1>3. reassembler \in Reassembler /\ db \in Store /\ StoreSound(db)
    BY DEF IInv, TypeOK
  <1>4. CurrentFragment \in OwnedFragment /\ CurrentFragment.key \in Key
    BY <1>2, <1>3, ArchivedType DEF CurrentFragment
  <1>5. QED
    BY <1>1, <1>2, <1>3, <1>4

\* A row of the key with a source at the index gets the packet's verdict, and so does the scan in
\* memory, by the same amount.
LEMMA MatchStep ==
    ASSUME IInv, Reconcile, PersistedFragmentMatch(db, CurrentFragment) # None
    PROVE  IInv'
  <1>1. PICK f : f = CurrentFragment
    OBVIOUS
  <1>2. PICK k : k = f.key
    OBVIOUS
  <1>3. PICK p : p = current
    OBVIOUS
  <1>4. PICK match : match = PersistedFragmentMatch(db, f)
    OBVIOUS
  <1>5. /\ phase \in {"replay", "live"}
        /\ p # None /\ p \in Archived(db) /\ f = db.packets[p].fragment
        /\ f \in OwnedFragment /\ k \in Key
        /\ db.packets[p].status = "pending"
        /\ ~ InMemory(reassembler, backlog, event, p)
        /\ profiles = {} /\ profile = None /\ backlog = {} /\ event = None
        /\ reassembler \in Reassembler /\ db \in Store /\ StoreSound(db)
    BY <1>1, <1>2, <1>3, Reconciling DEF Reconcile, CurrentFragment
  <1>6. match \in {"duplicate", "conflict"}
    BY <1>1, <1>4, MatchType
  <1>7. PICK x \in Count : x = CountOf(match, "duplicate")
    BY CountOfType
  <1>8. PICK y \in Count : y = CountOf(match, "conflict")
    BY CountOfType
  <1>9. /\ db' = reconcile_persisted_profile_fragment(db, f, p)
        /\ reassembler' = IF contains_active(reassembler, k)
                          THEN restore_receiver_counts(reassembler, k, x, y)
                          ELSE reassembler
        /\ current' = None /\ stage' = "idle"
        /\ rejected' = rejected /\ exits' = exits /\ failure' = failure
        /\ phase' = phase /\ clock' = clock
        /\ profiles' = profiles /\ profile' = profile /\ left' = left
        /\ counts_restored' = counts_restored /\ quarantined' = quarantined
        /\ pending' = pending /\ backlog' = backlog /\ event' = event
    BY <1>1, <1>2, <1>3, <1>4, <1>7, <1>8 DEF Reconcile, restore, output
  <1>10. decodes' = decodes
    BY <1>9 DEF decodes
  <1>11. /\ db' \in Store
         /\ StoreSound(db')
         /\ OtherKeys(db, db', k)
         /\ Archived(db') = Archived(db)
         /\ \A q \in Archived(db) :
               /\ db'.packets[q].fragment = db.packets[q].fragment
               /\ db'.packets[q].status = IF q = p THEN match ELSE db.packets[q].status
         /\ \E row \in db.scans, new \in db'.scans : row.key = k /\ Updated(row, new, match)
    BY <1>1, <1>2, <1>4, <1>5, <1>9, ReconcileEffect
  <1>12. PICK row \in db.scans, new \in db'.scans : row.key = k /\ Updated(row, new, match)
    BY <1>11
  <1>13. /\ new.key = k /\ new.metadata = row.metadata /\ new.fragments = row.fragments
         /\ new.duplicates = saturating_add(row.duplicates, x)
         /\ new.conflicts = saturating_add(row.conflicts, y)
    BY <1>7, <1>8, <1>12 DEF Updated
  <1>14. /\ \A r \in db.scans : r.key = k => r = row
         /\ \A r \in db'.scans : r.key = k => r = new
         /\ \A r \in db'.scans : r.key # k => r \in db.scans
         /\ \A r \in db.scans : r.key # k => r \in db'.scans
    BY <1>5, <1>11, <1>12, <1>13 DEF StoreSound, OneRow, OtherKeys, Store
  <1>15. TransportComplete(new) <=> TransportComplete(row)
    BY <1>13 DEF TransportComplete
  <1>16. /\ reassembler' \in Reassembler
         /\ reassembler'.completed = reassembler.completed
         /\ ActiveKeys(reassembler') = ActiveKeys(reassembler)
         /\ \A j \in ActiveKeys(reassembler) :
               /\ reassembler'.active[j].metadata = reassembler.active[j].metadata
               /\ reassembler'.active[j].fragments = reassembler.active[j].fragments
               /\ j # k => reassembler'.active[j] = reassembler.active[j]
               /\ j = k =>
                     /\ reassembler'.active[j].duplicates =
                           saturating_add(reassembler.active[j].duplicates, x)
                     /\ reassembler'.active[j].conflicts =
                           saturating_add(reassembler.active[j].conflicts, y)
    <2>1. CASE contains_active(reassembler, k)
      <3>1. /\ reassembler' \in Reassembler
            /\ reassembler'.completed = reassembler.completed
            /\ \A j \in Key : j # k => reassembler'.active[j] = reassembler.active[j]
            /\ reassembler'.active[k] \in ActiveProfile
            /\ reassembler'.active[k].metadata = reassembler.active[k].metadata
            /\ reassembler'.active[k].fragments = reassembler.active[k].fragments
            /\ reassembler'.active[k].duplicates = saturating_add(reassembler.active[k].duplicates, x)
            /\ reassembler'.active[k].conflicts = saturating_add(reassembler.active[k].conflicts, y)
        BY <1>5, <1>9, <2>1, RestoreType
      <3>2. reassembler'.active[k] # None
        BY <3>1, NoneAssumption
      <3>3. ActiveKeys(reassembler') = ActiveKeys(reassembler)
        BY <2>1, <3>1, <3>2 DEF ActiveKeys, contains_active
      <3>4. \A j \in ActiveKeys(reassembler) : j \in Key
        BY DEF ActiveKeys
      <3>5. QED
        BY <3>1, <3>3, <3>4
    <2>2. CASE ~ contains_active(reassembler, k)
      BY <1>5, <1>9, <2>2 DEF contains_active, ActiveKeys
    <2>3. QED
      BY <2>1, <2>2
  <1>17. \A q : InMemory(reassembler', {}, None, q) <=> InMemory(reassembler, {}, None, q)
    BY <1>16 DEF InMemory, InTable
  <1>18. TypeOK'
    BY <1>9, <1>11, <1>16 DEF IInv, TypeOK
  <1>19. ActiveSound'
    <2> SUFFICES ASSUME NEW j \in ActiveKeys(reassembler)
                 PROVE  /\ SlotsSound(db', decodes, j, reassembler.active[j].metadata,
                                      reassembler.active[j].fragments)
                        /\ Received(reassembler.active[j].fragments) #
                              fragment_mask(reassembler.active[j].metadata)
                        /\ Covers(db', j, reassembler.active[j].metadata,
                                  reassembler.active[j].fragments)
      BY <1>10, <1>16 DEF ActiveSound
    <2>1. /\ SlotsSound(db, decodes, j, reassembler.active[j].metadata, reassembler.active[j].fragments)
          /\ Received(reassembler.active[j].fragments) # fragment_mask(reassembler.active[j].metadata)
          /\ Covers(db, j, reassembler.active[j].metadata, reassembler.active[j].fragments)
      BY <1>5 DEF IInv, ActiveSound, Restoring
    <2>2. p \notin Packets(reassembler.active[j].fragments)
      BY <1>5 DEF InMemory, InTable
    <2>3. SlotsSound(db', decodes, j, reassembler.active[j].metadata, reassembler.active[j].fragments)
      <3>1. \A q \in Packets(reassembler.active[j].fragments) : q \in Archived(db) =>
               /\ q \in Archived(db')
               /\ db'.packets[q].fragment = db.packets[q].fragment
               /\ db'.packets[q].status = db.packets[q].status
        BY <1>11, <2>2
      <3>2. QED
        BY <2>1, <3>1, SlotsKept
    <2>4. CASE j = k
      BY <1>12, <1>13, <1>14, <1>15, <2>1, <2>3, <2>4 DEF Covers
    <2>5. CASE j # k
      BY <1>11, <2>1, <2>3, <2>5, CoversFrame
    <2>6. QED
      BY <2>4, <2>5
  <1>20. BacklogSound' /\ EventSound' /\ ProfilesSound' /\ ProfileSound' /\ FailureSound'
    BY <1>5, <1>9 DEF IInv, BacklogSound, EventSound, ProfilesSound, ProfileSound, FailureSound
  <1>21. CountsSound'
    <2> SUFFICES ASSUME NEW j \in ActiveKeys(reassembler), NEW r \in db'.scans, r.key = j
                 PROVE  /\ reassembler'.active[j].duplicates = r.duplicates
                        /\ reassembler'.active[j].conflicts = r.conflicts
      BY <1>16 DEF CountsSound
    <2>1. \A n \in ActiveKeys(reassembler) : \A u \in db.scans : u.key = n =>
             /\ reassembler.active[n].duplicates = u.duplicates
             /\ reassembler.active[n].conflicts = u.conflicts
      BY <1>5 DEF IInv, CountsSound, Moved
    <2>2. CASE j = k
      BY <1>12, <1>13, <1>14, <1>16, <2>1, <2>2
    <2>3. CASE j # k
      BY <1>14, <1>16, <2>1, <2>3
    <2>4. QED
      BY <2>2, <2>3
  <1>22. CacheSound'
    <2> SUFFICES ASSUME NEW j \in CompletedKeys(reassembler)
                 PROVE  \E r \in db'.scans : r.key = j /\ TransportComplete(r)
      BY <1>16 DEF CacheSound, CompletedKeys
    <2>1. PICK r \in db.scans : r.key = j /\ TransportComplete(r)
      BY <1>5 DEF IInv, CacheSound
    <2>2. QED
      BY <1>13, <1>14, <1>15, <2>1
  <1>23. PhaseSound'
    BY <1>5, <1>9, <1>16 DEF IInv, PhaseSound
  <1>24. SearchedSound' /\ CurrentSound'
    BY <1>9 DEF SearchedSound, CurrentSound
  <1>25. PendingSound'
    <2>1. \A q \in WithStatus(db', "pending") : q \in WithStatus(db, "pending") /\ q # p
      BY <1>6, <1>11 DEF WithStatus
    <2>2. \A q \in WithStatus(db, "pending") : q # p => q \in WithStatus(db', "pending") /\ q # None
      BY <1>11, PendingType DEF WithStatus
    <2>3. QED
      BY <1>3, <1>5, <1>9, <1>17, <2>1, <2>2 DEF IInv, PendingSound
  <1>26. DecodeSound'
    <2>1. \A r \in db.scans : r # None
      BY <1>5, RowType DEF Store
    <2>2. \A r \in db.scans : ~ TransportComplete(r) =>
             \A i \in Received(r.fragments) : db.packets[r.fragments[i]].fragment \in decodes
      BY <1>5, <2>1 DEF IInv, DecodeSound
    <2>3. \A r \in db.scans : \A i \in Received(r.fragments) : r.fragments[i] \in Archived(db)
      BY <1>5 DEF StoreSound, RowSound
    <2>4. \A r \in db'.scans : ~ TransportComplete(r) =>
             \A i \in Received(r.fragments) : db'.packets[r.fragments[i]].fragment \in decodes
      BY <1>11, <1>12, <1>13, <1>14, <1>15, <2>2, <2>3
    <2>5. QED
      BY <1>10, <2>4 DEF DecodeSound
  <1>27. QED
    BY <1>11, <1>18, <1>19, <1>20, <1>21, <1>22, <1>23, <1>24, <1>25, <1>26 DEF IInv


\* When no row of the key has a source at the index, none is complete: the fragment's index lies
\* within the mask of every row, because one key has one fragment count.
LEMMA MissedRows ==
    ASSUME OneCountPerKey, IInv, stage = "reconcile",
           PersistedFragmentMatch(db, CurrentFragment) = None
    PROVE  \A row \in db.scans : row.key = CurrentFragment.key =>
              row.fragments[CurrentFragment.fragment_index] = None /\ ~ TransportComplete(row)
  <1>1. PICK f : f = CurrentFragment
    OBVIOUS
  <1>2. /\ current \in Archived(db) /\ f \in OwnedFragment /\ db \in Store /\ StoreSound(db)
    BY <1>1, Reconciling
  <1>3. f \in Delivered
    BY <1>1, <1>2 DEF StoreSound, CurrentFragment
  <1>4. f.fragment_index \in Index /\ f.fragment_index \in fragment_mask(f.metadata)
    BY <1>2, FragmentType
  <1> SUFFICES ASSUME NEW row \in db.scans, row.key = f.key
               PROVE  row.fragments[f.fragment_index] = None /\ ~ TransportComplete(row)
    BY <1>1
  <1>5. row.fragments[f.fragment_index] = None
    BY <1>1, MatchType DEF PersistedRows
  <1>6. RowSound(db, row)
    BY <1>2 DEF StoreSound
  <1>7. PICK i \in Received(row.fragments) : TRUE
    BY <1>6 DEF RowSound
  <1>8. PICK g : g = db.packets[row.fragments[i]].fragment
    OBVIOUS
  <1>9. g \in Delivered /\ g.key = f.key /\ g.metadata = row.metadata
    BY <1>2, <1>6, <1>8 DEF StoreSound, RowSound
  <1>10. fragment_mask(row.metadata) = fragment_mask(f.metadata)
    BY <1>3, <1>9 DEF OneCountPerKey, fragment_mask
  <1>11. f.fragment_index \notin Received(row.fragments)
    BY <1>5 DEF Received
  <1>12. QED
    BY <1>4, <1>5, <1>10, <1>11 DEF TransportComplete

\* The store does not have the fragment: what it has of the scan is loaded, unless it is in memory.
LEMMA MissStep ==
    ASSUME OneCountPerKey, IInv, Reconcile, PersistedFragmentMatch(db, CurrentFragment) = None
    PROVE  IInv'
  <1>1. PICK f : f = CurrentFragment
    OBVIOUS
  <1>2. PICK k : k = f.key
    OBVIOUS
  <1>3. stage = "reconcile"
    BY DEF Reconcile
  <1>4. /\ phase \in {"replay", "live"}
        /\ current # None /\ f = db.packets[current].fragment
        /\ k \in Key
        /\ profiles = {} /\ profile = None /\ backlog = {} /\ event = None
        /\ db \in Store
    BY <1>1, <1>2, <1>3, Reconciling DEF CurrentFragment
  <1>5. \A row \in db.scans : row.key = k =>
           row.fragments[f.fragment_index] = None /\ ~ TransportComplete(row)
    BY <1>1, <1>2, <1>3, MissedRows
  <1>6. CASE /\ ~ contains_active(reassembler, k)
             /\ IncompleteReplayLimitExceeded(db, {k})
    <2>1. Exit("IncompleteReplayLimitExceeded")
      BY <1>1, <1>2, <1>6 DEF Reconcile
    <2>2. QED
      BY <2>1, ExitStep
  <1>7. CASE contains_active(reassembler, k) \/ ~ IncompleteReplayLimitExceeded(db, {k})
    <2>1. /\ stage' = "ingest"
          /\ IF contains_active(reassembler, k)
             THEN profiles' = profiles /\ quarantined' = quarantined
             ELSE profiles' = incomplete_profiles(db, {k}) /\ quarantined' = {}
          /\ db' = db /\ rejected' = rejected /\ exits' = exits /\ failure' = failure
          /\ phase' = phase /\ reassembler' = reassembler /\ clock' = clock
          /\ profile' = profile /\ left' = left /\ counts_restored' = counts_restored
          /\ pending' = pending /\ current' = current /\ backlog' = backlog /\ event' = event
      BY <1>1, <1>2, <1>7 DEF Reconcile, restore, output, durable
    <2>2. decodes' = decodes
      BY <2>1 DEF decodes
    <2>3. contains_active(reassembler, k) <=> k \in ActiveKeys(reassembler)
      BY <1>4 DEF contains_active, ActiveKeys
    <2>4. /\ \A row \in profiles' :
                /\ row \in db.scans /\ row.key = k /\ ~ TransportComplete(row)
                /\ k \notin ActiveKeys(reassembler) /\ quarantined' = {}
          /\ k \notin ActiveKeys(reassembler) =>
                \A row \in db.scans : row.key = k => row \in profiles'
      BY <1>4, <1>5, <2>1, <2>3 DEF incomplete_profiles, IncompleteRows
    <2>5. TypeOK'
      <3>1. profiles' \subseteq ScanRow /\ quarantined' \subseteq Key
        BY <1>4, <2>1, <2>4 DEF IInv, TypeOK, Store
      <3>2. QED
        BY <2>1, <3>1 DEF IInv, TypeOK
    <2>6. ActiveSound' /\ BacklogSound' /\ EventSound' /\ CountsSound' /\ CacheSound'
      BY <1>4, <2>1, <2>2
         DEF IInv, ActiveSound, BacklogSound, EventSound, CountsSound, CacheSound
    <2>7. ProfilesSound' /\ ProfileSound'
      BY <1>4, <2>1, <2>4 DEF ProfilesSound, ProfileSound, Restoring
    <2>8. PhaseSound' /\ FailureSound' /\ StoreSound(db')
      BY <1>3, <1>4, <2>1 DEF IInv, PhaseSound, FailureSound
    <2>9. SearchedSound'
      BY <1>1, <1>2, <1>4, <1>5, <2>1, <2>4 DEF SearchedSound, CurrentFragment
    <2>10. CurrentSound' /\ PendingSound'
      BY <1>3, <2>1, <2>2 DEF IInv, CurrentSound, CurrentFragment, PendingSound
    <2>11. DecodeSound'
      BY <1>4, <2>1, <2>2 DEF IInv, DecodeSound
    <2>12. QED
      BY <2>5, <2>6, <2>7, <2>8, <2>9, <2>10, <2>11 DEF IInv
  <1>8. QED
    BY <1>6, <1>7


-----------------------------------------------------------------------------
(***************************************************************************)
(* The packet in hand is ingested.                                         *)
(***************************************************************************)
\* Before that, everything the store has of its scan is in memory.
LEMMA Ingesting ==
    ASSUME IInv, IngestCurrent
    PROVE  /\ phase \in {"replay", "live"} /\ stage = "ingest"
           /\ current # None /\ current \in Archived(db) /\ CurrentFragment \in decodes
           /\ CurrentFragment \in OwnedFragment /\ CurrentFragment.key \in Key
           /\ db.packets[current].status = "pending"
           /\ ~ InTable(reassembler, current)
           /\ profiles = {} /\ profile = None /\ backlog = {} /\ event = None
           /\ reassembler \in Reassembler /\ db \in Store /\ StoreSound(db)
           /\ \A row \in db.scans : row.key = CurrentFragment.key =>
                 /\ row.fragments[CurrentFragment.fragment_index] = None
                 /\ row.key \in ActiveKeys(reassembler)
           /\ reassembler.completed[CurrentFragment.key] = None
  <1>1. /\ stage = "ingest" /\ profiles = {} /\ profile = None /\ backlog = {} /\ event = None
    BY DEF IngestCurrent, Restored, Written
  <1>2. phase \in {"replay", "live"} /\ current # None
    BY <1>1 DEF IInv, PhaseSound, TypeOK
  <1>3. /\ current \in Archived(db) /\ CurrentFragment \in decodes
        /\ db.packets[current].status = "pending"
        /\ ~ InTable(reassembler, current)
    BY <1>1, <1>2 DEF IInv, CurrentSound, InMemory
  <1>4. reassembler \in Reassembler /\ db \in Store /\ StoreSound(db)
    BY DEF IInv, TypeOK
  <1>5. CurrentFragment \in OwnedFragment /\ CurrentFragment.key \in Key
    BY <1>3, <1>4, ArchivedType DEF CurrentFragment
  <1>6. \A row \in db.scans : row.key = CurrentFragment.key =>
           /\ row.fragments[CurrentFragment.fragment_index] = None
           /\ ~ TransportComplete(row)
           /\ row.key \in ActiveKeys(reassembler)
    BY <1>1 DEF IInv, SearchedSound, Restoring
  <1>7. reassembler.completed[CurrentFragment.key] = None
    BY <1>1, <1>5, <1>6 DEF IInv, CacheSound, CompletedKeys
  <1>8. QED
    BY <1>1, <1>2, <1>3, <1>4, <1>5, <1>6, <1>7

\* What ingest_at did with the fragment f of packet p, at time t, evicting v.
Ingests(f, p, t, v, result) ==
    /\ reassembler' \in Reassembler
    /\ backlog' = {Evicted(reassembler, v)} \ {None}
    /\ event' = EventOf(result, p)
    /\ v \in EvictionChoices(reassembler, f.key)
    /\ \/ v = None
       \/ v \in ActiveKeys(reassembler) /\ v # f.key /\ f.key \notin ActiveKeys(reassembler)
    /\ \/ CountedCase(reassembler, reassembler', result, f, v)
       \/ PendingCase(reassembler, reassembler', result, f, p, t, v)
       \/ CompleteCase(reassembler, reassembler', result, f, p, t, v)

\* The scan is not in the completed cache, so that the fragment meets the active table.
LEMMA IngestEffect ==
    ASSUME IInv, IngestCurrent, NEW f, f = CurrentFragment, NEW p, p = current
    PROVE  /\ \E t \in Nat : \E v, result : Ingests(f, p, t, v, result)
           /\ db' = db /\ rejected' = rejected /\ exits' = exits /\ failure' = failure
           /\ phase' = phase /\ clock' = clock /\ profiles' = profiles /\ profile' = profile
           /\ left' = left /\ counts_restored' = counts_restored /\ quarantined' = quarantined
           /\ pending' = pending /\ decodes' = decodes
           /\ IF backlog' = {} /\ event' = None
              THEN current' = None /\ stage' = "idle"
              ELSE current' = current /\ stage' = "handle"
  <1>1. /\ current \in Archived(db) /\ f \in OwnedFragment /\ f.key \in Key
        /\ reassembler \in Reassembler /\ db \in Store
        /\ reassembler.completed[f.key] = None
    BY Ingesting
  <1>2. p \in PacketId
    BY <1>1, ArchivedType
  <1>3. /\ db' = db /\ rejected' = rejected /\ exits' = exits /\ failure' = failure
        /\ phase' = phase /\ clock' = clock /\ profiles' = profiles /\ profile' = profile
        /\ left' = left /\ counts_restored' = counts_restored /\ quarantined' = quarantined
        /\ pending' = pending
        /\ IF backlog' = {} /\ event' = None
           THEN current' = None /\ stage' = "idle"
           ELSE current' = current /\ stage' = "handle"
    BY DEF IngestCurrent, FinishFragment, durable, restore
  <1>4. decodes' = decodes
    BY <1>3 DEF decodes
  <1>5. PICK t \in Nat : t = clock
    BY DEF IInv, TypeOK
  <1>6. PICK v \in Victims(reassembler, f) :
          LET call == ingest_at(reassembler, f, p, t, v)
          IN /\ reassembler' = call.state
             /\ backlog' = {call.result.evicted} \ {None}
             /\ event' = EventOf(call.result, p)
    BY <1>5 DEF IngestCurrent
  <1> DEFINE call == IngestActive(reassembler, f, p, t, v)
  <1>7. v \in EvictionChoices(reassembler, f.key)
    BY <1>1, <1>6 DEF Victims
  <1>8. ingest_at(reassembler, f, p, t, v) = call
    BY <1>1 DEF ingest_at
  <1>9. /\ reassembler' = call.state
        /\ backlog' = {call.result.evicted} \ {None}
        /\ event' = EventOf(call.result, p)
    BY <1>6, <1>8
  <1>10. /\ call.state \in Reassembler
         /\ call.result.evicted = Evicted(reassembler, v)
         /\ \/ CountedCase(reassembler, call.state, call.result, f, v)
            \/ PendingCase(reassembler, call.state, call.result, f, p, t, v)
            \/ CompleteCase(reassembler, call.state, call.result, f, p, t, v)
    BY <1>1, <1>2, <1>7, IngestActiveCases
  <1>11. \/ v = None
         \/ v \in ActiveKeys(reassembler) /\ v # f.key /\ f.key \notin ActiveKeys(reassembler)
    BY <1>1, <1>7, EvictionChoicesType DEF ActiveKeys, contains_active
  <1> HIDE DEF call
  <1>12. Ingests(f, p, t, v, call.result)
    BY <1>7, <1>9, <1>10, <1>11 DEF Ingests
  <1>13. QED
    BY <1>3, <1>4, <1>12


\* A duplicate or a conflict: a counter of the active scan moved, and a snapshot is to be written.
LEMMA IngestCounted ==
    ASSUME IInv, IngestCurrent, NEW f, f = CurrentFragment, NEW p, p = current, NEW t \in Nat,
           NEW v, NEW result, Ingests(f, p, t, v, result),
           CountedCase(reassembler, reassembler', result, f, v)
    PROVE  /\ ActiveSound' /\ BacklogSound' /\ EventSound' /\ CountsSound' /\ CacheSound'
           /\ CurrentSound' /\ PendingSound' /\ event' \in Event /\ backlog' = {}
  <1>1. PICK k : k = f.key
    OBVIOUS
  <1>2. /\ phase \in {"replay", "live"}
        /\ p # None /\ p \in Archived(db) /\ f \in decodes
        /\ f \in OwnedFragment /\ k \in Key
        /\ db.packets[p].status = "pending" /\ f = db.packets[p].fragment
        /\ ~ InTable(reassembler, p)
        /\ profiles = {} /\ profile = None /\ backlog = {} /\ event = None
        /\ reassembler \in Reassembler /\ db \in Store /\ StoreSound(db)
    BY <1>1, Ingesting DEF CurrentFragment
  <1>3. p \in PacketId
    BY <1>2, ArchivedType
  <1>4. /\ db' = db /\ phase' = phase /\ profile' = profile /\ pending' = pending /\ decodes' = decodes
        /\ IF backlog' = {} /\ event' = None
           THEN current' = None /\ stage' = "idle"
           ELSE current' = current /\ stage' = "handle"
    BY IngestEffect
  <1>5. PICK verdict \in {"Duplicate", "Conflict"} :
          /\ result.event = verdict
          /\ Table(reassembler, reassembler', k, v, Counted(reassembler.active[k], verdict))
          /\ result.integrity_snapshot = finish(k, Counted(reassembler.active[k], verdict))
    BY <1>1 DEF CountedCase
  <1>6. k \in ActiveKeys(reassembler) /\ reassembler'.completed = reassembler.completed
    BY Zenon, <1>1, <1>2 DEF CountedCase, contains_active, ActiveKeys
  <1>7. v = None
    BY <1>1, <1>6 DEF Ingests
  <1>8. backlog' = {}
    BY <1>7 DEF Ingests, Evicted
  <1>9. PICK x : x = reassembler.active[k]
    OBVIOUS
  <1>10. PICK y : y = Counted(x, verdict)
    OBVIOUS
  <1>11. /\ x \in ActiveProfile
         /\ y \in ActiveProfile /\ y # None
         /\ y.metadata = x.metadata /\ y.fragments = x.fragments
    <2>1. x \in ActiveProfile
      BY <1>2, <1>6, <1>9, ActiveType
    <2>2. QED
      BY <1>10, <2>1, CountedType, NoneAssumption
  <1>12. /\ reassembler'.active[k] = y
         /\ \A j \in Key : j # k => reassembler'.active[j] = reassembler.active[j]
    BY <1>2, <1>5, <1>7, <1>9, <1>10, ReassemblyAssumption DEF Table
  <1>13. /\ ActiveKeys(reassembler') = ActiveKeys(reassembler)
         /\ \A j \in ActiveKeys(reassembler) :
               /\ reassembler'.active[j].metadata = reassembler.active[j].metadata
               /\ reassembler'.active[j].fragments = reassembler.active[j].fragments
               /\ j # k => reassembler'.active[j] = reassembler.active[j]
    BY <1>6, <1>9, <1>11, <1>12 DEF ActiveKeys
  <1>14. PICK s : s = finish(k, y)
    OBVIOUS
  <1>15. /\ s \in ReassembledProfile /\ s # None /\ s.key = k
         /\ s.metadata = x.metadata /\ s.fragments = x.fragments
    BY <1>2, <1>11, <1>14, FinishType
  <1>16. event' = [event |-> verdict, profile |-> s, packet |-> p]
    BY <1>5, <1>9, <1>10, <1>14 DEF Ingests, EventOf
  <1>17. event' \in Event
    BY <1>3, <1>15, <1>16 DEF Event
  <1>18. /\ event' # None
         /\ event'.event \in {"Duplicate", "Conflict"} /\ event'.profile = s /\ event'.packet = p
    BY <1>16, <1>17, EventNoneAssumption
  <1>19. current' = p /\ stage' = "handle"
    BY <1>4, <1>18
  <1>20. \A j \in ActiveKeys(reassembler) :
           /\ SlotsSound(db, decodes, j, reassembler.active[j].metadata, reassembler.active[j].fragments)
           /\ Received(reassembler.active[j].fragments) # fragment_mask(reassembler.active[j].metadata)
           /\ Covers(db, j, reassembler.active[j].metadata, reassembler.active[j].fragments)
    BY <1>2 DEF IInv, ActiveSound, Restoring
  <1>21. ActiveSound'
    BY <1>4, <1>13, <1>20 DEF ActiveSound
  <1>22. BacklogSound'
    BY <1>8 DEF BacklogSound
  <1>23. p \notin Packets(s.fragments)
    BY <1>2, <1>6, <1>9, <1>15 DEF InTable
  <1>24. EventSound'
    <2>1. /\ s.key \in ActiveKeys(reassembler')
          /\ s = finish(s.key, reassembler'.active[s.key])
          /\ db'.packets[current'].status = "pending"
          /\ db'.packets[current'].fragment.key = s.key
          /\ current' \notin Packets(s.fragments)
      BY <1>1, <1>2, <1>4, <1>6, <1>12, <1>13, <1>14, <1>15, <1>19, <1>23
    <2>2. SlotsSound(db, decodes, k, s.metadata, s.fragments) /\ Covers(db, k, s.metadata, s.fragments)
      BY <1>6, <1>9, <1>15, <1>20
    <2>3. SnapshotSound(event)'
      BY <1>18, <2>1 DEF SnapshotSound, CurrentFragment
    <2>4. QED
      BY <1>4, <1>8, <1>15, <1>18, <1>19, <2>2, <2>3 DEF EventSound
  <1>25. CountsSound'
    <2>1. \A j \in ActiveKeys(reassembler) : \A row \in db.scans : row.key = j =>
             /\ reassembler.active[j].duplicates = row.duplicates
             /\ reassembler.active[j].conflicts = row.conflicts
      BY <1>2 DEF IInv, CountsSound, Moved
    <2>2. Moved(event', k)
      BY <1>15, <1>18 DEF Moved
    <2>3. QED
      BY <1>4, <1>13, <2>1, <2>2 DEF CountsSound
  <1>26. CacheSound'
    BY <1>2, <1>4, <1>6 DEF IInv, CacheSound, CompletedKeys
  <1>27. CurrentSound'
    BY <1>2, <1>4, <1>18, <1>19 DEF CurrentSound, CurrentFragment
  <1>28. \A q : InMemory(reassembler', backlog', event', q) <=> InTable(reassembler, q)
    <2>1. \A q : InTable(reassembler', q) <=> InTable(reassembler, q)
      BY <1>13 DEF InTable
    <2>2. \A q : q \in Packets(s.fragments) => InTable(reassembler, q)
      BY <1>6, <1>9, <1>15 DEF InTable
    <2>3. QED
      BY <1>8, <1>18, <2>1, <2>2 DEF InMemory
  <1>29. PendingSound'
    <2>1. \A q : InMemory(reassembler, backlog, event, q) <=> InTable(reassembler, q)
      BY <1>2 DEF InMemory
    <2>2. QED
      BY <1>2, <1>4, <1>19, <1>28, <2>1 DEF IInv, PendingSound
  <1>30. QED
    BY <1>8, <1>17, <1>21, <1>22, <1>24, <1>25, <1>26, <1>27, <1>29


\* A fragment that fills a slot: the scan still covers its row, which has nothing at that index.
LEMMA IngestFills ==
    ASSUME IInv, IngestCurrent, NEW f, f = CurrentFragment, NEW p, p = current, NEW k, k = f.key,
           NEW t \in Nat, NEW x, FillsSlot(reassembler, f, t, x), NEW y, y = Accept(x, f, p, t)
    PROVE  /\ SlotsSound(db, decodes, k, f.metadata, y.fragments)
           /\ y \in ActiveProfile
           /\ y.metadata = f.metadata
           /\ y.duplicates = x.duplicates
           /\ y.conflicts = x.conflicts
           /\ \A q : q \in Packets(y.fragments) <=>
                 q = p \/ (k \in ActiveKeys(reassembler) /\ q \in Packets(reassembler.active[k].fragments))
           /\ Covers(db, k, f.metadata, y.fragments)
           /\ k \in ActiveKeys(reassembler) => x = reassembler.active[k]
  <1>1. /\ p \in Archived(db) /\ f \in decodes
        /\ db.packets[p].status = "pending" /\ f = db.packets[p].fragment
        /\ profile = None
        /\ reassembler \in Reassembler /\ db \in Store /\ StoreSound(db)
        /\ \A row \in db.scans : row.key = k =>
              row.fragments[f.fragment_index] = None /\ k \in ActiveKeys(reassembler)
    BY Ingesting DEF CurrentFragment
  <1>2. \A j \in ActiveKeys(reassembler) :
           /\ SlotsSound(db, decodes, j, reassembler.active[j].metadata, reassembler.active[j].fragments)
           /\ Covers(db, j, reassembler.active[j].metadata, reassembler.active[j].fragments)
    BY <1>1 DEF IInv, ActiveSound, Restoring
  <1>3. CanFill(db, decodes, reassembler, f, p, t, x)
    BY <1>1, <1>2 DEF CanFill
  <1>4. Filled(db, decodes, reassembler, f, p, x, y)
    BY <1>3, FillSound
  <1>5. /\ SlotsSound(db, decodes, k, f.metadata, y.fragments)
        /\ y \in ActiveProfile
        /\ y.metadata = f.metadata
        /\ y.duplicates = x.duplicates
        /\ y.conflicts = x.conflicts
        /\ \A i \in Index : i # f.fragment_index => y.fragments[i] = x.fragments[i]
        /\ Packets(y.fragments) = Packets(x.fragments) \cup {p}
        /\ k \notin ActiveKeys(reassembler) => Packets(x.fragments) = {}
        /\ k \in ActiveKeys(reassembler) => x = reassembler.active[k]
    BY <1>4 DEF Filled
  <1>6. x.metadata = f.metadata
    BY DEF FillsSlot
  <1>7. Covers(db, k, f.metadata, y.fragments)
    <2> SUFFICES ASSUME NEW row \in db.scans, row.key = k
                 PROVE  /\ ~ TransportComplete(row)
                        /\ row.metadata = f.metadata
                        /\ \A i \in Received(row.fragments) :
                              y.fragments[i] # None /\ y.fragments[i].packet = row.fragments[i]
      BY DEF Covers
    <2>1. k \in ActiveKeys(reassembler) /\ row.fragments[f.fragment_index] = None
      BY <1>1
    <2>2. Covers(db, k, x.metadata, x.fragments)
      BY <1>2, <1>5, <2>1
    <2>3. \A i \in Received(row.fragments) : i \in Index /\ i # f.fragment_index
      BY <2>1 DEF Received
    <2>4. QED
      BY <1>5, <1>6, <2>2, <2>3 DEF Covers
  <1>8. \A q : q \in Packets(y.fragments) <=> q \in Packets(x.fragments) \/ q = p
    BY <1>5
  <1>9. QED
    BY <1>5, <1>7, <1>8

\* A fragment that leaves its scan incomplete.
LEMMA IngestPending ==
    ASSUME IInv, IngestCurrent, NEW f, f = CurrentFragment, NEW p, p = current, NEW t \in Nat,
           NEW v, NEW result, Ingests(f, p, t, v, result),
           PendingCase(reassembler, reassembler', result, f, p, t, v)
    PROVE  /\ ActiveSound' /\ BacklogSound' /\ EventSound' /\ CountsSound' /\ CacheSound'
           /\ CurrentSound' /\ PendingSound' /\ event' = None /\ backlog' \subseteq ReassembledProfile
  <1>1. PICK k : k = f.key
    OBVIOUS
  <1>2. /\ phase \in {"replay", "live"}
        /\ p # None /\ p \in Archived(db) /\ f \in decodes
        /\ k \in Key
        /\ db.packets[p].status = "pending" /\ f = db.packets[p].fragment
        /\ ~ InTable(reassembler, p)
        /\ profiles = {} /\ profile = None /\ backlog = {} /\ event = None
        /\ reassembler \in Reassembler /\ db \in Store /\ StoreSound(db)
    BY <1>1, Ingesting DEF CurrentFragment
  <1>3. /\ db' = db /\ phase' = phase /\ profile' = profile /\ pending' = pending /\ decodes' = decodes
        /\ IF backlog' = {} /\ event' = None
           THEN current' = None /\ stage' = "idle"
           ELSE current' = current /\ stage' = "handle"
    BY IngestEffect
  <1>4. PICK x : /\ FillsSlot(reassembler, f, t, x)
                 /\ result.event = "Pending"
                 /\ Received(Accept(x, f, p, t).fragments) # fragment_mask(f.metadata)
                 /\ Table(reassembler, reassembler', k, v, Accept(x, f, p, t))
                 /\ reassembler'.completed = reassembler.completed
    BY <1>1 DEF PendingCase
  <1>5. PICK y : y = Accept(x, f, p, t)
    OBVIOUS
  <1>6. /\ SlotsSound(db, decodes, k, f.metadata, y.fragments)
        /\ y \in ActiveProfile
        /\ y.metadata = f.metadata
        /\ y.duplicates = x.duplicates
        /\ y.conflicts = x.conflicts
        /\ \A q : q \in Packets(y.fragments) <=>
              q = p \/ (k \in ActiveKeys(reassembler) /\ q \in Packets(reassembler.active[k].fragments))
        /\ Covers(db, k, f.metadata, y.fragments)
        /\ k \in ActiveKeys(reassembler) => x = reassembler.active[k]
    BY <1>1, <1>4, <1>5, IngestFills
  <1>7. event' = None
    BY <1>4 DEF Ingests, EventOf
  <1>8. /\ reassembler'.active[k] = y
        /\ \A j \in Key : j # k => reassembler'.active[j] = IF j = v THEN None ELSE reassembler.active[j]
    BY <1>2, <1>4, <1>5 DEF Table
  <1>9. k \in ActiveKeys(reassembler')
    BY <1>2, <1>6, <1>8, NoneAssumption DEF ActiveKeys
  <1>10. Room(reassembler, reassembler', k, v, backlog')
    BY <1>1, <1>8 DEF Room, Ingests
  <1>11. /\ BacklogSound'
         /\ \A j \in ActiveKeys(reassembler') : j # k =>
               /\ SlotsSound(db', decodes', j, reassembler'.active[j].metadata,
                             reassembler'.active[j].fragments)
               /\ Received(reassembler'.active[j].fragments) #
                     fragment_mask(reassembler'.active[j].metadata)
               /\ Covers(db', j, reassembler'.active[j].metadata,
                         reassembler'.active[j].fragments)
    <2>1. \A j : Restoring(profile, j) => j = k
      BY <1>2 DEF Restoring
    <2>2. QED
      BY <1>2, <1>3, <1>10, <2>1, RoomSound
  <1>12. /\ backlog' \subseteq ReassembledProfile
         /\ \A j \in ActiveKeys(reassembler') :
               j # k => j \in ActiveKeys(reassembler) /\ reassembler'.active[j] = reassembler.active[j]
    <2>1. reassembler \in Reassembler
      BY <1>2
    <2>2. k \in Key
      BY <1>2
    <2>3. backlog' \subseteq ReassembledProfile
      BY ONLY ZenonT(30), <1>10, <2>1, <2>2, RoomMemory
    <2>4. \A j \in ActiveKeys(reassembler') :
             j # k => j \in ActiveKeys(reassembler) /\ reassembler'.active[j] = reassembler.active[j]
      BY ONLY <1>10, <2>1, <2>2, RoomMemory
    <2>5. QED
      BY <2>3, <2>4
  <1>13. ActiveSound'
    <2>1. Received(y.fragments) # fragment_mask(f.metadata)
      BY <1>4, <1>5
    <2>2. /\ SlotsSound(db', decodes', k, reassembler'.active[k].metadata, reassembler'.active[k].fragments)
          /\ Received(reassembler'.active[k].fragments) # fragment_mask(reassembler'.active[k].metadata)
          /\ Covers(db', k, reassembler'.active[k].metadata, reassembler'.active[k].fragments)
      BY <1>3, <1>6, <1>8, <2>1
    <2>3. QED
      BY <1>11, <2>2 DEF ActiveSound
  <1>14. EventSound'
    BY <1>7 DEF EventSound
  <1>15. CountsSound'
    <2> SUFFICES ASSUME NEW j \in ActiveKeys(reassembler'), NEW row \in db.scans, row.key = j
                 PROVE  /\ reassembler'.active[j].duplicates = row.duplicates
                        /\ reassembler'.active[j].conflicts = row.conflicts
      BY <1>3 DEF CountsSound
    <2>1. \A n \in ActiveKeys(reassembler) : \A r \in db.scans : r.key = n =>
             /\ reassembler.active[n].duplicates = r.duplicates
             /\ reassembler.active[n].conflicts = r.conflicts
      BY <1>2 DEF IInv, CountsSound, Moved
    <2>2. CASE j = k
      <3>1. k \in ActiveKeys(reassembler)
        BY <1>1, <2>2, Ingesting
      <3>2. QED
        BY <1>6, <1>8, <2>1, <2>2, <3>1
    <2>3. CASE j # k
      BY <1>12, <2>1, <2>3
    <2>4. QED
      BY <2>2, <2>3
  <1>16. CacheSound'
    BY <1>2, <1>3, <1>4 DEF IInv, CacheSound, CompletedKeys
  <1>17. \A q : InMemory(reassembler', backlog', event', q) <=> InTable(reassembler, q) \/ q = p
    <2> SUFFICES ASSUME NEW q
                 PROVE  InMemory(reassembler', backlog', None, q) <=> InTable(reassembler, q) \/ q = p
      BY <1>7
    <2>1. /\ InTable(reassembler, q) =>
                \/ InMemory(reassembler', backlog', None, q)
                \/ k \in ActiveKeys(reassembler) /\ q \in Packets(reassembler.active[k].fragments)
          /\ InMemory(reassembler', backlog', None, q) =>
                \/ InTable(reassembler, q)
                \/ k \in ActiveKeys(reassembler') /\ q \in Packets(reassembler'.active[k].fragments)
      BY <1>2, <1>10, RoomPackets
    <2>2. q \in Packets(y.fragments) => InMemory(reassembler', backlog', None, q)
      BY <1>8, <1>9 DEF InMemory, InTable
    <2>3. k \in ActiveKeys(reassembler) /\ q \in Packets(reassembler.active[k].fragments)
             => InTable(reassembler, q)
      BY DEF InTable
    <2>4. QED
      BY <1>6, <1>8, <2>1, <2>2, <2>3
  <1>18. InTable(reassembler', p)
    BY <1>6, <1>8, <1>9 DEF InTable
  <1>19. CurrentSound'
    BY <1>2, <1>3, <1>7, <1>18 DEF CurrentSound, CurrentFragment
  <1>20. PendingSound'
    <2>1. \A q : InMemory(reassembler, backlog, event, q) <=> InTable(reassembler, q)
      BY <1>2 DEF InMemory
    <2>2. \A q \in pending : q # None
      BY PendingType DEF IInv, PendingSound
    <2>3. QED
      BY <1>2, <1>3, <1>17, <2>1, <2>2 DEF IInv, PendingSound
  <1>21. QED
    BY <1>7, <1>11, <1>12, <1>13, <1>14, <1>15, <1>16, <1>19, <1>20


\* A fragment that completes its scan, which leaves the table and is to be written.
LEMMA IngestComplete ==
    ASSUME IInv, IngestCurrent, NEW f, f = CurrentFragment, NEW p, p = current, NEW t \in Nat,
           NEW v, NEW result, Ingests(f, p, t, v, result),
           CompleteCase(reassembler, reassembler', result, f, p, t, v)
    PROVE  /\ ActiveSound' /\ BacklogSound' /\ EventSound' /\ CountsSound' /\ CacheSound'
           /\ CurrentSound' /\ PendingSound' /\ event' \in Event /\ backlog' \subseteq ReassembledProfile
  <1>1. PICK k : k = f.key
    OBVIOUS
  <1>2. /\ phase \in {"replay", "live"}
        /\ p # None /\ p \in Archived(db) /\ f \in decodes
        /\ k \in Key
        /\ db.packets[p].status = "pending" /\ f = db.packets[p].fragment
        /\ ~ InTable(reassembler, p)
        /\ profiles = {} /\ profile = None /\ backlog = {} /\ event = None
        /\ reassembler \in Reassembler /\ db \in Store /\ StoreSound(db)
    BY <1>1, Ingesting DEF CurrentFragment
  <1>3. /\ db' = db /\ phase' = phase /\ profile' = profile /\ pending' = pending /\ decodes' = decodes
        /\ IF backlog' = {} /\ event' = None
           THEN current' = None /\ stage' = "idle"
           ELSE current' = current /\ stage' = "handle"
    BY IngestEffect
  <1>4. PICK x : /\ FillsSlot(reassembler, f, t, x)
                 /\ result.event = "Complete"
                 /\ result.profile = finish(k, Accept(x, f, p, t))
                 /\ Received(Accept(x, f, p, t).fragments) = fragment_mask(f.metadata)
                 /\ Table(reassembler, reassembler', k, v, None)
                 /\ reassembler' = Complete(Evict(reassembler, v), k, Accept(x, f, p, t))
    BY <1>1 DEF CompleteCase
  <1>5. PICK y : y = Accept(x, f, p, t)
    OBVIOUS
  <1>6. /\ SlotsSound(db, decodes, k, f.metadata, y.fragments)
        /\ y \in ActiveProfile
        /\ y.metadata = f.metadata
        /\ \A q : q \in Packets(y.fragments) <=>
              q = p \/ (k \in ActiveKeys(reassembler) /\ q \in Packets(reassembler.active[k].fragments))
        /\ Covers(db, k, f.metadata, y.fragments)
    BY <1>1, <1>4, <1>5, IngestFills
  <1>7. PICK s : s = finish(k, y)
    OBVIOUS
  <1>8. /\ s \in ReassembledProfile /\ s # None /\ s.key = k
        /\ s.metadata = f.metadata /\ s.fragments = y.fragments
    BY <1>2, <1>6, <1>7, FinishType
  <1>9. Received(s.fragments) = fragment_mask(s.metadata)
    BY <1>4, <1>5, <1>8
  <1>10. event' = [event |-> "Complete", profile |-> s, packet |-> p]
    BY <1>4, <1>5, <1>7 DEF Ingests, EventOf
  <1>11. p \in PacketId
    BY <1>2, ArchivedType
  <1>12. event' \in Event
    BY <1>8, <1>10, <1>11 DEF Event
  <1>13. event' # None /\ event'.event = "Complete" /\ event'.profile = s /\ event'.packet = p
    BY <1>10, <1>12, EventNoneAssumption
  <1>14. current' = p /\ stage' = "handle"
    BY <1>3, <1>13
  <1>15. /\ reassembler'.active[k] = None
         /\ \A j \in Key : j # k => reassembler'.active[j] = IF j = v THEN None ELSE reassembler.active[j]
    BY <1>2, <1>4 DEF Table
  <1>16. k \notin ActiveKeys(reassembler')
    BY <1>15 DEF ActiveKeys
  <1>17. Room(reassembler, reassembler', k, v, backlog')
    BY <1>1, <1>15 DEF Room, Ingests
  <1>18. /\ BacklogSound'
         /\ \A j \in ActiveKeys(reassembler') : j # k =>
               /\ SlotsSound(db', decodes', j, reassembler'.active[j].metadata,
                             reassembler'.active[j].fragments)
               /\ Received(reassembler'.active[j].fragments) #
                     fragment_mask(reassembler'.active[j].metadata)
               /\ Covers(db', j, reassembler'.active[j].metadata,
                         reassembler'.active[j].fragments)
    <2>1. \A j : Restoring(profile, j) => j = k
      BY <1>2 DEF Restoring
    <2>2. QED
      BY <1>2, <1>3, <1>17, <2>1, RoomSound
  <1>19. /\ backlog' \subseteq ReassembledProfile
         /\ \A j \in ActiveKeys(reassembler') :
               j # k => j \in ActiveKeys(reassembler) /\ reassembler'.active[j] = reassembler.active[j]
         /\ \A u \in backlog' : u.key # k
    <2>1. reassembler \in Reassembler
      BY <1>2
    <2>2. k \in Key
      BY <1>2
    <2>3. backlog' \subseteq ReassembledProfile
      BY ONLY <1>17, <2>1, <2>2, RoomMemory
    <2>4. \A j \in ActiveKeys(reassembler') :
             j # k => j \in ActiveKeys(reassembler) /\ reassembler'.active[j] = reassembler.active[j]
      BY ONLY <1>17, <2>1, <2>2, RoomMemory
    <2>5. \A u \in backlog' :
             /\ u.key \in ActiveKeys(reassembler)
             /\ u.key # k
             /\ u.key \notin ActiveKeys(reassembler')
      BY ONLY SMTT(20), <1>17, <2>1, <2>2, RoomMemory
    <2>6. QED
      BY <2>3, <2>4, <2>5
  <1>20. ActiveSound'
    BY <1>16, <1>18 DEF ActiveSound
  <1>21. EventSound'
    <2>1. CompleteSound(event)'
      BY <1>6, <1>8, <1>9, <1>13, <1>14, <1>16 DEF CompleteSound
    <2>2. QED
      BY <1>3, <1>6, <1>8, <1>13, <1>14, <1>19, <2>1 DEF EventSound
  <1>22. CountsSound'
    BY <1>2, <1>3, <1>16, <1>19 DEF IInv, CountsSound, Moved
  <1>23. CacheSound'
    <2>1. \A j \in CompletedKeys(reassembler') : j = k \/ j \in CompletedKeys(reassembler)
      <3>1. PICK e : e = Evict(reassembler, v)
        OBVIOUS
      <3>2. e \in Reassembler /\ e.completed = reassembler.completed
        BY <1>2, <3>1 DEF Evict, Reassembler, Ingests, ActiveKeys
      <3>3. \A j \in Key : j # k /\ e.completed[j] = None => reassembler'.completed[j] = None
        BY <1>2, <1>4, <1>5, <1>6, <3>1, <3>2, CompleteType
      <3>4. QED
        BY <3>2, <3>3 DEF CompletedKeys
    <2>2. \A j \in CompletedKeys(reassembler) :
             \E row \in db.scans : row.key = j /\ TransportComplete(row)
      BY <1>2 DEF IInv, CacheSound
    <2>3. QED
      BY <1>3, <1>8, <1>13, <2>1, <2>2 DEF CacheSound
  <1>24. \A q : InMemory(reassembler', backlog', event', q) <=> InTable(reassembler, q) \/ q = p
    <2> SUFFICES ASSUME NEW q
                 PROVE  InMemory(reassembler', backlog', event', q) <=> InTable(reassembler, q) \/ q = p
      OBVIOUS
    <2>1. /\ InTable(reassembler, q) =>
                \/ InMemory(reassembler', backlog', None, q)
                \/ k \in ActiveKeys(reassembler) /\ q \in Packets(reassembler.active[k].fragments)
          /\ InMemory(reassembler', backlog', None, q) =>
                \/ InTable(reassembler, q)
                \/ k \in ActiveKeys(reassembler') /\ q \in Packets(reassembler'.active[k].fragments)
      BY <1>2, <1>17, RoomPackets
    <2>2. InMemory(reassembler', backlog', event', q) <=>
             InMemory(reassembler', backlog', None, q) \/ q \in Packets(y.fragments)
      BY <1>8, <1>13 DEF InMemory
    <2>3. k \in ActiveKeys(reassembler) /\ q \in Packets(reassembler.active[k].fragments)
             => InTable(reassembler, q)
      BY DEF InTable
    <2>4. QED
      BY <1>6, <1>16, <2>1, <2>2, <2>3
  <1>25. CurrentSound'
    BY <1>2, <1>3, <1>13, <1>14 DEF CurrentSound, CurrentFragment
  <1>26. PendingSound'
    <2>1. \A q : InMemory(reassembler, backlog, event, q) <=> InTable(reassembler, q)
      BY <1>2 DEF InMemory
    <2>2. QED
      BY <1>2, <1>3, <1>14, <1>24, <2>1 DEF IInv, PendingSound
  <1>27. QED
    BY <1>12, <1>18, <1>19, <1>20, <1>21, <1>22, <1>23, <1>25, <1>26

\* The packet in hand is ingested.
LEMMA IngestCurrentStep ==
    ASSUME IInv, IngestCurrent
    PROVE  IInv'
  <1>1. PICK f : f = CurrentFragment
    OBVIOUS
  <1>2. PICK p : p = current
    OBVIOUS
  <1>3. /\ \E t \in Nat : \E v, result : Ingests(f, p, t, v, result)
        /\ db' = db /\ rejected' = rejected /\ exits' = exits /\ failure' = failure
        /\ phase' = phase /\ clock' = clock /\ profiles' = profiles /\ profile' = profile
        /\ left' = left /\ counts_restored' = counts_restored /\ quarantined' = quarantined
        /\ pending' = pending /\ decodes' = decodes
        /\ IF backlog' = {} /\ event' = None
           THEN current' = None /\ stage' = "idle"
           ELSE current' = current /\ stage' = "handle"
    BY <1>1, <1>2, IngestEffect
  <1>0. PICK t \in Nat : \E v, result : Ingests(f, p, t, v, result)
    BY <1>3
  <1>4. PICK v, result : Ingests(f, p, t, v, result)
    BY <1>0
  <1>5. /\ phase \in {"replay", "live"} /\ current # None /\ profiles = {} /\ profile = None
    BY Ingesting
  <1>6. /\ ActiveSound' /\ BacklogSound' /\ EventSound' /\ CountsSound' /\ CacheSound'
        /\ CurrentSound' /\ PendingSound'
        /\ event' \in Event \cup {None} /\ backlog' \subseteq ReassembledProfile
    <2>1. CASE CountedCase(reassembler, reassembler', result, f, v)
      BY <1>1, <1>2, <1>4, <2>1, IngestCounted
    <2>2. CASE PendingCase(reassembler, reassembler', result, f, p, t, v)
      BY <1>1, <1>2, <1>4, <2>2, IngestPending
    <2>3. CASE CompleteCase(reassembler, reassembler', result, f, p, t, v)
      BY <1>1, <1>2, <1>4, <2>3, IngestComplete
    <2>4. QED
      BY <1>4, <2>1, <2>2, <2>3 DEF Ingests
  <1>7. TypeOK'
    <2>1. /\ current' \in PacketId \cup {None}
          /\ stage' \in {"idle", "reconcile", "ingest", "handle"}
          /\ reassembler' \in Reassembler
      BY <1>3, <1>4 DEF IInv, TypeOK, Ingests
    <2>2. QED
      BY <1>3, <1>6, <2>1 DEF IInv, TypeOK
  <1>8. ProfilesSound' /\ ProfileSound' /\ StoreSound(db') /\ FailureSound'
    BY <1>3, <1>5 DEF IInv, ProfilesSound, ProfileSound, FailureSound
  <1>9. PhaseSound' /\ SearchedSound'
    BY <1>3, <1>5 DEF IInv, PhaseSound, SearchedSound
  <1>10. DecodeSound'
    BY <1>3 DEF IInv, DecodeSound
  <1>11. QED
    BY <1>6, <1>7, <1>8, <1>9, <1>10 DEF IInv


-----------------------------------------------------------------------------
(***************************************************************************)
(* A scan is written.                                                      *)
(***************************************************************************)
\* The rows of store e, which is store d with the row of scan s.
RowsAfter(d, e, ok, s, row) ==
    /\ row \in e.scans
    /\ RowOf(s, row)
    /\ Received(row.fragments) = Received(s.fragments)
    /\ \A i \in Received(s.fragments) : row.fragments[i] = s.fragments[i].packet
    /\ TransportComplete(row) <=> Received(s.fragments) = fragment_mask(s.metadata)
    /\ \A r \in e.scans : r = row \/ (r \in d.scans /\ r.key # s.key)
    /\ \A r \in d.scans : r.key # s.key => r \in e.scans
    /\ \A i \in Received(row.fragments) : e.packets[row.fragments[i]].fragment \in ok
    /\ \A r \in d.scans : \A i \in Received(r.fragments) :
          e.packets[r.fragments[i]].fragment = d.packets[r.fragments[i]].fragment

\* The row of the scan is the only one of its key.
LEMMA InsertedRows ==
    ASSUME NEW d \in Store, StoreSound(d), NEW s \in ReassembledProfile, NEW ok, NEW e,
           SlotsSound(d, ok, s.key, s.metadata, s.fragments), Inserted(d, e, s)
    PROVE  \E row : RowsAfter(d, e, ok, s, row)
  <1>1. /\ e \in Store /\ StoreSound(e) /\ OtherKeys(d, e, s.key)
        /\ \E row \in e.scans : RowOf(s, row)
    BY DEF Inserted
  <1>2. PICK row \in e.scans : RowOf(s, row)
    BY <1>1
  <1>3. e.scans \subseteq ScanRow /\ d.scans \subseteq ScanRow
    BY <1>1 DEF Store
  <1>4. /\ Received(row.fragments) = Received(s.fragments)
        /\ \A i \in Received(s.fragments) : row.fragments[i] = s.fragments[i].packet
        /\ TransportComplete(row) <=> Received(s.fragments) = fragment_mask(s.metadata)
    BY <1>2, <1>3, RowOfScan
  <1>5. row.key = s.key
    BY <1>2 DEF RowOf
  <1>6. \A r \in e.scans : r = row \/ (r \in d.scans /\ r.key # s.key)
    BY <1>1, <1>2, <1>3, <1>5 DEF StoreSound, OneRow, OtherKeys
  <1>7. \A r \in d.scans : r.key # s.key => r \in e.scans
    BY <1>1, <1>3 DEF OtherKeys
  <1>8. \A i \in Received(row.fragments) : e.packets[row.fragments[i]].fragment \in ok
    BY <1>1, <1>4 DEF SlotsSound, OtherKeys
  <1>9. \A r \in d.scans : \A i \in Received(r.fragments) :
          e.packets[r.fragments[i]].fragment = d.packets[r.fragments[i]].fragment
    BY <1>1 DEF StoreSound, RowSound, OtherKeys
  <1>10. QED
    BY <1>2, <1>4, <1>6, <1>7, <1>8, <1>9 DEF RowsAfter

\* An evicted, expired or drained scan is written: it is incomplete, and nothing else in memory or
\* under way has its key.
LEMMA PersistProfileStep ==
    ASSUME IInv, PersistProfile
    PROVE  IInv'
  <1>1. PICK s \in backlog :
          IF UniquePacketViolation(db, s)
          THEN Exit("Sqlite")
          ELSE /\ db' = insert_profile_scan(db, s)
               /\ backlog' = backlog \ {s}
               /\ UNCHANGED event
               /\ FinishFragment(stage)
               /\ UNCHANGED <<rejected, exits, failure, phase, reassembler, clock, restore, pending>>
    BY DEF PersistProfile
  <1>2. PICK k : k = s.key
    OBVIOUS
  <1>3. /\ s \in ReassembledProfile /\ db \in Store /\ StoreSound(db) /\ reassembler \in Reassembler
        /\ SlotsSound(db, decodes, k, s.metadata, s.fragments)
        /\ Received(s.fragments) # fragment_mask(s.metadata)
        /\ Covers(db, k, s.metadata, s.fragments)
        /\ k \notin ActiveKeys(reassembler)
        /\ ~ Restoring(profile, k)
        /\ \A t \in backlog : t # s => t.key # k
    BY <1>2 DEF IInv, TypeOK, BacklogSound
  <1>4. PICK e : e = insert_profile_scan(db, s)
    OBVIOUS
  <1>5. /\ ~ UniquePacketViolation(db, s)
        /\ Inserted(db, e, s)
        /\ \A p \in Archived(db) :
              e.packets[p].status =
                  IF p \in Packets(s.fragments) THEN StatusOf(s) ELSE db.packets[p].status
    BY <1>2, <1>3, <1>4, InsertEffect
  <1>6. /\ db' = e /\ backlog' = backlog \ {s} /\ event' = event
        /\ rejected' = rejected /\ exits' = exits /\ failure' = failure /\ phase' = phase
        /\ reassembler' = reassembler /\ clock' = clock /\ pending' = pending
        /\ profiles' = profiles /\ profile' = profile /\ left' = left
        /\ counts_restored' = counts_restored /\ quarantined' = quarantined
        /\ IF stage = "handle" /\ backlog' = {} /\ event = None
           THEN current' = None /\ stage' = "idle"
           ELSE current' = current /\ stage' = stage
    BY <1>1, <1>4, <1>5 DEF FinishFragment, restore
  <1>7. decodes' = decodes
    BY <1>6 DEF decodes
  <1>8. /\ e \in Store /\ StoreSound(e) /\ OtherKeys(db, e, k) /\ Archived(e) = Archived(db)
    BY <1>2, <1>5 DEF Inserted
  <1>9. PICK row : RowsAfter(db, e, decodes, s, row)
    BY <1>2, <1>3, <1>5, InsertedRows
  <1>10. /\ row \in e.scans /\ row.key = k
         /\ ~ TransportComplete(row)
         /\ \A r \in e.scans : r = row \/ (r \in db.scans /\ r.key # k)
         /\ \A r \in db.scans : r.key # k => r \in e.scans
         /\ \A i \in Received(row.fragments) : e.packets[row.fragments[i]].fragment \in decodes
         /\ \A r \in db.scans : \A i \in Received(r.fragments) :
               e.packets[r.fragments[i]].fragment = db.packets[r.fragments[i]].fragment
    BY <1>2, <1>3, <1>9 DEF RowsAfter, RowOf
  <1>11. \A p \in Archived(db) : e.packets[p].status =
            IF p \in Packets(s.fragments) THEN "incomplete" ELSE db.packets[p].status
    BY <1>3, <1>5 DEF StatusOf
  <1>12. \A p \in Archived(db) : e.packets[p].fragment = db.packets[p].fragment
    BY <1>8 DEF OtherKeys
  <1>13. event # None => event.profile.key # k
    BY <1>2 DEF IInv, EventSound
  <1>14. TypeOK'
    <2>1. /\ current' \in PacketId \cup {None}
          /\ stage' \in {"idle", "reconcile", "ingest", "handle"}
          /\ backlog' \subseteq ReassembledProfile
      BY <1>6 DEF IInv, TypeOK
    <2>2. QED
      BY <1>6, <1>8, <2>1 DEF IInv, TypeOK
  <1>15. \A j, ok, m, fr : j # k /\ SlotsSound(db, ok, j, m, fr) => SlotsSound(e, ok, j, m, fr)
    BY <1>8, SlotsFrame
  <1>16. \A j, m, fr : j # k /\ Covers(db, j, m, fr) => Covers(e, j, m, fr)
    BY <1>8, CoversFrame
  <1>17. ActiveSound'
    BY <1>3, <1>6, <1>7, <1>15, <1>16 DEF IInv, ActiveSound
  <1>18. BacklogSound'
    BY <1>3, <1>6, <1>7, <1>15, <1>16 DEF IInv, BacklogSound
  <1>19. current # None => current \in Archived(db)
    BY DEF IInv, CurrentSound
  <1>20. EventSound'
    <2> SUFFICES ASSUME event # None
                 PROVE  EventSound'
      BY <1>6 DEF EventSound
    <2>1. /\ event.profile # None /\ stage = "handle" /\ event.packet = current
          /\ SlotsSound(db, decodes, event.profile.key, event.profile.metadata, event.profile.fragments)
          /\ Covers(db, event.profile.key, event.profile.metadata, event.profile.fragments)
          /\ \A t \in backlog : t.key # event.profile.key
          /\ event.event = "Complete" => CompleteSound(event)
          /\ event.event # "Complete" => SnapshotSound(event)
      BY DEF IInv, EventSound
    <2>2. current' = current /\ stage' = "handle" /\ current # None
      BY <1>6, <2>1 DEF IInv, PhaseSound
    <2>3. event.event = "Complete" => CompleteSound(event)'
      BY <1>6, <2>1, <2>2 DEF CompleteSound
    <2>4. event.event # "Complete" => SnapshotSound(event)'
      <3> SUFFICES ASSUME event.event # "Complete"
                   PROVE  SnapshotSound(event)'
        OBVIOUS
      <3>1. SnapshotSound(event)
        BY <2>1
      <3>2. db.packets[current].fragment.key = event.profile.key /\ db.packets[current].status = "pending"
        BY <3>1 DEF SnapshotSound, CurrentFragment
      <3>3. e.packets[current].fragment = db.packets[current].fragment /\ e.packets[current].status = "pending"
        BY <1>8, <1>12, <1>13, <1>19, <2>2, <3>2 DEF OtherKeys
      <3>4. QED
        BY <1>6, <2>2, <3>1, <3>3 DEF SnapshotSound, CurrentFragment
    <2>5. QED
      BY <1>6, <1>7, <1>13, <1>15, <1>16, <2>1, <2>2, <2>3, <2>4 DEF EventSound
  <1>21. CountsSound'
    BY <1>3, <1>6, <1>10 DEF IInv, CountsSound
  <1>22. CacheSound'
    <2>1. \A r \in db.scans : r.key = k => ~ TransportComplete(r)
      BY <1>3 DEF Covers
    <2>2. QED
      BY <1>6, <1>10, <2>1 DEF IInv, CacheSound
  <1>23. ProfilesSound'
    BY <1>2, <1>6, <1>10 DEF IInv, ProfilesSound
  <1>24. ProfileSound'
    BY <1>3, <1>6, <1>10 DEF IInv, ProfileSound, Restoring
  <1>25. PhaseSound' /\ FailureSound'
    BY <1>6 DEF IInv, PhaseSound, FailureSound
  <1>26. \A q : InMemory(reassembler, backlog', event, q) => InMemory(reassembler, backlog, event, q)
    BY <1>6 DEF InMemory
  <1>27. \A q : InMemory(reassembler, backlog, event, q) =>
            q \in Packets(s.fragments) \/ InMemory(reassembler, backlog', event, q)
    BY <1>6 DEF InMemory
  <1>28. SearchedSound'
    <2> SUFFICES ASSUME stage = "ingest", stage' = stage, current' = current
                 PROVE  SearchedSound'
      BY <1>6 DEF SearchedSound
    <2>1. current # None
      BY DEF IInv, PhaseSound
    <2>2. CurrentFragment' = CurrentFragment
      BY <1>6, <1>12, <1>19, <2>1 DEF CurrentFragment
    <2>3. k # CurrentFragment.key
      BY <1>2 DEF IInv, SearchedSound
    <2>4. QED
      BY <1>6, <1>10, <2>2, <2>3 DEF IInv, SearchedSound
  <1>29. CurrentSound'
    <2> SUFFICES ASSUME current # None, stage' = stage, current' = current
                 PROVE  CurrentSound'
      BY <1>6 DEF IInv, PhaseSound, CurrentSound
    <2>1. CurrentFragment' = CurrentFragment
      BY <1>6, <1>12, <1>19 DEF CurrentFragment
    <2>2. stage # "reconcile"
      BY DEF IInv, PhaseSound
    <2>3. stage = "ingest" => e.packets[current].status = "pending"
      <3> SUFFICES ASSUME stage = "ingest"
                   PROVE  e.packets[current].status = "pending"
        OBVIOUS
      <3>1. db.packets[current].status = "pending"
        BY DEF IInv, CurrentSound
      <3>2. CurrentFragment.key # k
        BY <1>2 DEF IInv, SearchedSound
      <3>3. QED
        BY <1>8, <1>19, <3>1, <3>2 DEF OtherKeys, CurrentFragment
    <2>4. QED
      BY <1>6, <1>7, <1>8, <1>26, <2>1, <2>2, <2>3 DEF IInv, CurrentSound
  <1>30. PendingSound'
    <2>1. \A q \in WithStatus(e, "pending") : q \in WithStatus(db, "pending") /\ q \notin Packets(s.fragments)
      BY <1>8, <1>11 DEF WithStatus
    <2>2. \A q \in WithStatus(db, "pending") : q \notin Packets(s.fragments) => q \in WithStatus(e, "pending")
      BY <1>8, <1>11 DEF WithStatus
    <2>3. \A q \in Packets(s.fragments) : InMemory(reassembler, backlog, event, q)
      BY DEF InMemory
    <2>4. \A q \in WithStatus(db, "pending") :
             q = current => q = current' \/ InMemory(reassembler, backlog', event, q)
      BY <1>6, PendingType DEF IInv, CurrentSound, InMemory
    <2>5. \A q \in pending : q # None /\ q # current
      BY PendingType DEF IInv, PendingSound
    <2>6. \A q \in pending : q # current'
      BY <1>6, <2>5
    <2>7. (phase \in {"replay", "live", "stopping"})' =>
             \A q \in WithStatus(db', "pending") :
                 q \in pending' \/ q = current' \/ InMemory(reassembler', backlog', event', q)
      BY <1>6, <1>27, <2>1, <2>4 DEF IInv, PendingSound
    <2>8. (phase = "restore")' =>
             \A q \in WithStatus(db', "pending") : ~ InMemory(reassembler', backlog', event', q)
      BY <1>6, <1>26, <2>1 DEF IInv, PendingSound
    <2>9. \A q \in pending' :
             /\ q \in WithStatus(db', "pending") /\ ~ InMemory(reassembler', backlog', event', q)
             /\ q # current'
      BY <1>6, <1>26, <2>2, <2>3, <2>6 DEF IInv, PendingSound
    <2>10. QED
      BY <2>7, <2>8, <2>9 DEF PendingSound
  <1>31. DecodeSound'
    BY <1>6, <1>7, <1>10 DEF IInv, DecodeSound
  <1>32. QED
    BY <1>6, <1>8, <1>14, <1>17, <1>18, <1>20, <1>21, <1>22, <1>23, <1>24, <1>25, <1>28, <1>29, <1>30,
       <1>31 DEF IInv


\* The result of an ingest is written: a complete scan that has left the table, or a snapshot of an
\* active scan with the verdict of the packet that moved its counter.
LEMMA HandleEventStep ==
    ASSUME IInv, HandleEvent
    PROVE  IInv'
  <1>1. PICK s : s = event.profile
    OBVIOUS
  <1>2. PICK k : k = s.key
    OBVIOUS
  <1>3. PICK p : p = current
    OBVIOUS
  <1>4. /\ backlog = {} /\ event # None /\ s # None /\ stage = "handle" /\ event.packet = p
        /\ SlotsSound(db, decodes, k, s.metadata, s.fragments)
        /\ Covers(db, k, s.metadata, s.fragments)
        /\ event.event = "Complete" => CompleteSound(event)
        /\ event.event # "Complete" => SnapshotSound(event)
    BY <1>1, <1>2, <1>3 DEF HandleEvent, IInv, EventSound
  <1>5. /\ s \in ReassembledProfile
        /\ event.event \in {"Complete", "Duplicate", "Conflict"}
        /\ db \in Store /\ StoreSound(db) /\ reassembler \in Reassembler
    BY <1>1, <1>4 DEF IInv, TypeOK, Event
  <1>6. /\ phase \in {"replay", "live"} /\ p # None /\ profiles = {} /\ profile = None
    BY <1>3, <1>4 DEF IInv, PhaseSound, TypeOK
  <1>7. p \in Archived(db)
    BY <1>3, <1>6 DEF IInv, CurrentSound
  <1>8. k \in Key
    BY <1>2, <1>5, ReassembledType
  <1>9. ~ UniquePacketViolation(db, s)
    BY <1>2, <1>4, <1>5, InsertEffect
  <1>10. PICK st : st = IF event.event = "Duplicate" THEN "duplicate" ELSE "conflict"
    OBVIOUS
  <1>11. PICK e : e = IF event.event = "Complete" THEN insert_profile_scan(db, s)
                      ELSE insert_profile_integrity_snapshot(db, s, p, st)
    OBVIOUS
  <1>12. /\ db' = e /\ event' = None /\ backlog' = {}
         /\ rejected' = rejected /\ exits' = exits /\ failure' = failure /\ phase' = phase
         /\ reassembler' = reassembler /\ clock' = clock /\ pending' = pending
         /\ profiles' = profiles /\ profile' = profile /\ left' = left
         /\ counts_restored' = counts_restored /\ quarantined' = quarantined
         /\ current' = None /\ stage' = "idle"
    BY <1>1, <1>4, <1>9, <1>10, <1>11 DEF HandleEvent, FinishFragment, restore
  <1>13. decodes' = decodes
    BY <1>12 DEF decodes
  \* What the two kinds of event have in common: the packets of the scan and the packet in hand
  \* are no longer pending, and no others change.
  <1>14. /\ Inserted(db, e, s)
         /\ \A q \in Archived(db) : q \in Packets(s.fragments) => e.packets[q].status = StatusOf(s)
         /\ e.packets[p].status # "pending"
         /\ \A q \in Archived(db) : q \notin Packets(s.fragments) /\ q # p =>
               e.packets[q].status = db.packets[q].status
         /\ IF event.event = "Complete"
            THEN /\ k \notin ActiveKeys(reassembler)
                 /\ Received(s.fragments) = fragment_mask(s.metadata)
            ELSE /\ k \in ActiveKeys(reassembler)
                 /\ s = finish(k, reassembler.active[k])
                 /\ Received(s.fragments) # fragment_mask(s.metadata)
    <2>1. CASE event.event = "Complete"
      <3>1. /\ k \notin ActiveKeys(reassembler)
            /\ Received(s.fragments) = fragment_mask(s.metadata)
            /\ p \in Packets(s.fragments)
        BY <1>1, <1>2, <1>3, <1>4, <2>1 DEF CompleteSound
      <3>2. e = insert_profile_scan(db, s)
        BY <1>11, <2>1
      <3>3. /\ Inserted(db, e, s)
            /\ \A q \in Archived(db) :
                  e.packets[q].status =
                      IF q \in Packets(s.fragments) THEN StatusOf(s) ELSE db.packets[q].status
        BY <1>2, <1>4, <1>5, <3>2, InsertEffect
      <3>4. StatusOf(s) # "pending"
        BY DEF StatusOf
      <3>5. QED
        BY <1>7, <2>1, <3>1, <3>3, <3>4
    <2>2. CASE event.event # "Complete"
      <3>1. /\ k \in ActiveKeys(reassembler)
            /\ s = finish(k, reassembler.active[k])
            /\ db.packets[p].status = "pending"
            /\ db.packets[p].fragment.key = k
            /\ p \notin Packets(s.fragments)
        BY <1>1, <1>2, <1>3, <1>4, <2>2 DEF SnapshotSound, CurrentFragment
      <3>2. s.metadata = reassembler.active[k].metadata /\ s.fragments = reassembler.active[k].fragments
        BY <3>1 DEF finish
      <3>3. Received(s.fragments) # fragment_mask(s.metadata)
        BY <3>1, <3>2 DEF IInv, ActiveSound
      <3>4. st \in {"duplicate", "conflict"} /\ e = insert_profile_integrity_snapshot(db, s, p, st)
        BY <1>10, <1>11, <2>2
      <3>5. /\ SlotsSound(db, decodes, s.key, s.metadata, s.fragments)
            /\ Covers(db, s.key, s.metadata, s.fragments)
            /\ db.packets[p].fragment.key = s.key
        BY <1>2, <1>4, <3>1
      <3>6. /\ db.packets[p].status = "pending" /\ p \notin Packets(s.fragments)
            /\ st \in {"duplicate", "conflict"}
        BY <3>1, <3>4
      <3>7. /\ Inserted(db, insert_profile_integrity_snapshot(db, s, p, st), s)
            /\ \A q \in Archived(db) :
                  insert_profile_integrity_snapshot(db, s, p, st).packets[q].status =
                      IF q = p THEN st
                      ELSE IF q \in Packets(s.fragments) THEN StatusOf(s) ELSE db.packets[q].status
        BY <1>5, <1>7, <3>5, <3>6, SnapshotEffect
      <3>8. e = insert_profile_integrity_snapshot(db, s, p, st)
        BY <3>4
      <3>9. QED
        BY <1>7, <2>2, <3>1, <3>3, <3>6, <3>7, <3>8
    <2>3. QED
      BY <2>1, <2>2
  <1>15. e \in Store /\ StoreSound(e) /\ OtherKeys(db, e, k) /\ Archived(e) = Archived(db)
    BY <1>2, <1>14 DEF Inserted
  <1>16. PICK row : RowsAfter(db, e, decodes, s, row)
    BY <1>2, <1>4, <1>5, <1>14, InsertedRows
  <1>17. /\ row \in e.scans /\ row.key = k /\ row.metadata = s.metadata
         /\ row.duplicates = s.duplicates /\ row.conflicts = s.conflicts
         /\ Received(row.fragments) = Received(s.fragments)
         /\ \A i \in Received(s.fragments) : row.fragments[i] = s.fragments[i].packet
         /\ TransportComplete(row) <=> Received(s.fragments) = fragment_mask(s.metadata)
         /\ \A r \in e.scans : r = row \/ (r \in db.scans /\ r.key # k)
         /\ \A r \in db.scans : r.key # k => r \in e.scans
         /\ \A i \in Received(row.fragments) : e.packets[row.fragments[i]].fragment \in decodes
         /\ \A r \in db.scans : \A i \in Received(r.fragments) :
               e.packets[r.fragments[i]].fragment = db.packets[r.fragments[i]].fragment
    BY <1>2, <1>16 DEF RowsAfter, RowOf
  <1>18. \A q \in Archived(db) : e.packets[q].fragment = db.packets[q].fragment
    BY <1>15 DEF OtherKeys
  <1>19. TypeOK'
    BY <1>12, <1>15 DEF IInv, TypeOK
  <1>20. ActiveSound'
    <2> SUFFICES ASSUME NEW j \in ActiveKeys(reassembler)
                 PROVE  /\ SlotsSound(e, decodes, j, reassembler.active[j].metadata,
                                      reassembler.active[j].fragments)
                        /\ Received(reassembler.active[j].fragments) #
                              fragment_mask(reassembler.active[j].metadata)
                        /\ Covers(e, j, reassembler.active[j].metadata,
                                  reassembler.active[j].fragments)
      BY <1>12, <1>13 DEF ActiveSound
    <2>1. /\ SlotsSound(db, decodes, j, reassembler.active[j].metadata, reassembler.active[j].fragments)
          /\ Received(reassembler.active[j].fragments) # fragment_mask(reassembler.active[j].metadata)
          /\ Covers(db, j, reassembler.active[j].metadata, reassembler.active[j].fragments)
      BY <1>6 DEF IInv, ActiveSound, Restoring
    <2>2. CASE j # k
      BY <1>15, <2>1, <2>2, SlotsFrame, CoversFrame
    <2>3. CASE j = k
      <3>1. /\ s = finish(k, reassembler.active[k])
            /\ Received(s.fragments) # fragment_mask(s.metadata)
        BY <1>14, <2>3
      <3>2. s.metadata = reassembler.active[j].metadata /\ s.fragments = reassembler.active[j].fragments
        BY <2>3, <3>1 DEF finish
      <3>3. StatusOf(s) = "incomplete"
        BY <3>1 DEF StatusOf
      <3>4. \A i \in Received(s.fragments) : s.fragments[i].packet \in Packets(s.fragments)
        BY DEF Packets
      <3>5. SlotsSound(e, decodes, k, s.metadata, s.fragments)
        BY <1>4, <1>14, <1>15, <1>18, <3>3, <3>4 DEF SlotsSound
      <3>6. \A i \in Received(s.fragments) : s.fragments[i] # None
        BY DEF Received
      <3>7. Covers(e, k, s.metadata, s.fragments)
        BY <1>17, <3>1, <3>6 DEF Covers
      <3>8. QED
        BY <2>1, <2>3, <3>2, <3>5, <3>7
    <2>4. QED
      BY <2>2, <2>3
  <1>21. BacklogSound' /\ EventSound' /\ ProfilesSound' /\ ProfileSound'
    BY <1>6, <1>12 DEF BacklogSound, EventSound, ProfilesSound, ProfileSound
  <1>22. CountsSound'
    <2> SUFFICES ASSUME NEW j \in ActiveKeys(reassembler), NEW r \in e.scans, r.key = j
                 PROVE  /\ reassembler.active[j].duplicates = r.duplicates
                        /\ reassembler.active[j].conflicts = r.conflicts
      BY <1>12 DEF CountsSound
    <2>1. CASE j # k
      <3>1. r \in db.scans /\ ~ Moved(event, j)
        BY <1>1, <1>2, <1>17, <2>1 DEF Moved
      <3>2. QED
        BY <3>1 DEF IInv, CountsSound
    <2>2. CASE j = k
      <3>1. r = row /\ s = finish(k, reassembler.active[k])
        BY <1>14, <1>17, <2>2
      <3>2. s.duplicates = reassembler.active[k].duplicates /\ s.conflicts = reassembler.active[k].conflicts
        BY <3>1 DEF finish
      <3>3. QED
        BY <1>17, <2>2, <3>1, <3>2
    <2>3. QED
      BY <2>1, <2>2
  <1>23. CacheSound'
    <2>1. \A r \in db.scans : r.key = k => ~ TransportComplete(r)
      BY <1>4 DEF Covers
    <2>2. event.event = "Complete" => TransportComplete(row)
      BY <1>14, <1>17
    <2>3. QED
      BY <1>1, <1>2, <1>12, <1>17, <2>1, <2>2 DEF IInv, CacheSound
  <1>24. PhaseSound' /\ FailureSound'
    BY <1>6, <1>12 DEF IInv, PhaseSound, FailureSound
  <1>25. SearchedSound' /\ CurrentSound'
    BY <1>12 DEF SearchedSound, CurrentSound
  <1>26. PendingSound'
    <2>1. StatusOf(s) # "pending"
      BY DEF StatusOf
    <2>2. \A q \in WithStatus(e, "pending") :
             q \in WithStatus(db, "pending") /\ q \notin Packets(s.fragments) /\ q # p
      BY <1>14, <1>15, <2>1 DEF WithStatus
    <2>3. \A q \in WithStatus(db, "pending") :
             q \notin Packets(s.fragments) /\ q # p => q \in WithStatus(e, "pending")
      BY <1>14, <1>15 DEF WithStatus
    <2>4. \A q : InMemory(reassembler, backlog, event, q) <=>
             InMemory(reassembler, {}, None, q) \/ q \in Packets(s.fragments)
      BY <1>1, <1>4 DEF InMemory
    <2>5. \A q \in pending : q # None
      BY PendingType DEF IInv, PendingSound
    <2>6. QED
      BY <1>3, <1>6, <1>12, <2>2, <2>3, <2>4, <2>5 DEF IInv, PendingSound
  <1>27. DecodeSound'
    BY <1>12, <1>13, <1>17 DEF IInv, DecodeSound
  <1>28. QED
    BY <1>12, <1>15, <1>19, <1>20, <1>21, <1>22, <1>23, <1>24, <1>25, <1>26, <1>27 DEF IInv


-----------------------------------------------------------------------------
(***************************************************************************)
(* Scans leave the table for the backlog.                                  *)
(***************************************************************************)
\* The scans of some keys are taken from the table while the process waits for the radio.
LEMMA MoveStep ==
    ASSUME IInv, Idle, NEW keys \in SUBSET ActiveKeys(reassembler), reassembler' \in Reassembler,
           \A j \in Key :
               reassembler'.active[j] = IF j \in keys THEN None ELSE reassembler.active[j],
           \A j \in Key : reassembler'.completed[j] \in {reassembler.completed[j], None},
           backlog' = FinishAll(reassembler, keys),
           phase' = phase \/ (phase' = "stopping" /\ keys = ActiveKeys(reassembler)),
           exits' \in Nat,
           db' = db, rejected' = rejected, failure' = failure, clock' = clock,
           profiles' = profiles, profile' = profile, left' = left,
           counts_restored' = counts_restored, quarantined' = quarantined, pending' = pending,
           current' = current, stage' = stage, event' = event
    PROVE  IInv'
  <1>1. /\ phase = "live" /\ stage = "idle" /\ backlog = {} /\ event = None
        /\ current = None /\ profiles = {} /\ profile = None /\ pending = {}
        /\ reassembler \in Reassembler
    BY DEF Idle, Written, IInv, PhaseSound, TypeOK
  <1>2. decodes' = decodes
    BY DEF decodes
  <1>3. /\ ActiveKeys(reassembler') = ActiveKeys(reassembler) \ keys
        /\ \A j \in ActiveKeys(reassembler') : reassembler'.active[j] = reassembler.active[j]
        /\ CompletedKeys(reassembler') \subseteq CompletedKeys(reassembler)
    BY DEF ActiveKeys, CompletedKeys
  <1>4. backlog' \subseteq ReassembledProfile
    BY <1>1, FinishAllType
  <1>5. \A s \in backlog' :
           /\ s.key \in keys
           /\ s = finish(s.key, reassembler.active[s.key])
           /\ s.metadata = reassembler.active[s.key].metadata
           /\ s.fragments = reassembler.active[s.key].fragments
    BY DEF FinishAll, finish
  <1>6. \A j \in keys : \E s \in backlog' : s.fragments = reassembler.active[j].fragments
    <2> SUFFICES ASSUME NEW j \in keys
                 PROVE  \E s \in backlog' : s.fragments = reassembler.active[j].fragments
      OBVIOUS
    <2>1. finish(j, reassembler.active[j]) \in backlog'
      BY DEF FinishAll
    <2>2. finish(j, reassembler.active[j]).fragments = reassembler.active[j].fragments
      BY DEF finish
    <2>3. QED
      BY <2>1, <2>2
  <1>7. \A j \in ActiveKeys(reassembler) :
           /\ SlotsSound(db, decodes, j, reassembler.active[j].metadata, reassembler.active[j].fragments)
           /\ Received(reassembler.active[j].fragments) # fragment_mask(reassembler.active[j].metadata)
           /\ Covers(db, j, reassembler.active[j].metadata, reassembler.active[j].fragments)
    BY <1>1 DEF IInv, ActiveSound, Restoring
  <1>8. TypeOK'
    BY <1>4 DEF IInv, TypeOK
  <1>9. ActiveSound'
    BY <1>2, <1>3, <1>7 DEF ActiveSound
  <1>10. BacklogSound'
    <2>1. \A s \in backlog' :
             /\ SlotsSound(db, decodes, s.key, s.metadata, s.fragments)
             /\ Received(s.fragments) # fragment_mask(s.metadata)
             /\ Covers(db, s.key, s.metadata, s.fragments)
             /\ s.key \notin ActiveKeys(reassembler')
      BY <1>3, <1>5, <1>7
    <2>2. \A s, t \in backlog' : s.key = t.key => s = t
      BY <1>5
    <2>3. QED
      BY <1>1, <1>2, <2>1, <2>2 DEF BacklogSound, Restoring
  <1>11. EventSound' /\ ProfilesSound' /\ ProfileSound' /\ FailureSound'
    BY <1>1 DEF IInv, EventSound, ProfilesSound, ProfileSound, FailureSound
  <1>12. CountsSound' /\ CacheSound'
    BY <1>1, <1>3 DEF IInv, CountsSound, CacheSound
  <1>13. PhaseSound' /\ SearchedSound' /\ CurrentSound'
    BY <1>1, <1>3 DEF IInv, PhaseSound, SearchedSound, CurrentSound
  <1>14. \A q : InMemory(reassembler, backlog, event, q) => InMemory(reassembler', backlog', event', q)
    BY <1>1, <1>3, <1>6 DEF InMemory, InTable
  <1>15. PendingSound'
    BY <1>1, <1>14 DEF IInv, PendingSound
  <1>16. DecodeSound'
    BY <1>1, <1>2 DEF IInv, DecodeSound
  <1>17. StoreSound(db')
    BY DEF IInv
  <1>18. QED
    BY <1>8, <1>9, <1>10, <1>11, <1>12, <1>13, <1>15, <1>16, <1>17 DEF IInv

\* Scans expire.
LEMMA PersistExpiredStep ==
    ASSUME IInv, NEW cutoff \in Nat, PersistExpired(cutoff)
    PROVE  IInv'
  <1>1. /\ Idle
        /\ reassembler' = expire_before(reassembler, cutoff)
        /\ backlog' = FinishAll(reassembler, ExpiredKeys(reassembler, cutoff))
        /\ db' = db /\ rejected' = rejected /\ exits' = exits /\ failure' = failure
        /\ phase' = phase /\ clock' = clock /\ profiles' = profiles /\ profile' = profile
        /\ left' = left /\ counts_restored' = counts_restored /\ quarantined' = quarantined
        /\ pending' = pending /\ current' = current /\ stage' = stage /\ event' = event
    BY DEF PersistExpired, durable, restore, fragment
  <1>2. reassembler \in Reassembler /\ exits \in Nat
    BY DEF IInv, TypeOK
  <1>3. PICK keys : keys = ExpiredKeys(reassembler, cutoff)
    OBVIOUS
  <1>4. /\ reassembler' \in Reassembler
        /\ \A j \in Key : reassembler'.active[j] = IF j \in keys THEN None ELSE reassembler.active[j]
        /\ \A j \in Key : reassembler'.completed[j] \in {reassembler.completed[j], None}
        /\ keys \in SUBSET ActiveKeys(reassembler)
    BY <1>1, <1>2, <1>3, ExpireType
  <1>5. backlog' = FinishAll(reassembler, keys)
    BY <1>1, <1>3
  <1>6. QED
    BY <1>1, <1>2, <1>4, <1>5, MoveStep

\* The loop ends and the table is drained.
LEMMA StopStep ==
    ASSUME IInv, Stop
    PROVE  IInv'
  <1>1. /\ Idle
        /\ reassembler' = drain_incomplete(reassembler)
        /\ backlog' = FinishAll(reassembler, ActiveKeys(reassembler))
        /\ exits' = exits + 1 /\ phase' = "stopping"
        /\ db' = db /\ rejected' = rejected /\ failure' = failure
        /\ clock' = clock /\ profiles' = profiles /\ profile' = profile
        /\ left' = left /\ counts_restored' = counts_restored /\ quarantined' = quarantined
        /\ pending' = pending /\ current' = current /\ stage' = stage /\ event' = event
    BY DEF Stop, restore, fragment
  <1>2. reassembler \in Reassembler /\ exits' \in Nat
    BY <1>1 DEF IInv, TypeOK
  <1>3. PICK keys : keys = ActiveKeys(reassembler)
    OBVIOUS
  <1>4. /\ reassembler' \in Reassembler
        /\ \A j \in Key : reassembler'.active[j] = IF j \in keys THEN None ELSE reassembler.active[j]
        /\ \A j \in Key : reassembler'.completed[j] \in {reassembler.completed[j], None}
    BY <1>1, <1>2, <1>3, DrainType DEF ActiveKeys
  <1>5. keys \in SUBSET ActiveKeys(reassembler) /\ backlog' = FinishAll(reassembler, keys)
    BY <1>1, <1>3
  <1>6. QED
    BY <1>1, <1>2, <1>3, <1>4, <1>5, MoveStep

-----------------------------------------------------------------------------
(***************************************************************************)
(* The invariant holds.                                                    *)
(***************************************************************************)
\* A step that changes nothing.
LEMMA StutterStep ==
    ASSUME IInv, UNCHANGED vars
    PROVE  IInv'
  <1>1. /\ db' = db /\ rejected' = rejected /\ exits' = exits /\ failure' = failure
        /\ phase' = phase /\ reassembler' = reassembler /\ clock' = clock
        /\ profiles' = profiles /\ profile' = profile /\ left' = left
        /\ counts_restored' = counts_restored /\ quarantined' = quarantined
        /\ pending' = pending /\ current' = current /\ stage' = stage
        /\ backlog' = backlog /\ event' = event
    BY DEF vars, durable, restore, fragment, output
  <1>2. decodes' = decodes
    BY <1>1 DEF decodes
  <1>3. TypeOK' /\ StoreSound(db')
    BY <1>1 DEF IInv, TypeOK
  <1>4. ActiveSound' /\ BacklogSound'
    BY <1>1, <1>2 DEF IInv, ActiveSound, BacklogSound
  <1>5. EventSound'
    BY <1>1, <1>2 DEF IInv, EventSound, CompleteSound, SnapshotSound, CurrentFragment
  <1>6. CountsSound' /\ CacheSound' /\ ProfilesSound' /\ ProfileSound'
    BY <1>1 DEF IInv, CountsSound, CacheSound, ProfilesSound, ProfileSound
  <1>7. PhaseSound' /\ FailureSound'
    BY <1>1 DEF IInv, PhaseSound, FailureSound
  <1>8. SearchedSound' /\ CurrentSound' /\ PendingSound' /\ DecodeSound'
    BY <1>1, <1>2 DEF IInv, SearchedSound, CurrentSound, CurrentFragment, PendingSound, DecodeSound
  <1>9. QED
    BY <1>3, <1>4, <1>5, <1>6, <1>7, <1>8 DEF IInv

\* Every step keeps the invariant.
LEMMA NextIInv ==
    ASSUME OneCountPerKey, IInv, [Next]_vars
    PROVE  IInv'
  <1>1. CASE Start
    BY <1>1, StartStep
  <1>2. CASE LoadPending
    BY <1>2, LoadPendingStep
  <1>3. CASE ReplayPending
    BY <1>3, ReplayPendingStep
  <1>4. CASE OpenRadio
    BY <1>4, OpenRadioStep
  <1>5. CASE OpenProfile
    BY <1>5, OpenProfileStep
  <1>6. CASE RestoreFragment
    BY <1>6, ReplayStep, QuarantineStep
  <1>7. CASE CloseProfile
    BY <1>7, CloseProfileStep
  <1>8. CASE Reconcile
    BY <1>8, MatchStep, MissStep
  <1>9. CASE IngestCurrent
    BY <1>9, IngestCurrentStep
  <1>10. CASE PersistProfile
    BY <1>10, PersistProfileStep
  <1>11. CASE HandleEvent
    BY <1>11, HandleEventStep
  <1>12. CASE \E cutoff \in 1 .. clock + 1 : PersistExpired(cutoff)
    <2>1. PICK cutoff \in 1 .. clock + 1 : PersistExpired(cutoff)
      BY <1>12
    <2>2. cutoff \in Nat
      BY DEF IInv, TypeOK
    <2>3. QED
      BY <2>1, <2>2, PersistExpiredStep
  <1>13. CASE Stopped \/ Crash
    BY <1>13, CrashStep
  <1>14. CASE \E f \in Delivered : Receive(f)
    BY <1>14, ReceiveStep
  <1>15. CASE PollNothing \/ UNCHANGED vars
    BY <1>15, StutterStep DEF PollNothing
  <1>16. CASE Stop
    BY <1>16, StopStep
  <1>17. CASE \E f \in Delivered : UpgradeCodec(f)
    BY <1>17, UpgradeStep
  <1>18. QED
    BY <1>1, <1>2, <1>3, <1>4, <1>5, <1>6, <1>7, <1>8, <1>9, <1>10, <1>11, <1>12, <1>13, <1>14,
       <1>15, <1>16, <1>17 DEF Next, Process, Environment


\* The inductive invariant holds in every reachable state.
THEOREM Safety ==
    ASSUME OneCountPerKey
    PROVE  Spec => []IInv
  <1>1. Init => IInv
    BY InitIInv
  <1>2. IInv /\ [Next]_vars => IInv'
    BY NextIInv
  <1>3. QED
    BY <1>1, <1>2, PTL DEF Spec

-----------------------------------------------------------------------------
(***************************************************************************)
(* What follows from it.                                                   *)
(***************************************************************************)
\* The variables keep their types.
THEOREM TypeCorrect ==
    ASSUME OneCountPerKey
    PROVE  Spec => []TypeOK
  <1>1. IInv => TypeOK
    BY DEF IInv
  <1>2. QED
    BY <1>1, Safety, PTL

\* One row for each logical key, whatever was restored, evicted, replayed or lost in a crash.
THEOREM OneRowPerScan ==
    ASSUME OneCountPerKey
    PROVE  Spec => []OneScanPerKey
  <1>1. IInv => OneScanPerKey
    BY DEF IInv, StoreSound, OneRow, OneScanPerKey
  <1>2. QED
    BY <1>1, Safety, PTL

\* The status of every packet is that of the row that links it, which is of its own scan, and no
\* packet is linked twice.
LEMMA SoundProvenance == IInv => ProvenanceExact
  <1> SUFFICES ASSUME IInv
               PROVE  ProvenanceExact
    OBVIOUS
  <1>1. OneRow(db) /\ NoOrphan(db) /\ \A row \in db.scans : RowSound(db, row)
    BY DEF IInv, StoreSound
  <1>2. \A row \in db.scans : \A p \in Linked(row) :
           /\ p \in Archived(db)
           /\ db.packets[p].fragment.key = row.key
           /\ db.packets[p].status = IF TransportComplete(row) THEN "assembled" ELSE "incomplete"
    BY <1>1 DEF RowSound, Linked
  <1>3. \A p \in Archived(db) :
          /\ db.packets[p].status = "assembled" <=>
                \E row \in db.scans : TransportComplete(row) /\ p \in Linked(row)
          /\ db.packets[p].status = "incomplete" <=>
                \E row \in db.scans : ~ TransportComplete(row) /\ p \in Linked(row)
    <2> SUFFICES ASSUME NEW p \in Archived(db)
                 PROVE  /\ db.packets[p].status = "assembled" <=>
                              \E row \in db.scans : TransportComplete(row) /\ p \in Linked(row)
                        /\ db.packets[p].status = "incomplete" <=>
                              \E row \in db.scans : ~ TransportComplete(row) /\ p \in Linked(row)
      OBVIOUS
    <2>1. db.packets[p].status \in {"assembled", "incomplete"} => \E row \in db.scans : p \in Linked(row)
      BY <1>1 DEF NoOrphan
    <2>2. QED
      BY <1>2, <2>1
  <1>4. \A row \in db.scans : \A i \in Received(row.fragments) :
           /\ db.packets[row.fragments[i]].fragment.key = row.key
           /\ db.packets[row.fragments[i]].fragment.metadata = row.metadata
           /\ db.packets[row.fragments[i]].fragment.fragment_index = i
    BY <1>1 DEF RowSound
  <1>5. \A a, b \in db.scans : a # b => Linked(a) \cap Linked(b) = {}
    BY <1>1, <1>2 DEF OneRow
  <1>6. QED
    BY <1>3, <1>4, <1>5 DEF ProvenanceExact

\* Provenance is exact in every reachable state.
THEOREM ExactProvenance ==
    ASSUME OneCountPerKey
    PROVE  Spec => []ProvenanceExact
  BY Safety, SoundProvenance, PTL

\* While the process waits for the radio, nothing is under way.
LEMMA IdleSound ==
    ASSUME IInv, Idle
    PROVE  /\ phase = "live" /\ backlog = {} /\ event = None
           /\ current = None /\ profile = None /\ pending = {}
  BY DEF Idle, Written, IInv, PhaseSound

\* Then a pending packet fills a slot of an active scan.
LEMMA PendingHeld == IInv => PendingIsHeld
  <1> SUFFICES ASSUME IInv, Idle, NEW p \in WithStatus(db, "pending")
               PROVE  p \in Held
    BY DEF PendingIsHeld
  <1>1. /\ phase = "live" /\ backlog = {} /\ event = None
        /\ current = None /\ profile = None /\ pending = {}
    BY IdleSound
  <1>2. InTable(reassembler, p)
    BY <1>1, PendingType DEF IInv, PendingSound, InMemory
  <1>3. QED
    BY <1>2 DEF InTable, Held

\* No archived fragment is forgotten until the next restart.
THEOREM NothingForgotten ==
    ASSUME OneCountPerKey
    PROVE  Spec => []PendingIsHeld
  BY PendingHeld, Safety, PTL

\* Memory and store agree, counters included, whenever the process waits for the radio.
THEOREM MemoryAgrees ==
    ASSUME OneCountPerKey
    PROVE  Spec => []MemoryMatchesStore
  <1>1. IInv => MemoryMatchesStore
    <2> SUFFICES ASSUME IInv, Idle, NEW k \in ActiveKeys(reassembler), NEW row \in db.scans, row.key = k
                 PROVE  /\ ~ TransportComplete(row)
                        /\ reassembler.active[k].metadata = row.metadata
                        /\ \A i \in Received(row.fragments) :
                              /\ reassembler.active[k].fragments[i] # None
                              /\ reassembler.active[k].fragments[i].packet = row.fragments[i]
                        /\ reassembler.active[k].duplicates = row.duplicates
                        /\ reassembler.active[k].conflicts = row.conflicts
      BY DEF MemoryMatchesStore
    <2>1. event = None /\ profile = None
      BY IdleSound
    <2>2. Covers(db, k, reassembler.active[k].metadata, reassembler.active[k].fragments)
      BY <2>1 DEF IInv, ActiveSound, Restoring
    <2>3. /\ reassembler.active[k].duplicates = row.duplicates
          /\ reassembler.active[k].conflicts = row.conflicts
      BY <2>1 DEF IInv, CountsSound, Moved
    <2>4. QED
      BY <2>2, <2>3 DEF Covers
  <1>2. QED
    BY <1>1, Safety, PTL


-----------------------------------------------------------------------------
(***************************************************************************)
(* How the process may end.                                                *)
(***************************************************************************)
\* The rows that a restore loads link packets of the archive.
LEMMA SourcesArePackets ==
    ASSUME TypeOK, NEW keys
    PROVE  UNION {Linked(row) : row \in incomplete_profiles(db, keys)} \subseteq PacketId
  <1>1. db.scans \subseteq ScanRow
    BY DEF TypeOK, Store
  <1>2. incomplete_profiles(db, keys) \subseteq db.scans
    BY DEF incomplete_profiles, IncompleteRows
  <1>3. \A row \in incomplete_profiles(db, keys) : Linked(row) \subseteq PacketId
    BY <1>1, <1>2, RowType
  <1>4. QED
    BY <1>3

\* A limit that the rows of one key exceed is exceeded by all rows.
LEMMA LimitOfAllKeys ==
    ASSUME TypeOK, NEW k \in Key, IncompleteReplayLimitExceeded(db, {k})
    PROVE  IncompleteReplayLimitExceeded(db, Key)
  <1> DEFINE some == UNION {Linked(row) : row \in incomplete_profiles(db, {k})}
             all == UNION {Linked(row) : row \in incomplete_profiles(db, Key)}
  <1>1. some \subseteq all
    BY DEF incomplete_profiles
  <1>2. all \subseteq PacketId
    BY SourcesArePackets
  <1>3. IsFiniteSet(PacketId) /\ ReplayLimit \in Nat
    BY StoreAssumption
  <1>4. Cardinality(some) > ReplayLimit
    BY DEF IncompleteReplayLimitExceeded
  <1> HIDE DEF some, all
  <1>5. IsFiniteSet(all) /\ IsFiniteSet(some) /\ Cardinality(some) <= Cardinality(all)
    BY <1>1, <1>2, <1>3, FS_Subset
  <1>6. Cardinality(some) \in Nat /\ Cardinality(all) \in Nat
    BY <1>5, FS_CardinalityType
  <1>7. Cardinality(all) > ReplayLimit
    BY <1>3, <1>4, <1>5, <1>6
  <1>8. QED
    BY <1>7 DEF IncompleteReplayLimitExceeded, all

\* No more packets can be found to replay than there are.
LEMMA WithinLimits ==
    ASSUME TypeOK, Cardinality(PacketId) <= ReplayLimit
    PROVE  /\ ~ PendingReplayLimitExceeded(db)
           /\ ~ IncompleteReplayLimitExceeded(db, Key)
  <1>1. IsFiniteSet(PacketId) /\ ReplayLimit \in Nat
    BY StoreAssumption
  <1>2. ASSUME NEW S, S \subseteq PacketId
        PROVE  ~ (Cardinality(S) > ReplayLimit)
    <2>1. IsFiniteSet(S) /\ Cardinality(S) <= Cardinality(PacketId)
      BY <1>1, <1>2, FS_Subset
    <2>2. Cardinality(S) \in Nat /\ Cardinality(PacketId) \in Nat
      BY <1>1, <2>1, FS_CardinalityType
    <2>3. QED
      BY <1>1, <2>1, <2>2
  <1>3. WithStatus(db, "pending") \subseteq PacketId
    BY DEF WithStatus, Archived
  <1>4. QED
    BY <1>2, <1>3, SourcesArePackets DEF PendingReplayLimitExceeded, IncompleteReplayLimitExceeded

\* While the process is down, the only step that touches database, error or phase is its start.
LEMMA DownStep ==
    ASSUME IInv, phase = "down", [Next]_vars
    PROVE  Start \/ (failure' = failure /\ db' = db /\ phase' = "down")
  <1>1. /\ backlog = {} /\ event = None /\ profiles = {} /\ profile = None
        /\ current = None /\ stage = "idle" /\ pending = {}
    BY DownEmpty
  <1>2. CASE LoadPending \/ ReplayPending \/ OpenRadio
    BY <1>2 DEF LoadPending, ReplayPending, OpenRadio
  <1>3. CASE OpenProfile \/ RestoreFragment \/ CloseProfile
    BY <1>1, <1>3 DEF OpenProfile, RestoreFragment, CloseProfile
  <1>4. CASE Reconcile \/ IngestCurrent \/ PersistProfile \/ HandleEvent
    BY <1>1, <1>4 DEF Reconcile, IngestCurrent, PersistProfile, HandleEvent
  <1>5. CASE \/ \E cutoff \in 1 .. clock + 1 : PersistExpired(cutoff)
             \/ Stopped
             \/ \E f \in Delivered : Receive(f)
             \/ Stop \/ Crash
    BY <1>5 DEF PersistExpired, Stopped, Receive, Stop, Crash, Idle
  <1>6. CASE PollNothing \/ \E f \in Delivered : UpgradeCodec(f)
    BY <1>6 DEF PollNothing, UpgradeCodec, Idle
  <1>7. CASE UNCHANGED vars
    BY <1>7 DEF vars, durable
  <1>8. QED
    BY <1>2, <1>3, <1>4, <1>5, <1>6, <1>7 DEF Next, Process, Environment

\* An error other than a replay limit cannot be the one a sound process ends on.
LEMMA NoOtherExit ==
    ASSUME IInv', failure' # None,
           NEW error \in {"MissingV2Packet", "InternalState", "CorruptIncompleteProfile", "Sqlite"}
    PROVE  ~ Exit(error)
  BY DEF IInv, FailureSound, Exit

\* A process that is up ends with an error when it finds a limit exceeded, and with no other.
LEMMA FailingStep ==
    ASSUME IInv, IInv', phase # "down", [Next]_vars, failure' # failure, failure' # None
    PROVE  \/ Exit("PendingReplayLimitExceeded") /\ PendingReplayLimitExceeded(db)
           \/ Exit("IncompleteReplayLimitExceeded") /\ IncompleteReplayLimitExceeded(db, Key)
  <1>1. /\ ~ Exit("MissingV2Packet") /\ ~ Exit("InternalState")
        /\ ~ Exit("CorruptIncompleteProfile") /\ ~ Exit("Sqlite")
    BY NoOtherExit
  <1>2. CASE Start \/ LoadPending \/ ReplayPending \/ OpenRadio
    BY <1>1, <1>2 DEF Start, LoadPending, ReplayPending, OpenRadio
  <1>3. CASE OpenProfile
    BY <1>1, <1>3 DEF OpenProfile
  <1>4. CASE RestoreFragment
    BY <1>1, <1>4 DEF RestoreFragment, ReplaySource, QuarantineSource
  <1>5. CASE CloseProfile
    BY <1>1, <1>5 DEF CloseProfile, ReassemblyFailure
  <1>6. CASE Reconcile
    <2>1. PICK k : k = CurrentFragment.key
      OBVIOUS
    <2>2. k \in Key
      BY <1>6, <2>1, Reconciling DEF Reconcile
    <2>3. Exit("IncompleteReplayLimitExceeded") /\ IncompleteReplayLimitExceeded(db, {k})
      BY <1>6, <2>1 DEF Reconcile
    <2>4. QED
      BY <2>2, <2>3, LimitOfAllKeys DEF IInv
  <1>7. CASE IngestCurrent
    BY <1>7 DEF IngestCurrent
  <1>8. CASE PersistProfile
    BY <1>1, <1>8 DEF PersistProfile
  <1>9. CASE HandleEvent
    BY <1>1, <1>9 DEF HandleEvent, ReassemblyFailure
  <1>10. CASE \E cutoff \in 1 .. clock + 1 : PersistExpired(cutoff)
    BY <1>10 DEF PersistExpired
  <1>11. CASE Stopped \/ Environment
    BY <1>11 DEF Stopped, Environment, Receive, PollNothing, Stop, Crash, UpgradeCodec, vars
  <1>12. CASE UNCHANGED vars
    BY <1>12 DEF vars
  <1>13. QED
    BY <1>2, <1>3, <1>4, <1>5, <1>6, <1>7, <1>8, <1>9, <1>10, <1>11, <1>12 DEF Next, Process

\* An error stays true of the store until the next start.
LEMMA NextFails ==
    ASSUME IInv, IInv', FailsAtLimitsOnly, [Next]_vars
    PROVE  FailsAtLimitsOnly'
  <1> SUFFICES ASSUME failure' # None
               PROVE  /\ phase' = "down"
                      /\ \/ /\ failure' = "PendingReplayLimitExceeded"
                            /\ PendingReplayLimitExceeded(db')
                         \/ /\ failure' = "IncompleteReplayLimitExceeded"
                            /\ IncompleteReplayLimitExceeded(db', Key)
    BY DEF FailsAtLimitsOnly
  <1>1. ASSUME NEW error, Exit(error)
        PROVE  failure' = error /\ phase' = "down" /\ db' = db
    BY <1>1 DEF Exit, Forget, durable
  <1>2. CASE phase = "down"
    <2>1. CASE Start
      <3>1. Exit("IncompleteReplayLimitExceeded") /\ IncompleteReplayLimitExceeded(db, Key)
        BY <2>1 DEF Start
      <3>2. QED
        BY <1>1, <3>1
    <2>2. CASE failure' = failure /\ db' = db /\ phase' = "down"
      BY <2>2 DEF FailsAtLimitsOnly
    <2>3. QED
      BY <1>2, <2>1, <2>2, DownStep
  <1>3. CASE phase # "down"
    <2>1. failure = None
      BY <1>3 DEF FailsAtLimitsOnly
    <2>2. \/ Exit("PendingReplayLimitExceeded") /\ PendingReplayLimitExceeded(db)
          \/ Exit("IncompleteReplayLimitExceeded") /\ IncompleteReplayLimitExceeded(db, Key)
      BY <1>3, <2>1, FailingStep
    <2>3. QED
      BY <1>1, <2>2
  <1>4. QED
    BY <1>2, <1>3

\* A replay limit that is exceeded is the only error of its own that the process ever ends on: no
\* InternalState, CorruptIncompleteProfile, MissingV2Packet or violated UNIQUE (packet_id).
THEOREM OnlyLimits ==
    ASSUME OneCountPerKey
    PROVE  Spec => []FailsAtLimitsOnly
  <1>1. Init => FailsAtLimitsOnly
    BY DEF Init, InitProcess, FailsAtLimitsOnly
  <1>2. IInv /\ IInv' /\ FailsAtLimitsOnly /\ [Next]_vars => FailsAtLimitsOnly'
    BY NextFails
  <1>3. QED
    BY <1>1, <1>2, Safety, PTL DEF Spec

\* As long as everything archived may be replayed, the receiver never ends on an error of its own.
THEOREM NoFailure ==
    ASSUME OneCountPerKey, Cardinality(PacketId) <= ReplayLimit
    PROVE  Spec => [](failure = None)
  <1>1. IInv /\ FailsAtLimitsOnly => failure = None
    BY WithinLimits DEF FailsAtLimitsOnly, IInv
  <1>2. QED
    BY <1>1, OnlyLimits, Safety, PTL

-----------------------------------------------------------------------------
(***************************************************************************)
(* Verdicts.                                                               *)
(***************************************************************************)
\* The row has the fragment f at its index ...
Confirms(d, row, f) ==
    /\ row.fragments[f.fragment_index] # None
    /\ d.packets[row.fragments[f.fragment_index]].fragment = f

\* ... or something that is not f, and that no later source of the row can change.
Refutes(d, row, f) ==
    \/ row.metadata # f.metadata
    \/ /\ row.fragments[f.fragment_index] # None
       /\ d.packets[row.fragments[f.fragment_index]].fragment # f

\* The verdict match of fragment f is true of the row.
TrueOf(d, row, f, match) ==
    /\ match = "duplicate" => Confirms(d, row, f)
    /\ match = "conflict" => Refutes(d, row, f)

\* A packet with a verdict, if it still decodes, has a row that the verdict is true of.
VerdictsSound(d, ok) ==
    \A p \in Archived(d) :
        d.packets[p].status \in {"duplicate", "conflict"} /\ d.packets[p].fragment \in ok =>
            \E row \in d.scans :
                /\ row.key = d.packets[p].fragment.key
                /\ TrueOf(d, row, d.packets[p].fragment, d.packets[p].status)

\* A tainted row is refuted by a packet of the archive.
TaintsSound(d) ==
    \A row \in d.scans : row.conflicts > 0 =>
        \E p \in Archived(d) :
            d.packets[p].fragment.key = row.key /\ Refutes(d, row, d.packets[p].fragment)

\* What the event is about to write for the packet in hand.
MatchOf(ev) ==
    IF ev = None \/ ev.event = "Complete" THEN None
    ELSE IF ev.event = "Duplicate" THEN "duplicate" ELSE "conflict"

\* The verdict of the event is true of the scan that comes with it.
EventTrue ==
    event # None /\ event.event # "Complete" => event.event = Verdict(event.profile, CurrentFragment)

-----------------------------------------------------------------------------
(***************************************************************************)
(* Counters.                                                               *)
(***************************************************************************)
\* The counters of x are those of the row of scan k, or zero without one, with the verdict match
\* counted on top.
CountsOf(d, k, x, match) ==
    /\ \A row \in d.scans : row.key = k =>
          /\ x.duplicates = saturating_add(row.duplicates, CountOf(match, "duplicate"))
          /\ x.conflicts = saturating_add(row.conflicts, CountOf(match, "conflict"))
    /\ (\A row \in d.scans : row.key # k) =>
          /\ x.duplicates = CountOf(match, "duplicate")
          /\ x.conflicts = CountOf(match, "conflict")

\* The counters of a scan in memory are those the store has or is about to get.
MemoryCounts ==
    /\ \A k \in ActiveKeys(reassembler) :
          CountsOf(db, k, reassembler.active[k], IF Moved(event, k) THEN MatchOf(event) ELSE None)
    /\ \A s \in backlog : CountsOf(db, s.key, s, None)
    /\ event # None /\ event.event = "Complete" => CountsOf(db, event.profile.key, event.profile, None)

\* The packets of scan k with a verdict.
Verdicts(d, k, status) == {p \in Archived(d) : d.packets[p].status = status /\ d.packets[p].fragment.key = k}

\* Of these, n are counted, at least those that decode.
CountExact(d, ok, k, status, n) ==
    /\ Cardinality({p \in Verdicts(d, k, status) : d.packets[p].fragment \in ok}) <= n
    /\ n <= Cardinality(Verdicts(d, k, status))

RowsExact(d, ok) ==
    \A row \in d.scans :
        /\ CountExact(d, ok, row.key, "duplicate", row.duplicates)
        /\ CountExact(d, ok, row.key, "conflict", row.conflicts)

\* Memory and store agree on verdicts and counters.
LInv ==
    /\ IInv
    /\ VerdictsSound(db, decodes) /\ TaintsSound(db)
    /\ EventTrue /\ MemoryCounts

-----------------------------------------------------------------------------
(***************************************************************************)
(* What a transaction does to the store: d becomes e.                      *)
(***************************************************************************)
SameArchive(d, e) ==
    /\ d \in Store /\ e \in Store
    /\ Archived(e) = Archived(d)
    /\ \A q \in Archived(d) : e.packets[q].fragment = d.packets[q].fragment

\* Packet p of fragment f is new.
Archives(d, e, p, f) ==
    /\ d \in Store /\ e \in Store
    /\ p \in PacketId /\ p \notin Archived(d)
    /\ f \in Delivered
    /\ Archived(e) = Archived(d) \cup {p}
    /\ e.scans = d.scans
    /\ \A q \in Archived(d) : e.packets[q] = d.packets[q]
    /\ e.packets[p].fragment = f
    /\ e.packets[p].status \in {"pending", "invalid"}

\* A pending packet becomes invalid.
Drops(d, e, p) ==
    /\ SameArchive(d, e)
    /\ d.packets[p].status = "pending"
    /\ e.scans = d.scans
    /\ \A q \in Archived(d) :
          e.packets[q].status = IF q = p THEN "invalid" ELSE d.packets[q].status

\* The row new takes the place of what there is of scan k, and continues it; packet p of the scan
\* gets the verdict match, if any.
Continues(d, e, k, new, p, match) ==
    /\ SameArchive(d, e)
    /\ new \in e.scans /\ new.key = k
    /\ \A row \in e.scans : row = new \/ (row \in d.scans /\ row.key # k)
    /\ \A row \in d.scans : row.key # k => row \in e.scans
    /\ \A row \in d.scans : row.key = k =>
          /\ new.metadata = row.metadata
          /\ \A i \in Received(row.fragments) : new.fragments[i] = row.fragments[i]
    /\ CountsOf(d, k, new, match)
    /\ match \in {None, "duplicate", "conflict"}
    /\ match # None =>
          /\ p \in Archived(d)
          /\ d.packets[p].status = "pending"
          /\ d.packets[p].fragment.key = k
          /\ TrueOf(e, new, d.packets[p].fragment, match)
    /\ \A q \in Archived(d) : \A status \in {"duplicate", "conflict"} :
          e.packets[q].status = status <=> d.packets[q].status = status \/ (q = p /\ match = status)
    /\ \A q \in Archived(d) : e.packets[q].status = "pending" => d.packets[q].status = "pending"

\* The row of scan k is gone, because one of its sources does not decode, and of the packets that
\* decode none has a verdict of that scan any more.
Dismantles(d, e, ok, k) ==
    /\ SameArchive(d, e)
    /\ \E row \in d.scans :
          /\ row.key = k
          /\ ~ TransportComplete(row)
          /\ \E q \in Linked(row) : d.packets[q].fragment \notin ok
    /\ e.scans = {row \in d.scans : row.key # k}
    /\ \A q \in Archived(d) : e.packets[q].status \in {"duplicate", "conflict"} =>
          /\ e.packets[q].status = d.packets[q].status
          /\ d.packets[q].fragment \in ok => d.packets[q].fragment.key # k
    /\ \A q \in Archived(d) :
          d.packets[q].fragment.key # k => e.packets[q].status = d.packets[q].status

-----------------------------------------------------------------------------
(***************************************************************************)
(* Verdicts and taints stay true.                                          *)
(***************************************************************************)
\* What is true of a row is true of a row that continues it: its sources stay where they are.
LEMMA TrueKept ==
    ASSUME NEW d, NEW e,
           \A q \in Archived(d) : e.packets[q].fragment = d.packets[q].fragment,
           NEW row, NEW new, new.metadata = row.metadata,
           \A i \in Received(row.fragments) : row.fragments[i] \in Archived(d),
           \A i \in Received(row.fragments) : new.fragments[i] = row.fragments[i],
           NEW f, f.fragment_index \in Index
    PROVE  /\ Confirms(d, row, f) => Confirms(e, new, f)
           /\ Refutes(d, row, f) => Refutes(e, new, f)
           /\ \A match : TrueOf(d, row, f, match) => TrueOf(e, new, f, match)
  <1>1. Confirms(d, row, f) => Confirms(e, new, f)
    BY DEF Confirms, Received
  <1>2. Refutes(d, row, f) => Refutes(e, new, f)
    BY DEF Refutes, Received
  <1>3. QED
    BY <1>1, <1>2 DEF TrueOf

\* The sources of a sound store's rows are archived.
LEMMA SourcesArchived ==
    ASSUME NEW d, StoreSound(d)
    PROVE  \A row \in d.scans : \A i \in Received(row.fragments) : row.fragments[i] \in Archived(d)
  BY DEF StoreSound, RowSound

\* Every verdict is true of the row that continues the scan.
LEMMA VerdictsContinue ==
    ASSUME NEW d, NEW e, StoreSound(d), NEW ok, NEW k, NEW new, NEW p, NEW match,
           Continues(d, e, k, new, p, match), VerdictsSound(d, ok)
    PROVE  VerdictsSound(e, ok)
  <1> SUFFICES ASSUME NEW q \in Archived(e), e.packets[q].status \in {"duplicate", "conflict"},
                      e.packets[q].fragment \in ok
               PROVE  \E row \in e.scans :
                         /\ row.key = e.packets[q].fragment.key
                         /\ TrueOf(e, row, e.packets[q].fragment, e.packets[q].status)
    BY DEF VerdictsSound
  <1>1. PICK f : f = d.packets[q].fragment
    OBVIOUS
  <1>2. /\ q \in Archived(d) /\ e.packets[q].fragment = f /\ f \in ok
        /\ \A s \in Archived(d) : e.packets[s].fragment = d.packets[s].fragment
        /\ d \in Store
    BY <1>1 DEF Continues, SameArchive
  <1>3. f.fragment_index \in Index
    BY <1>1, <1>2, ArchivedType
  <1>4. CASE d.packets[q].status = e.packets[q].status
    <2>1. PICK row \in d.scans : row.key = f.key /\ TrueOf(d, row, f, e.packets[q].status)
      BY <1>1, <1>2, <1>4 DEF VerdictsSound
    <2>2. \A i \in Received(row.fragments) : row.fragments[i] \in Archived(d)
      BY SourcesArchived
    <2>3. CASE row.key # k
      <3>1. row \in e.scans
        BY <2>3 DEF Continues
      <3>2. /\ row.metadata = row.metadata
            /\ \A i \in Received(row.fragments) : row.fragments[i] = row.fragments[i]
        OBVIOUS
      <3>3. \A status : TrueOf(d, row, f, status) => TrueOf(e, row, f, status)
        BY ONLY <1>2, <1>3, <2>2, <3>2, TrueKept
      <3>4. QED
        BY <1>2, <2>1, <3>1, <3>3
    <2>4. CASE row.key = k
      <3>1. /\ new \in e.scans /\ new.key = k /\ new.metadata = row.metadata
            /\ \A i \in Received(row.fragments) : new.fragments[i] = row.fragments[i]
        BY <2>4 DEF Continues
      <3>2. TrueOf(e, new, f, e.packets[q].status)
        BY <1>2, <1>3, <2>1, <2>2, <3>1, TrueKept
      <3>3. QED
        BY <1>2, <2>1, <2>4, <3>1, <3>2
    <2>5. QED
      BY <2>3, <2>4
  <1>5. CASE d.packets[q].status # e.packets[q].status
    <2>1. q = p /\ match = e.packets[q].status
      BY <1>2, <1>5 DEF Continues
    <2>2. match # None
      BY <2>1, StoreNoneAssumption
    <2>3. f.key = k /\ TrueOf(e, new, f, match) /\ new \in e.scans /\ new.key = k
      BY <1>1, <2>1, <2>2 DEF Continues
    <2>4. QED
      BY <1>2, <2>1, <2>3
  <1>6. QED
    BY <1>4, <1>5

\* A row is tainted only if the archive has what refutes it.
LEMMA TaintsContinue ==
    ASSUME NEW d, NEW e, StoreSound(d), NEW k, NEW new, NEW p, NEW match,
           Continues(d, e, k, new, p, match), TaintsSound(d)
    PROVE  TaintsSound(e)
  <1> SUFFICES ASSUME NEW row \in e.scans, row.conflicts > 0
               PROVE  \E q \in Archived(e) :
                         e.packets[q].fragment.key = row.key /\ Refutes(e, row, e.packets[q].fragment)
    BY DEF TaintsSound
  <1>1. /\ Archived(e) = Archived(d)
        /\ \A s \in Archived(d) : e.packets[s].fragment = d.packets[s].fragment
        /\ d \in Store /\ e \in Store
    BY DEF Continues, SameArchive
  <1>2. \A q \in Archived(d) : d.packets[q].fragment.fragment_index \in Index
    BY <1>1, ArchivedType
  <1>3. ASSUME NEW old \in d.scans, old.key = row.key, old.conflicts > 0,
               row.metadata = old.metadata,
               \A i \in Received(old.fragments) : row.fragments[i] = old.fragments[i]
        PROVE  \E q \in Archived(e) :
                  e.packets[q].fragment.key = row.key /\ Refutes(e, row, e.packets[q].fragment)
    <2>1. PICK q \in Archived(d) :
             d.packets[q].fragment.key = old.key /\ Refutes(d, old, d.packets[q].fragment)
      BY <1>3 DEF TaintsSound
    <2>2. \A i \in Received(old.fragments) : old.fragments[i] \in Archived(d)
      BY SourcesArchived
    <2>3. PICK f : f = d.packets[q].fragment
      OBVIOUS
    <2>4. f.fragment_index \in Index /\ Refutes(d, old, f)
      BY <1>2, <2>1, <2>3
    <2>5. Refutes(e, row, f)
      BY <1>1, <1>3, <2>2, <2>4, TrueKept
    <2>6. QED
      BY <1>1, <1>3, <2>1, <2>3, <2>5
  <1>4. CASE row # new
    <2>1. row \in d.scans
      BY <1>4 DEF Continues
    <2>2. QED
      BY <1>3, <2>1
  <1>5. CASE row = new /\ match = "conflict"
    <2>1. match # None
      BY <1>5, StoreNoneAssumption
    <2>2. /\ p \in Archived(d) /\ d.packets[p].fragment.key = k /\ row.key = k
          /\ TrueOf(e, row, d.packets[p].fragment, match)
      BY <1>5, <2>1 DEF Continues
    <2>3. Refutes(e, row, d.packets[p].fragment)
      BY <1>5, <2>2 DEF TrueOf
    <2>4. QED
      BY <1>1, <2>2, <2>3
  <1>6. CASE row = new /\ match # "conflict"
    <2>1. CountOf(match, "conflict") = 0
      BY <1>6 DEF CountOf
    <2>2. CountsOf(d, k, row, match) /\ row.key = k
      BY <1>6 DEF Continues
    <2>3. PICK old \in d.scans : old.key = k
      BY <2>1, <2>2 DEF CountsOf
    <2>4. row.conflicts = saturating_add(old.conflicts, 0)
      BY <2>1, <2>2, <2>3 DEF CountsOf
    <2>5. old.conflicts \in Count
      BY <1>1, <2>3, RowType DEF Store
    <2>6. old.conflicts > 0
      BY <2>4, <2>5, ReassemblyAssumption DEF saturating_add, Count
    <2>7. /\ row.metadata = old.metadata
          /\ \A i \in Received(old.fragments) : row.fragments[i] = old.fragments[i]
      BY <1>6, <2>3 DEF Continues
    <2>8. QED
      BY <1>3, <2>2, <2>3, <2>6, <2>7
  <1>7. QED
    BY <1>4, <1>5, <1>6

\* The same when no row changes.
LEMMA TruthKept ==
    ASSUME NEW d \in Store, NEW e, StoreSound(d), NEW ok, VerdictsSound(d, ok), TaintsSound(d),
           \/ \E p : Drops(d, e, p)
           \/ \E p, f : Archives(d, e, p, f)
           \/ \E k : Dismantles(d, e, ok, k)
    PROVE  VerdictsSound(e, ok) /\ TaintsSound(e)
  <1>1. /\ Archived(d) \subseteq Archived(e)
        /\ \A q \in Archived(d) : e.packets[q].fragment = d.packets[q].fragment
        /\ e.scans \subseteq d.scans
    BY DEF Drops, Archives, Dismantles, SameArchive
  <1>2. \A q \in Archived(e) : e.packets[q].status \in {"duplicate", "conflict"} =>
           /\ q \in Archived(d)
           /\ d.packets[q].status = e.packets[q].status
           /\ d.packets[q].fragment \in ok =>
                 \A row \in d.scans : row.key = d.packets[q].fragment.key => row \in e.scans
    BY DEF Drops, Archives, Dismantles, SameArchive
  <1>3. \A q \in Archived(d) : d.packets[q].fragment.fragment_index \in Index
    BY ArchivedType
  <1>4. ASSUME NEW row \in d.scans, NEW f, f.fragment_index \in Index
        PROVE  /\ Refutes(d, row, f) => Refutes(e, row, f)
               /\ \A match : TrueOf(d, row, f, match) => TrueOf(e, row, f, match)
    <2>1. \A i \in Received(row.fragments) : row.fragments[i] \in Archived(d)
      BY SourcesArchived
    <2>2. QED
      BY <1>1, <1>4, <2>1, TrueKept
  <1>5. VerdictsSound(e, ok)
    <2> SUFFICES ASSUME NEW q \in Archived(e), e.packets[q].status \in {"duplicate", "conflict"},
                        e.packets[q].fragment \in ok
                 PROVE  \E row \in e.scans :
                           /\ row.key = e.packets[q].fragment.key
                           /\ TrueOf(e, row, e.packets[q].fragment, e.packets[q].status)
      BY DEF VerdictsSound
    <2>1. q \in Archived(d) /\ d.packets[q].status = e.packets[q].status
          /\ e.packets[q].fragment = d.packets[q].fragment
      BY <1>1, <1>2
    <2>2. PICK row \in d.scans :
             /\ row.key = d.packets[q].fragment.key
             /\ TrueOf(d, row, d.packets[q].fragment, d.packets[q].status)
      BY <2>1 DEF VerdictsSound
    <2>3. row \in e.scans
      BY <1>2, <2>1, <2>2
    <2>4. TrueOf(e, row, d.packets[q].fragment, d.packets[q].status)
      BY <1>3, <1>4, <2>1, <2>2
    <2>5. QED
      BY <2>1, <2>2, <2>3, <2>4
  <1>6. TaintsSound(e)
    <2> SUFFICES ASSUME NEW row \in d.scans, row.conflicts > 0
                 PROVE  \E q \in Archived(e) :
                           e.packets[q].fragment.key = row.key /\ Refutes(e, row, e.packets[q].fragment)
      BY <1>1 DEF TaintsSound
    <2>1. PICK q \in Archived(d) :
             d.packets[q].fragment.key = row.key /\ Refutes(d, row, d.packets[q].fragment)
      BY DEF TaintsSound
    <2>2. Refutes(e, row, d.packets[q].fragment)
      BY <1>3, <1>4, <2>1
    <2>3. QED
      BY <1>1, <2>1, <2>2
  <1>7. QED
    BY <1>5, <1>6

-----------------------------------------------------------------------------
(***************************************************************************)
(* Counters stay exact, as long as they cannot saturate.                   *)
(***************************************************************************)
\* A counter b between the sizes of two sets of packets moves when both may gain packet p.
LEMMA CountMoves ==
    ASSUME Cardinality(PacketId) <= MaxCount,
           NEW V \in SUBSET PacketId, NEW D \in SUBSET V, NEW b \in Count,
           Cardinality(D) <= b, b <= Cardinality(V),
           NEW p \in PacketId, p \notin V, NEW E \in SUBSET (D \cup {p})
    PROVE  /\ Cardinality(E) <= saturating_add(b, 1)
           /\ saturating_add(b, 1) <= Cardinality(V \cup {p})
  <1>1. IsFiniteSet(PacketId) /\ MaxCount \in Nat
    BY StoreAssumption, ReassemblyAssumption
  <1>2. IsFiniteSet(V) /\ IsFiniteSet(D)
    BY <1>1, FS_Subset
  <1>3. /\ IsFiniteSet(V \cup {p}) /\ Cardinality(V \cup {p}) = Cardinality(V) + 1
    BY <1>2, FS_AddElement
  <1>4. /\ IsFiniteSet(D \cup {p}) /\ Cardinality(D \cup {p}) = Cardinality(D) + 1
    BY <1>2, FS_AddElement
  <1>5. /\ IsFiniteSet(E) /\ Cardinality(E) <= Cardinality(D) + 1
    BY <1>4, FS_Subset
  <1>6. E \subseteq PacketId
    OBVIOUS
  <1>7. Cardinality(E) <= Cardinality(PacketId)
    BY <1>1, <1>6, FS_Subset
  <1>8. /\ Cardinality(V) \in Nat /\ Cardinality(D) \in Nat /\ Cardinality(E) \in Nat
        /\ Cardinality(PacketId) \in Nat /\ b \in Nat /\ b <= MaxCount
    BY <1>1, <1>2, <1>5, FS_CardinalityType DEF Count
  <1>9. QED
    BY <1>1, <1>3, <1>5, <1>7, <1>8 DEF saturating_add

\* The packets of scan j with a verdict: those of the scan written may have gained packet p.
LEMMA VerdictsMove ==
    ASSUME NEW d, NEW e, NEW k, NEW new, NEW p, NEW match, Continues(d, e, k, new, p, match), NEW j,
           NEW status \in {"duplicate", "conflict"}
    PROVE  /\ \A q : q \in Verdicts(e, j, status) <=>
                 q \in Verdicts(d, j, status) \/ (q = p /\ j = k /\ match = status)
           /\ match = status => p \in PacketId /\ p \notin Verdicts(d, j, status)
           /\ \A q \in Verdicts(d, j, status) : e.packets[q].fragment = d.packets[q].fragment
           /\ Verdicts(d, j, status) \subseteq PacketId
  <1>1. /\ Archived(e) = Archived(d)
        /\ \A q \in Archived(d) : e.packets[q].fragment = d.packets[q].fragment
        /\ \A q \in Archived(d) :
              e.packets[q].status = status <=> d.packets[q].status = status \/ (q = p /\ match = status)
        /\ match = status =>
              p \in Archived(d) /\ d.packets[p].status = "pending" /\ d.packets[p].fragment.key = k
    BY StoreNoneAssumption DEF Continues, SameArchive
  <1>2. Archived(d) \subseteq PacketId
    BY DEF Archived
  <1>3. QED
    BY <1>1, <1>2 DEF Verdicts

\* A counter that was exact is exact once the verdict is counted.
LEMMA ExactMoves ==
    ASSUME Cardinality(PacketId) <= MaxCount,
           NEW d, NEW e, NEW ok, NEW k, NEW new, NEW p, NEW match,
           Continues(d, e, k, new, p, match), NEW status \in {"duplicate", "conflict"},
           NEW b \in Count, CountExact(d, ok, k, status, b)
    PROVE  CountExact(e, ok, k, status, saturating_add(b, CountOf(match, status)))
  <1> DEFINE Decoded(x) == {q \in Verdicts(x, k, status) : x.packets[q].fragment \in ok}
  <1>1. PICK V \in SUBSET PacketId : V = Verdicts(d, k, status)
    BY VerdictsMove
  <1>2. PICK D \in SUBSET V : D = Decoded(d)
    BY <1>1
  <1>3. PICK E : E = Decoded(e)
    OBVIOUS
  <1>4. Cardinality(D) <= b /\ b <= Cardinality(V)
    BY <1>1, <1>2 DEF CountExact
  <1>5. CASE match = status
    <2>1. Verdicts(e, k, status) = V \cup {p} /\ p \in PacketId /\ p \notin V
      BY <1>1, <1>5, VerdictsMove
    <2>2. \A q \in V : e.packets[q].fragment = d.packets[q].fragment
      BY <1>1, VerdictsMove
    <2>3. E \in SUBSET (D \cup {p})
      BY <1>1, <1>2, <1>3, <2>1, <2>2
    <2>4. CountOf(match, status) = 1
      BY <1>5 DEF CountOf
    <2>5. /\ Cardinality(E) <= saturating_add(b, 1)
          /\ saturating_add(b, 1) <= Cardinality(V \cup {p})
      BY <1>4, <2>1, <2>3, CountMoves
    <2>6. QED
      BY <1>3, <2>1, <2>4, <2>5 DEF CountExact
  <1>6. CASE match # status
    <2>0. \A q : q \in Verdicts(e, k, status) <=> q \in V
      BY <1>1, <1>6, VerdictsMove
    <2>1. Verdicts(e, k, status) = V
      BY <2>0
    <2>2. \A q \in V : e.packets[q].fragment = d.packets[q].fragment
      BY <1>1, VerdictsMove
    <2>3. E = D
      BY <1>1, <1>2, <1>3, <2>1, <2>2
    <2>4. CountOf(match, status) = 0
      BY <1>6 DEF CountOf
    <2>5. saturating_add(b, 0) = b
      BY ReassemblyAssumption DEF saturating_add, Count
    <2>6. QED
      BY <1>3, <1>4, <2>1, <2>3, <2>4, <2>5 DEF CountExact
  <1>7. QED
    BY <1>5, <1>6

\* A scan without a row has no packet with a verdict that decodes: its counters start at zero.
LEMMA ExactZero ==
    ASSUME NEW d \in Store, NEW ok, VerdictsSound(d, ok), NEW k, \A row \in d.scans : row.key # k,
           NEW status \in {"duplicate", "conflict"}
    PROVE  CountExact(d, ok, k, status, 0)
  <1>1. {q \in Verdicts(d, k, status) : d.packets[q].fragment \in ok} = {}
    BY DEF VerdictsSound, Verdicts
  <1>2. Verdicts(d, k, status) \subseteq PacketId
    BY DEF Verdicts, Archived
  <1>3. IsFiniteSet(Verdicts(d, k, status))
    BY <1>2, StoreAssumption, FS_Subset
  <1>4. Cardinality(Verdicts(d, k, status)) \in Nat
    BY <1>3, FS_CardinalityType
  <1>5. Cardinality({}) = 0
    BY FS_EmptySet
  <1>6. Cardinality({q \in Verdicts(d, k, status) : d.packets[q].fragment \in ok}) = 0
    BY <1>1, <1>5
  <1>7. QED
    BY <1>4, <1>6 DEF CountExact

\* The counters of the row that continues a scan are exact.
LEMMA ExactContinue ==
    ASSUME Cardinality(PacketId) <= MaxCount,
           NEW d, NEW e, NEW ok, NEW k, NEW new, NEW p, NEW match,
           Continues(d, e, k, new, p, match), VerdictsSound(d, ok), RowsExact(d, ok)
    PROVE  RowsExact(e, ok)
  <1>1. d \in Store /\ e \in Store /\ new.key = k /\ CountsOf(d, k, new, match)
    BY DEF Continues, SameArchive
  <1>2. PICK x \in Count : x = CountOf(match, "duplicate")
    BY CountOfType
  <1>3. PICK y \in Count : y = CountOf(match, "conflict")
    BY CountOfType
  <1>4. /\ CountExact(e, ok, k, "duplicate", new.duplicates)
        /\ CountExact(e, ok, k, "conflict", new.conflicts)
    <2>1. CASE \E row \in d.scans : row.key = k
      <3>1. PICK row \in d.scans : row.key = k
        BY <2>1
      <3>2. /\ row.duplicates \in Count /\ CountExact(d, ok, k, "duplicate", row.duplicates)
            /\ row.conflicts \in Count /\ CountExact(d, ok, k, "conflict", row.conflicts)
        BY <1>1, <3>1, RowType DEF RowsExact, Store
      <3>3. /\ new.duplicates = saturating_add(row.duplicates, x)
            /\ new.conflicts = saturating_add(row.conflicts, y)
        BY <1>1, <1>2, <1>3, <3>1 DEF CountsOf
      <3>4. CountExact(e, ok, k, "duplicate", saturating_add(row.duplicates, CountOf(match, "duplicate")))
        BY <3>2, ExactMoves
      <3>5. CountExact(e, ok, k, "conflict", saturating_add(row.conflicts, CountOf(match, "conflict")))
        BY <3>2, ExactMoves
      <3>6. QED
        BY <1>2, <1>3, <3>3, <3>4, <3>5
    <2>2. CASE \A row \in d.scans : row.key # k
      <3>1. /\ CountExact(d, ok, k, "duplicate", 0)
            /\ CountExact(d, ok, k, "conflict", 0)
        BY <1>1, <2>2, ExactZero
      <3>2. 0 \in Count
        BY ReassemblyAssumption DEF Count
      <3>3. new.duplicates = saturating_add(0, x) /\ new.conflicts = saturating_add(0, y)
        BY <1>1, <1>2, <1>3, <2>2, AddToZero DEF CountsOf
      <3>4. CountExact(e, ok, k, "duplicate", saturating_add(0, CountOf(match, "duplicate")))
        BY <3>1, <3>2, ExactMoves
      <3>5. CountExact(e, ok, k, "conflict", saturating_add(0, CountOf(match, "conflict")))
        BY <3>1, <3>2, ExactMoves
      <3>6. QED
        BY <1>2, <1>3, <3>3, <3>4, <3>5
    <2>3. QED
      BY <2>1, <2>2
  <1>5. ASSUME NEW row \in e.scans, row # new
        PROVE  /\ CountExact(e, ok, row.key, "duplicate", row.duplicates)
               /\ CountExact(e, ok, row.key, "conflict", row.conflicts)
    <2>1. row \in d.scans /\ row.key # k
      BY <1>5 DEF Continues
    <2>2. ASSUME NEW status \in {"duplicate", "conflict"}, NEW n, CountExact(d, ok, row.key, status, n)
          PROVE  CountExact(e, ok, row.key, status, n)
      <3>1. PICK V : V = Verdicts(d, row.key, status)
        OBVIOUS
      <3>2. \A q : q \in Verdicts(e, row.key, status) <=> q \in V
        BY <2>1, <3>1, VerdictsMove
      <3>3. Verdicts(e, row.key, status) = V
        BY <3>2
      <3>4. \A q \in V : e.packets[q].fragment = d.packets[q].fragment
        BY <3>1, VerdictsMove
      <3>5. {q \in V : e.packets[q].fragment \in ok} = {q \in V : d.packets[q].fragment \in ok}
        BY <3>4
      <3>6. QED
        BY <2>2, <3>1, <3>3, <3>5 DEF CountExact
    <2>3. QED
      BY <2>1, <2>2 DEF RowsExact
  <1>6. QED
    BY <1>1, <1>4, <1>5 DEF RowsExact

\* The same when no row changes, and when fewer fragments decode.
LEMMA ExactKept ==
    ASSUME NEW d \in Store, NEW e, NEW ok, NEW less, less \subseteq ok, RowsExact(d, ok),
           \/ e = d
           \/ \E p : Drops(d, e, p)
           \/ \E p, f : Archives(d, e, p, f)
           \/ \E k : Dismantles(d, e, ok, k)
    PROVE  RowsExact(e, less)
  <1>1. e.scans \subseteq d.scans
    BY DEF Drops, Archives, Dismantles, SameArchive
  <1>2. ASSUME NEW row \in e.scans, NEW status \in {"duplicate", "conflict"}, NEW n,
               CountExact(d, ok, row.key, status, n), n \in Nat
        PROVE  CountExact(e, less, row.key, status, n)
    <2>1. PICK V : V = Verdicts(d, row.key, status)
      OBVIOUS
    <2>2. \A q : q \in Verdicts(e, row.key, status) <=> q \in V
      <3>1. CASE e = d
        BY <2>1, <3>1
      <3>2. CASE \E p : Drops(d, e, p)
        BY <2>1, <3>2 DEF Drops, SameArchive, Verdicts
      <3>3. CASE \E p, f : Archives(d, e, p, f)
        BY <2>1, <3>3 DEF Archives, Verdicts
      <3>4. CASE \E k : Dismantles(d, e, ok, k)
        BY <2>1, <3>4 DEF Dismantles, SameArchive, Verdicts
      <3>5. QED
        BY <3>1, <3>2, <3>3, <3>4
    <2>3. Verdicts(e, row.key, status) = V
      BY <2>2
    <2>4. \A q \in V : e.packets[q].fragment = d.packets[q].fragment
      BY <2>1 DEF Verdicts, Drops, Archives, Dismantles, SameArchive
    <2>5. PICK D : D = {q \in V : d.packets[q].fragment \in ok}
      OBVIOUS
    <2>6. PICK E \in SUBSET D : E = {q \in V : e.packets[q].fragment \in less}
      BY <2>4, <2>5
    <2>7. V \subseteq PacketId /\ D \subseteq PacketId
      BY <2>1, <2>5 DEF Verdicts, Archived
    <2>8. IsFiniteSet(D)
      BY <2>7, StoreAssumption, FS_Subset
    <2>9. IsFiniteSet(E) /\ Cardinality(E) <= Cardinality(D)
      BY <2>8, FS_Subset
    <2>10. Cardinality(E) \in Nat /\ Cardinality(D) \in Nat
      BY <2>8, <2>9, FS_CardinalityType
    <2>11. Cardinality(D) <= n /\ n <= Cardinality(V)
      BY <1>2, <2>1, <2>5 DEF CountExact
    <2>12. Cardinality(E) <= n
      BY <1>2, <2>9, <2>10, <2>11
    <2>13. QED
      BY <2>3, <2>6, <2>11, <2>12 DEF CountExact
  <1>3. \A row \in d.scans : row.duplicates \in Nat /\ row.conflicts \in Nat
    BY RowType, ReassemblyAssumption DEF Store, Count
  <1>4. QED
    BY <1>1, <1>2, <1>3 DEF RowsExact

-----------------------------------------------------------------------------
(***************************************************************************)
(* The steps, by what they do to the store and to the scans in memory.     *)
(***************************************************************************)
SameMemory == reassembler' = reassembler /\ backlog' = backlog /\ event' = event

\* The process ends.
Gone == Forget /\ db' = db /\ rejected' = rejected

\* Neither the store nor a scan in memory changes.
Waits ==
    /\ SameMemory
    /\ db' = db
    /\ event # None => current' = current
    /\ rejected \subseteq rejected' /\ rejected' \subseteq Delivered

\* A packet from the radio is archived.
Takes ==
    /\ Idle
    /\ SameMemory
    /\ \E p, f : Archives(db, db', p, f)
    /\ rejected' = rejected

\* A pending packet that does not decode is dropped.
Discards ==
    /\ event = None
    /\ SameMemory
    /\ \E p : Drops(db, db', p)
    /\ rejected' = rejected

\* The scans of keys leave the table for the backlog.
Moves(keys) ==
    /\ keys \subseteq ActiveKeys(reassembler)
    /\ backlog = {} /\ event = None /\ event' = None
    /\ reassembler' \in Reassembler
    /\ \A j \in Key : reassembler'.active[j] = IF j \in keys THEN None ELSE reassembler.active[j]
    /\ backlog' = FinishAll(reassembler, keys)
    /\ db' = db /\ rejected' = rejected

\* A source of the row being replayed, which decodes or not.
SourceDecodes == db.packets[profile.fragments[Least(left)]].fragment \in decodes

\* The store has a verdict for the packet in hand.
Matches == Reconcile /\ PersistedFragmentMatch(db, CurrentFragment) # None

\* Startup, and what a live process does without writing.
LEMMA StartCases ==
    ASSUME IInv, IInv', Start \/ LoadPending \/ OpenRadio \/ OpenProfile \/ CloseProfile
    PROVE  Gone \/ Waits
  <1>0. rejected \subseteq Delivered
    BY DEF IInv, TypeOK
  <1>1. CASE Start
    <2>1. event = None
      BY <1>1, DownEmpty DEF Start
    <2>2. QED
      BY <1>0, <1>1, <2>1 DEF Start, Gone, Waits, SameMemory, Exit, durable, output
  <1>2. CASE LoadPending
    BY <1>0, <1>2 DEF LoadPending, Gone, Waits, SameMemory, Exit, durable, output, Restored, Written
  <1>3. CASE OpenRadio
    BY <1>0, <1>3 DEF OpenRadio, Waits, SameMemory, durable, output, fragment
  <1>4. CASE OpenProfile
    <2>1. event = None /\ profiles # {} /\ profiles \in SUBSET ScanRow
      BY <1>4 DEF OpenProfile, Written, IInv, TypeOK
    <2>2. NextProfile \in profiles
      BY <2>1, FirstRow DEF NextProfile
    <2>3. NextProfile \in db.scans /\ ~ TransportComplete(NextProfile)
      BY <2>2 DEF IInv, ProfilesSound
    <2>4. CompleteRows(db, NextProfile.key) = {}
      BY <2>3 DEF CompleteRows, IInv, StoreSound, OneRow
    <2>5. QED
      BY <1>0, <1>4, <2>1, <2>4 DEF OpenProfile, Waits, SameMemory, durable, output
  <1>5. CASE CloseProfile
    <2>1. event = None /\ profile # None /\ left = {}
      BY <1>5 DEF CloseProfile, Written
    <2>2. profile \in db.scans /\ Received(profile.fragments) # {}
      BY <2>1 DEF IInv, ProfileSound, StoreSound, RowSound
    <2>3. counts_restored
      BY <2>1, <2>2 DEF IInv, ProfileSound
    <2>4. QED
      BY <1>0, <1>5, <2>1, <2>3 DEF CloseProfile, Waits, SameMemory, durable, output
  <1>6. QED
    BY <1>1, <1>2, <1>3, <1>4, <1>5

\* The next pending packet is taken up or dropped.
LEMMA ReplayPendingCases ==
    ASSUME IInv, ReplayPending
    PROVE  Waits \/ Discards
  <1> DEFINE p == Least(pending)
             f == db.packets[p].fragment
  <1>1. event = None /\ pending # {} /\ rejected \subseteq Delivered /\ db \in Store /\ StoreSound(db)
    BY DEF ReplayPending, IInv, TypeOK, EventSound
  <1>2. p \in pending
    BY <1>1, LeastType, PacketIdType DEF IInv, TypeOK
  <1>3. p \in Archived(db) /\ db.packets[p].status = "pending"
    BY <1>2 DEF IInv, PendingSound, WithStatus
  <1>4. CASE f \in decodes
    BY <1>1, <1>4 DEF ReplayPending, Waits, SameMemory, durable, output
  <1>5. CASE f \notin decodes
    <2>1. db' = quarantine_pending_profile_fragment(db, p) /\ SameMemory /\ rejected' = rejected
      BY <1>3, <1>5 DEF ReplayPending, SameMemory, output
    <2> HIDE DEF p
    <2>2. Drops(db, db', p)
      BY <1>1, <1>3, <2>1, QuarantinePendingEffect DEF Drops, SameArchive
    <2>3. QED
      BY <1>1, <2>1, <2>2 DEF Discards
  <1>6. QED
    BY <1>4, <1>5

\* A packet from the radio.
LEMMA ReceiveCases ==
    ASSUME IInv, NEW f \in Delivered, Receive(f)
    PROVE  Takes
  <1> DEFINE p == Least(PacketId \ Archived(db))
  <1>1. Idle /\ PacketId \ Archived(db) # {} /\ db \in Store /\ StoreSound(db)
    BY DEF Receive, Archived, IInv, TypeOK
  <1>2. p \in PacketId /\ p \notin Archived(db)
    BY <1>1, LeastType, PacketIdType
  <1>3. SameMemory /\ rejected' = rejected
    BY DEF Receive, SameMemory, output
  <1>4. \/ db' = [db EXCEPT !.packets[p] = [fragment |-> f, status |-> "pending"]]
        \/ db' = [db EXCEPT !.packets[p] = [fragment |-> f, status |-> "invalid"]]
    BY DEF Receive, archive_v2_profile_fragment, archive_packet
  <1> HIDE DEF p
  <1>5. Archives(db, db', p, f)
    <2>1. CASE db' = [db EXCEPT !.packets[p] = [fragment |-> f, status |-> "pending"]]
      BY <1>1, <1>2, <2>1, ArchiveEffect DEF Archives
    <2>2. CASE db' = [db EXCEPT !.packets[p] = [fragment |-> f, status |-> "invalid"]]
      BY <1>1, <1>2, <2>2, ArchiveEffect DEF Archives
    <2>3. QED
      BY <1>4, <2>1, <2>2
  <1>6. QED
    BY <1>1, <1>3, <1>5 DEF Takes

\* Scans expire, or are drained.
LEMMA MoveCases ==
    ASSUME IInv, Stop \/ \E cutoff \in 1 .. clock + 1 : PersistExpired(cutoff)
    PROVE  \E keys : Moves(keys)
  <1>1. reassembler \in Reassembler /\ clock \in Nat
    BY DEF IInv, TypeOK
  <1>2. CASE Stop
    <2>1. PICK keys : keys = ActiveKeys(reassembler)
      OBVIOUS
    <2>2. /\ reassembler' \in Reassembler
          /\ \A j \in Key : reassembler'.active[j] = IF j \in keys THEN None ELSE reassembler.active[j]
      BY <1>1, <1>2, <2>1, DrainType DEF Stop, ActiveKeys
    <2>3. Moves(keys)
      BY <1>2, <2>1, <2>2 DEF Stop, Idle, Written, Moves
    <2>4. QED
      BY <2>3
  <1>3. CASE \E cutoff \in 1 .. clock + 1 : PersistExpired(cutoff)
    <2>1. PICK cutoff \in 1 .. clock + 1 : PersistExpired(cutoff)
      BY <1>3
    <2>2. cutoff \in Nat
      BY <1>1
    <2>3. PICK keys : keys = ExpiredKeys(reassembler, cutoff)
      OBVIOUS
    <2>4. reassembler' = expire_before(reassembler, cutoff)
      BY <2>1 DEF PersistExpired
    <2>5. /\ reassembler' \in Reassembler
          /\ \A j \in Key : reassembler'.active[j] = IF j \in keys THEN None ELSE reassembler.active[j]
          /\ keys \subseteq ActiveKeys(reassembler)
      BY <1>1, <2>2, <2>3, <2>4, ExpireType
    <2>6. Moves(keys)
      BY <2>1, <2>3, <2>5 DEF PersistExpired, Idle, Written, Moves, durable
    <2>7. QED
      BY <2>6
  <1>4. QED
    BY <1>2, <1>3

\* Every step is of one of these kinds.
LEMMA StepCases ==
    ASSUME IInv, IInv', [Next]_vars
    PROVE  \/ Gone \/ Waits \/ Takes \/ Discards
           \/ \E keys : Moves(keys)
           \/ RestoreFragment
           \/ Matches \/ IngestCurrent \/ PersistProfile \/ HandleEvent
  <1>0. rejected \subseteq Delivered
    BY DEF IInv, TypeOK
  <1>1. CASE Start \/ LoadPending \/ OpenRadio \/ OpenProfile \/ CloseProfile
    BY <1>1, StartCases
  <1>2. CASE ReplayPending
    BY <1>2, ReplayPendingCases
  <1>3. CASE Reconcile
    <2>1. CASE PersistedFragmentMatch(db, CurrentFragment) # None
      BY <1>3, <2>1 DEF Matches
    <2>2. CASE PersistedFragmentMatch(db, CurrentFragment) = None
      <3>1. event = None
        BY <1>3, Reconciling DEF Reconcile
      <3>2. QED
        BY <1>0, <1>3, <2>2, <3>1
           DEF Reconcile, Gone, Waits, SameMemory, Exit, durable, output
    <2>3. QED
      BY <2>1, <2>2
  <1>4. CASE Stop \/ \E cutoff \in 1 .. clock + 1 : PersistExpired(cutoff)
    BY <1>4, MoveCases
  <1>5. CASE Stopped \/ Crash
    BY <1>5 DEF Stopped, Crash, Gone, durable
  <1>6. CASE \E f \in Delivered : Receive(f)
    BY <1>6, ReceiveCases
  <1>7. CASE PollNothing \/ UNCHANGED vars
    BY <1>0, <1>7 DEF PollNothing, vars, Waits, SameMemory, durable, output, fragment
  <1>8. CASE \E f \in Delivered : UpgradeCodec(f)
    BY <1>0, <1>8 DEF UpgradeCodec, Waits, SameMemory, output, fragment
  <1>9. QED
    BY <1>1, <1>2, <1>3, <1>4, <1>5, <1>6, <1>7, <1>8 DEF Next, Process, Environment

-----------------------------------------------------------------------------
(***************************************************************************)
(* What the writes of the receiver do to the store.                        *)
(***************************************************************************)
\* The verdict on fragment f by a scan is true of the scan's row.
LEMMA VerdictTrue ==
    ASSUME NEW d, NEW e, NEW ok, NEW s \in ReassembledProfile, NEW row, NEW f \in OwnedFragment,
           \A q \in Archived(d) : e.packets[q].fragment = d.packets[q].fragment,
           SlotsSound(d, ok, s.key, s.metadata, s.fragments), RowOf(s, row)
    PROVE  /\ Verdict(s, f) = "Duplicate" => Confirms(e, row, f)
           /\ Verdict(s, f) = "Conflict" => Refutes(e, row, f)
  <1>1. f.fragment_index \in Index /\ s.fragments \in Slots
    BY FragmentType, ReassembledType
  <1>2. PICK i : i = f.fragment_index
    OBVIOUS
  <1>3. PICK slot : slot = s.fragments[i]
    OBVIOUS
  <1>4. slot # None =>
           /\ row.fragments[i] = slot.packet
           /\ slot.packet # None
           /\ e.packets[slot.packet].fragment = slot.fragment
    <2> SUFFICES ASSUME slot # None
                 PROVE  /\ row.fragments[i] = slot.packet
                        /\ slot.packet # None
                        /\ e.packets[slot.packet].fragment = slot.fragment
      OBVIOUS
    <2>1. i \in Received(s.fragments)
      BY <1>1, <1>2, <1>3 DEF Received
    <2>2. slot.packet \in PacketId
      BY <1>1, <1>3, <2>1, SlotType
    <2>3. slot.packet \in Archived(d) /\ d.packets[slot.packet].fragment = slot.fragment
      BY <1>3, <2>1 DEF SlotsSound
    <2>4. QED
      BY <1>1, <1>2, <1>3, <2>2, <2>3, StoreNoneAssumption DEF RowOf
  <1>5. row.metadata = s.metadata
    BY DEF RowOf
  <1>6. CASE Verdict(s, f) = "Duplicate"
    <2>1. slot # None /\ slot.fragment = f
      BY <1>2, <1>3, <1>6 DEF Verdict, SameFragment
    <2>2. QED
      BY <1>2, <1>4, <1>6, <2>1 DEF Confirms
  <1>7. CASE Verdict(s, f) = "Conflict"
    <2>1. s.metadata # f.metadata \/ (slot # None /\ slot.fragment # f)
      BY <1>2, <1>3, <1>7 DEF Verdict, SameFragment
    <2>2. QED
      BY <1>2, <1>4, <1>5, <1>7, <2>1 DEF Refutes
  <1>8. QED
    BY <1>6, <1>7

\* Packet p, if the scan has a verdict on it.
HasVerdict(d, s, p, match) ==
    match # None =>
        /\ p \in Archived(d)
        /\ d.packets[p].status = "pending"
        /\ d.packets[p].fragment.key = s.key
        /\ match = "duplicate" => Verdict(s, d.packets[p].fragment) = "Duplicate"
        /\ match = "conflict" => Verdict(s, d.packets[p].fragment) = "Conflict"

\* Store e is store d with the row of scan s, and with the verdict on packet p.
LEMMA InsertContinues ==
    ASSUME NEW d \in Store, StoreSound(d), NEW s \in ReassembledProfile, NEW ok, NEW e, NEW p,
           NEW match \in {None, "duplicate", "conflict"},
           SlotsSound(d, ok, s.key, s.metadata, s.fragments),
           Covers(d, s.key, s.metadata, s.fragments),
           Inserted(d, e, s), CountsOf(d, s.key, s, match), HasVerdict(d, s, p, match),
           \A q \in Archived(d) :
              e.packets[q].status =
                  IF match # None /\ q = p THEN match
                  ELSE IF q \in Packets(s.fragments) THEN StatusOf(s) ELSE d.packets[q].status
    PROVE  \E row : Continues(d, e, s.key, row, p, match) /\ RowOf(s, row)
  <1>1. PICK row : RowsAfter(d, e, ok, s, row)
    BY InsertedRows
  <1>2. /\ row \in e.scans /\ RowOf(s, row)
        /\ \A r \in e.scans : r = row \/ (r \in d.scans /\ r.key # s.key)
        /\ \A r \in d.scans : r.key # s.key => r \in e.scans
    BY <1>1 DEF RowsAfter
  <1>3. row.key = s.key /\ row.metadata = s.metadata
        /\ row.duplicates = s.duplicates /\ row.conflicts = s.conflicts
    BY <1>2 DEF RowOf
  <1>4. SameArchive(d, e)
    BY DEF Inserted, OtherKeys, SameArchive
  <1>5. \A r \in d.scans : r.key = s.key =>
           /\ row.metadata = r.metadata
           /\ \A i \in Received(r.fragments) : row.fragments[i] = r.fragments[i]
    BY <1>2, <1>3 DEF Covers, RowOf, Received
  <1>6. CountsOf(d, s.key, row, match)
    BY <1>3 DEF CountsOf
  <1>7. \A q \in Packets(s.fragments) : d.packets[q].status \in {"pending", "incomplete"}
    BY DEF Packets, SlotsSound
  <1>8. StatusOf(s) \in {"assembled", "incomplete"}
    BY DEF StatusOf
  <1>9. /\ \A q \in Archived(d) : \A status \in {"duplicate", "conflict"} :
              e.packets[q].status = status <=>
                  d.packets[q].status = status \/ (q = p /\ match = status)
        /\ \A q \in Archived(d) : e.packets[q].status = "pending" => d.packets[q].status = "pending"
    <2>1. CASE match = None
      BY <1>7, <1>8, <2>1, StoreNoneAssumption
    <2>2. CASE match # None
      <3>1. d.packets[p].status = "pending" /\ match \in {"duplicate", "conflict"}
        BY <2>2 DEF HasVerdict
      <3>2. QED
        BY <1>7, <1>8, <2>2, <3>1
    <2>3. QED
      BY <2>1, <2>2
  <1>10. match # None =>
            /\ p \in Archived(d)
            /\ d.packets[p].status = "pending"
            /\ d.packets[p].fragment.key = s.key
            /\ TrueOf(e, row, d.packets[p].fragment, match)
    <2> SUFFICES ASSUME match # None
                 PROVE  /\ p \in Archived(d)
                        /\ d.packets[p].status = "pending"
                        /\ d.packets[p].fragment.key = s.key
                        /\ TrueOf(e, row, d.packets[p].fragment, match)
      OBVIOUS
    <2>1. /\ p \in Archived(d)
          /\ d.packets[p].status = "pending"
          /\ d.packets[p].fragment.key = s.key
          /\ match = "duplicate" => Verdict(s, d.packets[p].fragment) = "Duplicate"
          /\ match = "conflict" => Verdict(s, d.packets[p].fragment) = "Conflict"
      BY DEF HasVerdict
    <2>2. PICK f \in OwnedFragment : f = d.packets[p].fragment
      BY <2>1, ArchivedType
    <2>3. \A q \in Archived(d) : e.packets[q].fragment = d.packets[q].fragment
      BY <1>4 DEF SameArchive
    <2>4. /\ Verdict(s, f) = "Duplicate" => Confirms(e, row, f)
          /\ Verdict(s, f) = "Conflict" => Refutes(e, row, f)
      BY <1>2, <2>3, VerdictTrue
    <2>5. TrueOf(e, row, f, match)
      BY <2>1, <2>2, <2>4 DEF TrueOf
    <2>6. QED
      BY <2>1, <2>2, <2>5
  <1>11. Continues(d, e, s.key, row, p, match)
    BY <1>2, <1>3, <1>4, <1>5, <1>6, <1>9, <1>10 DEF Continues
  <1>12. QED
    BY <1>2, <1>11

\* A source that does not decode: the row is dismantled, and its scan forgotten.
LEMMA DismantleEffect ==
    ASSUME IInv, RestoreFragment, ~ SourceDecodes
    PROVE  \E k \in Key :
              /\ Dismantles(db, db', decodes, k)
              /\ reassembler' \in Reassembler
              /\ \A j \in Key : reassembler'.active[j] = IF j = k THEN None ELSE reassembler.active[j]
              /\ backlog = {} /\ backlog' = {} /\ event' = None /\ rejected' = rejected
  <1>1. PICK p : p = profile.fragments[Least(left)]
    OBVIOUS
  <1>2. PICK k : k = profile.key
    OBVIOUS
  <1>3. /\ backlog = {} /\ event = None
        /\ profile \in db.scans /\ profile \in ScanRow /\ ~ TransportComplete(profile)
        /\ p \in Linked(profile) /\ db.packets[p].fragment \notin decodes
    BY <1>1, NextSource DEF SourceDecodes
  <1>4. k \in Key
    BY <1>2, <1>3, RowType
  <1>5. ~ MissingV2Packet(db, profile.id, p)
    BY <1>3 DEF MissingV2Packet
  <1>6. /\ db' = quarantine_incomplete_profile_fragment(db, decodes, k, p)
        /\ reassembler' = discard(reassembler, k)
        /\ rejected' = rejected /\ backlog' = backlog /\ event' = event
    BY <1>1, <1>2, <1>5 DEF RestoreFragment, QuarantineSource, SourceDecodes, output
  <1>7. db \in Store /\ StoreSound(db) /\ reassembler \in Reassembler
    BY DEF IInv, TypeOK
  <1>8. /\ db' \in Store /\ OtherKeys(db, db', k) /\ Archived(db') = Archived(db)
        /\ db'.scans = {r \in db.scans : r.key # k}
        /\ \A q \in Archived(db) : db'.packets[q].status \in {"duplicate", "conflict"} =>
              /\ db'.packets[q].status = db.packets[q].status
              /\ db.packets[q].fragment \in decodes => db.packets[q].fragment.key # k
    <2>1. Dismantled(db, db', decodes, k)
      BY <1>2, <1>3, <1>6, <1>7, QuarantineEffect
    <2>2. QED
      BY <2>1 DEF Dismantled
  <1>9. Dismantles(db, db', decodes, k)
    BY <1>2, <1>3, <1>7, <1>8 DEF Dismantles, SameArchive, OtherKeys
  <1>10. /\ reassembler' \in Reassembler
         /\ \A j \in Key : reassembler'.active[j] = IF j = k THEN None ELSE reassembler.active[j]
    BY <1>4, <1>6, <1>7, DiscardType
  <1>11. QED
    BY <1>3, <1>4, <1>6, <1>9, <1>10

\* The store has a verdict for the packet in hand: its row and the scan in memory count it alike.
LEMMA MatchEffect ==
    ASSUME IInv, Matches
    PROVE  \E k, new, p, match :
              /\ Continues(db, db', k, new, p, match)
              /\ reassembler' \in Reassembler
              /\ ActiveKeys(reassembler') = ActiveKeys(reassembler)
              /\ \A j \in ActiveKeys(reassembler) : j # k => reassembler'.active[j] = reassembler.active[j]
              /\ k \in ActiveKeys(reassembler) =>
                    /\ reassembler'.active[k].duplicates =
                          saturating_add(reassembler.active[k].duplicates, CountOf(match, "duplicate"))
                    /\ reassembler'.active[k].conflicts =
                          saturating_add(reassembler.active[k].conflicts, CountOf(match, "conflict"))
              /\ \E row \in db.scans : row.key = k
              /\ backlog = {} /\ backlog' = {} /\ event = None /\ event' = None /\ rejected' = rejected
  <1>1. PICK f : f = CurrentFragment
    OBVIOUS
  <1>2. PICK k : k = f.key
    OBVIOUS
  <1>3. PICK p : p = current
    OBVIOUS
  <1>4. PICK match : match = PersistedFragmentMatch(db, f)
    OBVIOUS
  <1>5. /\ p \in Archived(db) /\ f = db.packets[p].fragment
        /\ f \in OwnedFragment /\ k \in Key /\ f.fragment_index \in Index
        /\ db.packets[p].status = "pending"
        /\ backlog = {} /\ event = None
        /\ reassembler \in Reassembler /\ db \in Store /\ StoreSound(db)
    BY <1>1, <1>2, <1>3, Reconciling, FragmentType DEF Matches, Reconcile, CurrentFragment
  <1>6. match \in {"duplicate", "conflict"} /\ match # None
    BY <1>1, <1>4, MatchType DEF Matches
  <1>7. PICK x \in Count : x = CountOf(match, "duplicate")
    BY CountOfType
  <1>8. PICK y \in Count : y = CountOf(match, "conflict")
    BY CountOfType
  <1>9. /\ db' = reconcile_persisted_profile_fragment(db, f, p)
        /\ reassembler' = IF contains_active(reassembler, k)
                          THEN restore_receiver_counts(reassembler, k, x, y)
                          ELSE reassembler
        /\ rejected' = rejected /\ backlog' = backlog /\ event' = event
    BY <1>1, <1>2, <1>3, <1>4, <1>7, <1>8 DEF Matches, Reconcile, output
  <1>10. /\ db' \in Store /\ StoreSound(db') /\ OtherKeys(db, db', k)
         /\ Archived(db') = Archived(db)
         /\ \A q \in Archived(db) :
               /\ db'.packets[q].fragment = db.packets[q].fragment
               /\ db'.packets[q].status = IF q = p THEN match ELSE db.packets[q].status
         /\ \E row \in db.scans, new \in db'.scans : row.key = k /\ Updated(row, new, match)
    BY <1>1, <1>2, <1>4, <1>5, <1>6, <1>9, ReconcileEffect
  <1>11. PICK row \in db.scans, new \in db'.scans : row.key = k /\ Updated(row, new, match)
    BY <1>10
  <1>12. /\ new.key = k /\ new.metadata = row.metadata /\ new.fragments = row.fragments
         /\ new.duplicates = saturating_add(row.duplicates, CountOf(match, "duplicate"))
         /\ new.conflicts = saturating_add(row.conflicts, CountOf(match, "conflict"))
    BY <1>11 DEF Updated
  <1>13. /\ \A r \in db.scans : r.key = k => r = row
         /\ \A r \in db'.scans : r.key = k => r = new
         /\ \A r \in db'.scans : r.key # k => r \in db.scans
         /\ \A r \in db.scans : r.key # k => r \in db'.scans
    BY <1>5, <1>10, <1>11, <1>12 DEF StoreSound, OneRow, OtherKeys, Store
  <1>14. TrueOf(db', new, f, match)
    <2>1. PersistedRows(db, f) = {row} /\ row.fragments[f.fragment_index] # None
      BY <1>2, <1>4, <1>6, <1>11, <1>13, MatchType DEF PersistedRows
    <2>2. PICK q : q = row.fragments[f.fragment_index]
      OBVIOUS
    <2>3. f.fragment_index \in Received(row.fragments)
      BY <1>5, <2>1 DEF Received
    <2>4. q \in Archived(db)
      BY <1>5, <1>11, <2>2, <2>3, SourcesArchived
    <2>5. match = IF db.packets[q].fragment = f THEN "duplicate" ELSE "conflict"
      BY <1>4, <2>1, <2>2 DEF PersistedFragmentMatch
    <2>6. db'.packets[q].fragment = db.packets[q].fragment
      BY <1>10, <2>4
    <2>7. new.fragments[f.fragment_index] = q /\ q # None
      BY <1>12, <2>1, <2>2
    <2>8. QED
      BY <2>5, <2>6, <2>7 DEF TrueOf, Confirms, Refutes
  <1>15. CountsOf(db, k, new, match)
    BY <1>11, <1>12, <1>13 DEF CountsOf
  <1>16. SameArchive(db, db')
    BY <1>5, <1>10 DEF SameArchive
  <1>17. /\ \A q \in Archived(db) : \A status \in {"duplicate", "conflict"} :
               db'.packets[q].status = status <=>
                   db.packets[q].status = status \/ (q = p /\ match = status)
         /\ \A q \in Archived(db) : db'.packets[q].status = "pending" => db.packets[q].status = "pending"
    BY <1>5, <1>6, <1>10
  <1>18. Continues(db, db', k, new, p, match)
    <2>1. \A r \in db'.scans : r = new \/ (r \in db.scans /\ r.key # k)
      BY <1>13
    <2>2. \A r \in db.scans : r.key = k =>
             /\ new.metadata = r.metadata
             /\ \A i \in Received(r.fragments) : new.fragments[i] = r.fragments[i]
      BY <1>12, <1>13
    <2>3. f.key = k /\ db.packets[p].fragment = f
      BY <1>2, <1>5
    <2>4. QED
      BY <1>5, <1>6, <1>11, <1>12, <1>13, <1>14, <1>15, <1>16, <1>17, <2>1, <2>2, <2>3 DEF Continues
  <1>19. /\ reassembler' \in Reassembler
         /\ ActiveKeys(reassembler') = ActiveKeys(reassembler)
         /\ \A j \in ActiveKeys(reassembler) : j # k => reassembler'.active[j] = reassembler.active[j]
         /\ k \in ActiveKeys(reassembler) =>
               /\ reassembler'.active[k].duplicates = saturating_add(reassembler.active[k].duplicates, x)
               /\ reassembler'.active[k].conflicts = saturating_add(reassembler.active[k].conflicts, y)
    <2>1. CASE contains_active(reassembler, k)
      <3>1. /\ reassembler' \in Reassembler
            /\ \A j \in Key : j # k => reassembler'.active[j] = reassembler.active[j]
            /\ reassembler'.active[k] \in ActiveProfile
            /\ reassembler'.active[k].duplicates = saturating_add(reassembler.active[k].duplicates, x)
            /\ reassembler'.active[k].conflicts = saturating_add(reassembler.active[k].conflicts, y)
        BY <1>5, <1>9, <2>1, RestoreType
      <3>2. reassembler'.active[k] # None
        BY <3>1, NoneAssumption
      <3>3. ActiveKeys(reassembler') = ActiveKeys(reassembler)
        BY <2>1, <3>1, <3>2 DEF ActiveKeys, contains_active
      <3>4. \A j \in ActiveKeys(reassembler) : j \in Key
        BY DEF ActiveKeys
      <3>5. QED
        BY <3>1, <3>3, <3>4
    <2>2. CASE ~ contains_active(reassembler, k)
      BY <1>5, <1>9, <2>2 DEF contains_active, ActiveKeys
    <2>3. QED
      BY <2>1, <2>2
  <1>20. backlog' = {} /\ event' = None /\ \E r \in db.scans : r.key = k
    BY <1>5, <1>9, <1>11
  <1>21. QED
    BY <1>5, <1>7, <1>8, <1>9, <1>18, <1>19, <1>20

\* A scan of the backlog is written.
LEMMA PersistEffect ==
    ASSUME IInv, MemoryCounts, PersistProfile
    PROVE  \E s \in backlog : \E new :
              /\ Continues(db, db', s.key, new, None, None)
              /\ s.key \notin ActiveKeys(reassembler)
              /\ \A t \in backlog : t # s => t.key # s.key
              /\ event # None => event.profile.key # s.key /\ current' = current
              /\ reassembler' = reassembler /\ backlog' = backlog \ {s} /\ event' = event
              /\ rejected' = rejected
  <1>1. PICK s \in backlog :
          IF UniquePacketViolation(db, s)
          THEN Exit("Sqlite")
          ELSE /\ db' = insert_profile_scan(db, s)
               /\ backlog' = backlog \ {s}
               /\ UNCHANGED event
               /\ FinishFragment(stage)
               /\ UNCHANGED <<rejected, exits, failure, phase, reassembler, clock, restore, pending>>
    BY DEF PersistProfile
  <1>2. /\ s \in ReassembledProfile /\ db \in Store /\ StoreSound(db)
        /\ SlotsSound(db, decodes, s.key, s.metadata, s.fragments)
        /\ Covers(db, s.key, s.metadata, s.fragments)
        /\ s.key \notin ActiveKeys(reassembler)
        /\ \A t \in backlog : t # s => t.key # s.key
        /\ event # None => event.profile.key # s.key
    BY DEF IInv, TypeOK, BacklogSound, EventSound
  <1>3. PICK e : e = insert_profile_scan(db, s)
    OBVIOUS
  <1>4. /\ ~ UniquePacketViolation(db, s)
        /\ Inserted(db, e, s)
        /\ \A q \in Archived(db) :
              e.packets[q].status =
                  IF q \in Packets(s.fragments) THEN StatusOf(s) ELSE db.packets[q].status
    BY <1>2, <1>3, InsertEffect
  <1>5. /\ db' = e /\ backlog' = backlog \ {s} /\ event' = event /\ rejected' = rejected
        /\ reassembler' = reassembler
        /\ event # None => current' = current
    BY <1>1, <1>3, <1>4 DEF FinishFragment
  <1>6. CountsOf(db, s.key, s, None)
    BY DEF MemoryCounts
  <1>7. HasVerdict(db, s, None, None)
    BY DEF HasVerdict
  <1>8. \A q \in Archived(db) : e.packets[q].status =
           IF None # None /\ q = None THEN None
           ELSE IF q \in Packets(s.fragments) THEN StatusOf(s) ELSE db.packets[q].status
    BY <1>4
  <1>9. \E new : Continues(db, e, s.key, new, None, None) /\ RowOf(s, new)
    BY <1>2, <1>4, <1>6, <1>7, <1>8, InsertContinues
  <1>10. QED
    BY <1>2, <1>5, <1>9

\* The result of an ingest is written.
LEMMA HandleEffect ==
    ASSUME IInv, MemoryCounts, EventTrue, HandleEvent
    PROVE  \E s, new, match :
              /\ Continues(db, db', s.key, new, current, match)
              /\ RowOf(s, new)
              /\ backlog = {} /\ event # None /\ s = event.profile
              /\ s.key \in ActiveKeys(reassembler) => s = finish(s.key, reassembler.active[s.key])
              /\ reassembler' = reassembler /\ backlog' = {} /\ event' = None /\ rejected' = rejected
  <1>1. PICK s : s = event.profile
    OBVIOUS
  <1>2. PICK p : p = current
    OBVIOUS
  <1>3. /\ backlog = {} /\ event # None /\ s # None /\ stage = "handle" /\ event.packet = p
        /\ SlotsSound(db, decodes, s.key, s.metadata, s.fragments)
        /\ Covers(db, s.key, s.metadata, s.fragments)
        /\ event.event = "Complete" => CompleteSound(event)
        /\ event.event # "Complete" => SnapshotSound(event)
    BY <1>1, <1>2 DEF HandleEvent, IInv, EventSound
  <1>4. /\ s \in ReassembledProfile
        /\ event.event \in {"Complete", "Duplicate", "Conflict"}
        /\ db \in Store /\ StoreSound(db) /\ reassembler \in Reassembler
    BY <1>1, <1>3 DEF IInv, TypeOK, Event
  <1>5. p \in Archived(db)
    BY <1>2, <1>3 DEF IInv, PhaseSound, CurrentSound
  <1>6. ~ UniquePacketViolation(db, s)
    BY <1>3, <1>4, InsertEffect
  <1>7. PICK st : st = IF event.event = "Duplicate" THEN "duplicate" ELSE "conflict"
    OBVIOUS
  <1>8. PICK e : e = IF event.event = "Complete" THEN insert_profile_scan(db, s)
                     ELSE insert_profile_integrity_snapshot(db, s, p, st)
    OBVIOUS
  <1>9. /\ db' = e /\ event' = None /\ backlog' = {} /\ rejected' = rejected
        /\ reassembler' = reassembler
    BY <1>1, <1>3, <1>6, <1>7, <1>8 DEF HandleEvent
  <1>10. CASE event.event = "Complete"
    <2>1. s.key \notin ActiveKeys(reassembler)
      BY <1>1, <1>3, <1>10 DEF CompleteSound
    <2>2. e = insert_profile_scan(db, s)
      BY <1>8, <1>10
    <2>3. /\ Inserted(db, e, s)
          /\ \A q \in Archived(db) :
                e.packets[q].status =
                    IF q \in Packets(s.fragments) THEN StatusOf(s) ELSE db.packets[q].status
      BY <1>3, <1>4, <2>2, InsertEffect
    <2>4. CountsOf(db, s.key, s, None)
      BY <1>1, <1>3, <1>10 DEF MemoryCounts
    <2>5. HasVerdict(db, s, p, None)
      BY DEF HasVerdict
    <2>6. \A q \in Archived(db) : e.packets[q].status =
             IF None # None /\ q = p THEN None
             ELSE IF q \in Packets(s.fragments) THEN StatusOf(s) ELSE db.packets[q].status
      BY <2>3
    <2>7. \E new : Continues(db, e, s.key, new, p, None) /\ RowOf(s, new)
      BY <1>3, <1>4, <2>3, <2>4, <2>5, <2>6, InsertContinues
    <2>8. QED
      BY <1>1, <1>2, <1>3, <1>9, <2>1, <2>7
  <1>11. CASE event.event # "Complete"
    <2>1. /\ s.key \in ActiveKeys(reassembler)
          /\ s = finish(s.key, reassembler.active[s.key])
          /\ db.packets[p].status = "pending"
          /\ db.packets[p].fragment.key = s.key
          /\ p \notin Packets(s.fragments)
      BY <1>1, <1>2, <1>3, <1>11 DEF SnapshotSound, CurrentFragment
    <2>2. /\ st \in {"duplicate", "conflict"} /\ st # None
          /\ e = insert_profile_integrity_snapshot(db, s, p, st)
      BY <1>7, <1>8, <1>11, StoreNoneAssumption
    <2>3. /\ Inserted(db, e, s)
          /\ \A q \in Archived(db) :
                e.packets[q].status =
                    IF q = p THEN st
                    ELSE IF q \in Packets(s.fragments) THEN StatusOf(s) ELSE db.packets[q].status
      BY <1>3, <1>4, <1>5, <2>1, <2>2, SnapshotEffect
    <2>4. MatchOf(event) = st /\ Moved(event, s.key)
      BY <1>1, <1>3, <1>7, <1>11 DEF MatchOf, Moved
    <2>5. CountsOf(db, s.key, s, st)
      <3>1. CountsOf(db, s.key, reassembler.active[s.key], st)
        BY <2>1, <2>4 DEF MemoryCounts
      <3>2. /\ s.duplicates = reassembler.active[s.key].duplicates
            /\ s.conflicts = reassembler.active[s.key].conflicts
        BY <2>1 DEF finish
      <3>3. QED
        BY <3>1, <3>2 DEF CountsOf
    <2>6. HasVerdict(db, s, p, st)
      <3>1. event.event = Verdict(s, db.packets[p].fragment)
        BY <1>1, <1>2, <1>3, <1>11 DEF EventTrue, CurrentFragment
      <3>2. /\ st = "duplicate" => event.event = "Duplicate"
            /\ st = "conflict" => event.event = "Conflict"
        BY <1>4, <1>7, <1>11
      <3>3. QED
        BY <1>5, <2>1, <3>1, <3>2 DEF HasVerdict
    <2>7. \A q \in Archived(db) : e.packets[q].status =
             IF st # None /\ q = p THEN st
             ELSE IF q \in Packets(s.fragments) THEN StatusOf(s) ELSE db.packets[q].status
      BY <2>2, <2>3
    <2>8. \E new : Continues(db, e, s.key, new, p, st) /\ RowOf(s, new)
      BY <1>3, <1>4, <2>2, <2>3, <2>5, <2>6, <2>7, InsertContinues
    <2>9. QED
      BY <1>1, <1>2, <1>3, <1>9, <2>1, <2>8
  <1>12. QED
    BY <1>10, <1>11

-----------------------------------------------------------------------------
(***************************************************************************)
(* The counters in memory keep up with the store.                          *)
(***************************************************************************)
\* The counters of another scan stay right.
LEMMA CountsElsewhere ==
    ASSUME NEW d, NEW e, NEW k, NEW new, NEW p, NEW match, Continues(d, e, k, new, p, match),
           NEW j, j # k, NEW x, NEW m, CountsOf(d, j, x, m)
    PROVE  CountsOf(e, j, x, m)
  <1>1. \A row : row.key = j => (row \in e.scans <=> row \in d.scans)
    BY DEF Continues
  <1>2. QED
    BY <1>1 DEF CountsOf

\* Adding nothing changes nothing.
LEMMA AddZero ==
    ASSUME NEW n \in Count
    PROVE  saturating_add(n, 0) = n
  BY ReassemblyAssumption DEF saturating_add, Count

\* None is no verdict.
LEMMA NoneCounts == CountOf(None, "duplicate") = 0 /\ CountOf(None, "conflict") = 0
  BY StoreNoneAssumption DEF CountOf

\* The counters of the scan that was written are those of its row.
LEMMA CountsHere ==
    ASSUME NEW d, NEW e, NEW k, NEW new, NEW p, NEW match, Continues(d, e, k, new, p, match),
           NEW x, x.duplicates = new.duplicates, x.conflicts = new.conflicts
    PROVE  CountsOf(e, k, x, None)
  <1>1. /\ new \in e.scans /\ new.key = k /\ e \in Store
        /\ \A row \in e.scans : row.key = k => row = new
    BY DEF Continues, SameArchive
  <1>2. new.duplicates \in Count /\ new.conflicts \in Count
    BY <1>1, RowType DEF Store
  <1>3. /\ saturating_add(new.duplicates, 0) = new.duplicates
        /\ saturating_add(new.conflicts, 0) = new.conflicts
    BY <1>2, AddZero
  <1>4. QED
    BY <1>1, <1>3, NoneCounts DEF CountsOf

\* The verdict a scan has just counted is counted on top of its row.
LEMMA CountsCounted ==
    ASSUME NEW d \in Store, NEW k, NEW x \in ActiveProfile, CountsOf(d, k, x, None),
           NEW verdict \in {"Duplicate", "Conflict"}, NEW match,
           match = IF verdict = "Duplicate" THEN "duplicate" ELSE "conflict"
    PROVE  CountsOf(d, k, Counted(x, verdict), match)
  <1>1. \A row \in d.scans : row.duplicates \in Count /\ row.conflicts \in Count
    BY RowType DEF Store
  <1>2. /\ \A row \in d.scans : row.key = k =>
              x.duplicates = row.duplicates /\ x.conflicts = row.conflicts
        /\ (\A row \in d.scans : row.key # k) => x.duplicates = 0 /\ x.conflicts = 0
    BY <1>1, AddZero, NoneCounts DEF CountsOf
  <1>3. saturating_add(0, 1) = 1
    BY OneIsCount, AddToZero
  <1>4. \A n \in Count : saturating_add(n, 0) = n
    BY AddZero
  <1>5. CASE verdict = "Duplicate"
    <2>1. /\ Counted(x, verdict).duplicates = saturating_add(x.duplicates, 1)
          /\ Counted(x, verdict).conflicts = x.conflicts
      BY <1>5 DEF Counted, ActiveProfile
    <2>2. match = "duplicate" /\ CountOf(match, "duplicate") = 1 /\ CountOf(match, "conflict") = 0
      BY <1>5 DEF CountOf
    <2>3. QED
      BY <1>1, <1>2, <1>3, <1>4, <2>1, <2>2 DEF CountsOf
  <1>6. CASE verdict = "Conflict"
    <2>1. /\ Counted(x, verdict).duplicates = x.duplicates
          /\ Counted(x, verdict).conflicts = saturating_add(x.conflicts, 1)
      BY <1>6 DEF Counted, ActiveProfile
    <2>2. match = "conflict" /\ CountOf(match, "duplicate") = 0 /\ CountOf(match, "conflict") = 1
      BY <1>6 DEF CountOf
    <2>3. QED
      BY <1>1, <1>2, <1>3, <1>4, <2>1, <2>2 DEF CountsOf
  <1>7. QED
    BY <1>5, <1>6

\* Counters that agree with those of y are right if those are.
LEMMA CountsEqual ==
    ASSUME NEW d, NEW k, NEW x, NEW y, NEW match, CountsOf(d, k, y, match),
           x.duplicates = y.duplicates, x.conflicts = y.conflicts
    PROVE  CountsOf(d, k, x, match)
  BY DEF CountsOf

\* What is said of the other scans, after an ingest has made room for scan k.
LEMMA RoomCounts ==
    ASSUME NEW d, NEW r \in Reassembler, NEW s, NEW k \in Key, NEW v, NEW out, Room(r, s, k, v, out),
           \A j \in ActiveKeys(r) : CountsOf(d, j, r.active[j], None)
    PROVE  /\ \A j \in ActiveKeys(s) : j # k => CountsOf(d, j, s.active[j], None)
           /\ \A t \in out : CountsOf(d, t.key, t, None)
  <1>1. \A j \in ActiveKeys(s) : j # k => j \in ActiveKeys(r) /\ s.active[j] = r.active[j]
    BY RoomMemory
  <1>2. \A t \in out : v \in ActiveKeys(r) /\ t = finish(v, r.active[v])
    BY DEF Room, Evicted
  <1>3. \A t \in out : CountsOf(d, t.key, t, None)
    <2> SUFFICES ASSUME NEW t \in out
                 PROVE  CountsOf(d, t.key, t, None)
      OBVIOUS
    <2>1. CountsOf(d, v, r.active[v], None) /\ t = finish(v, r.active[v])
      BY <1>2
    <2>2. /\ t.key = v
          /\ t.duplicates = r.active[v].duplicates /\ t.conflicts = r.active[v].conflicts
      BY <2>1 DEF finish
    <2>3. QED
      BY <2>1, <2>2, CountsEqual
  <1>4. QED
    BY <1>1, <1>3

\* The same rows give the same counters.
LEMMA CountsSame ==
    ASSUME NEW d, NEW e, e.scans = d.scans, NEW k, NEW x, NEW match, CountsOf(d, k, x, match)
    PROVE  CountsOf(e, k, x, match)
  BY DEF CountsOf

\* The rows stay, and so do the scans in memory.
LEMMA SameAgrees ==
    ASSUME EventTrue, MemoryCounts, SameMemory, db'.scans = db.scans,
           event # None => db' = db /\ current' = current
    PROVE  EventTrue' /\ MemoryCounts'
  <1>1. EventTrue'
    BY DEF EventTrue, CurrentFragment, SameMemory
  <1>2. PICK d, e : d = db /\ e = db' /\ e.scans = d.scans
    OBVIOUS
  <1>3. \A k, x, match : CountsOf(d, k, x, match) => CountsOf(e, k, x, match)
    BY <1>2, CountsSame
  <1>4. MemoryCounts'
    BY <1>2, <1>3 DEF MemoryCounts, SameMemory
  <1>5. QED
    BY <1>1, <1>4

\* The process ends: nothing is in memory.
LEMMA GoneAgrees ==
    ASSUME Gone
    PROVE  EventTrue' /\ MemoryCounts'
  <1>1. event' = None /\ backlog' = {} /\ reassembler' = EmptyReassembler
    BY DEF Gone, Forget
  <1>2. ActiveKeys(reassembler') = {}
    BY <1>1, EmptyType
  <1>3. QED
    BY <1>1, <1>2 DEF EventTrue, MemoryCounts

\* While there is no event, the counters in memory are those of the store.
LEMMA NoEvent ==
    ASSUME MemoryCounts, event = None
    PROVE  \A j \in ActiveKeys(reassembler) : CountsOf(db, j, reassembler.active[j], None)
  BY DEF MemoryCounts, Moved

\* What is to be shown after a step that leaves no event.
LEMMA AgreesNext ==
    ASSUME event' = None,
           \A j \in ActiveKeys(reassembler') : CountsOf(db', j, reassembler'.active[j], None),
           \A t \in backlog' : CountsOf(db', t.key, t, None)
    PROVE  EventTrue' /\ MemoryCounts'
  BY DEF EventTrue, MemoryCounts, Moved

\* Scans move to the backlog as they are.
LEMMA MovesAgrees ==
    ASSUME IInv, MemoryCounts, NEW keys, Moves(keys)
    PROVE  EventTrue' /\ MemoryCounts'
  <1>1. \A j \in ActiveKeys(reassembler) : CountsOf(db, j, reassembler.active[j], None)
    BY NoEvent DEF Moves
  <1>2. \A j \in ActiveKeys(reassembler') :
           j \in ActiveKeys(reassembler) /\ reassembler'.active[j] = reassembler.active[j]
    BY DEF Moves, ActiveKeys
  <1>3. \A t \in backlog' : CountsOf(db, t.key, t, None)
    <2> SUFFICES ASSUME NEW t \in backlog'
                 PROVE  CountsOf(db, t.key, t, None)
      OBVIOUS
    <2>1. PICK j \in keys : t = finish(j, reassembler.active[j])
      BY DEF Moves, FinishAll
    <2>2. CountsOf(db, j, reassembler.active[j], None)
      BY <1>1 DEF Moves
    <2>3. /\ t.key = j
          /\ t.duplicates = reassembler.active[j].duplicates
          /\ t.conflicts = reassembler.active[j].conflicts
      BY <2>1 DEF finish
    <2>4. QED
      BY <2>2, <2>3, CountsEqual
  <1>4. db' = db /\ event' = None
    BY DEF Moves
  <1>5. QED
    BY <1>1, <1>2, <1>3, <1>4, AgreesNext

\* A row is dismantled: the other scans keep their counters.
LEMMA DismantleAgrees ==
    ASSUME IInv, MemoryCounts, RestoreFragment, ~ SourceDecodes
    PROVE  EventTrue' /\ MemoryCounts'
  <1>1. PICK k \in Key :
              /\ Dismantles(db, db', decodes, k)
              /\ reassembler' \in Reassembler
              /\ \A j \in Key : reassembler'.active[j] = IF j = k THEN None ELSE reassembler.active[j]
              /\ backlog = {} /\ backlog' = {} /\ event' = None /\ rejected' = rejected
    BY DismantleEffect
  <1>2. event = None
    BY DEF RestoreFragment, Written
  <1>3. \A j \in ActiveKeys(reassembler) : CountsOf(db, j, reassembler.active[j], None)
    BY <1>2, NoEvent
  <1>4. \A j \in ActiveKeys(reassembler') :
           j # k /\ j \in ActiveKeys(reassembler) /\ reassembler'.active[j] = reassembler.active[j]
    BY <1>1 DEF ActiveKeys
  <1>5. db'.scans = {row \in db.scans : row.key # k}
    BY <1>1 DEF Dismantles
  <1>6. \A j, x : j # k /\ CountsOf(db, j, x, None) => CountsOf(db', j, x, None)
    BY <1>5 DEF CountsOf
  <1>7. QED
    BY <1>1, <1>3, <1>4, <1>6, AgreesNext

\* A source is replayed: its scan has the counters of the row, and those who left the table keep theirs.
LEMMA ReplayAgrees ==
    ASSUME IInv, MemoryCounts, RestoreFragment, SourceDecodes
    PROVE  EventTrue' /\ MemoryCounts'
  <1>1. PICK i, p, f, k : /\ i = Least(left) /\ p = profile.fragments[i]
                          /\ f = db.packets[p].fragment /\ k = profile.key
    OBVIOUS
  <1>2. f \in decodes
    BY <1>1 DEF SourceDecodes
  <1>3. /\ \E v, x : Room(reassembler, reassembler', k, v, backlog') /\ Replay(k, f, p, x)
        /\ event' = None /\ db' = db
    BY <1>1, <1>2, ReplayEffect
  <1>4. PICK v, x : Room(reassembler, reassembler', k, v, backlog') /\ Replay(k, f, p, x)
    BY <1>3
  <1>5. /\ event = None /\ profile \in db.scans /\ profile \in ScanRow
        /\ \A r \in db.scans : r.key = profile.key => r = profile
        /\ f.key = k
    BY <1>1, NextSource
  <1>6. \A j \in ActiveKeys(reassembler) : CountsOf(db, j, reassembler.active[j], None)
    BY <1>5, NoEvent
  <1>7. k \in Key /\ reassembler \in Reassembler
    BY <1>1, <1>5, RowType DEF IInv, TypeOK
  <1>8. /\ \A j \in ActiveKeys(reassembler') : j # k => CountsOf(db, j, reassembler'.active[j], None)
        /\ \A t \in backlog' : CountsOf(db, t.key, t, None)
    BY <1>4, <1>6, <1>7, RoomCounts
  <1>9. CountsOf(db, k, reassembler'.active[k], None)
    <2>1. CASE k \in ActiveKeys(reassembler)
      <3>1. x = reassembler.active[k]
        BY <1>4, <1>5, <2>1 DEF Replay, FillsSlot, contains_active, ActiveKeys
      <3>2. /\ reassembler'.active[k].duplicates = reassembler.active[k].duplicates
            /\ reassembler'.active[k].conflicts = reassembler.active[k].conflicts
        BY <1>4, <2>1, <3>1 DEF Replay
      <3>3. CountsOf(db, k, reassembler.active[k], None)
        BY <1>6, <2>1
      <3>4. QED
        BY <3>2, <3>3, CountsEqual
    <2>2. CASE k \notin ActiveKeys(reassembler)
      <3>1. /\ reassembler'.active[k].duplicates = profile.duplicates
            /\ reassembler'.active[k].conflicts = profile.conflicts
        BY <1>4, <2>2 DEF Replay
      <3>2. profile.duplicates \in Count /\ profile.conflicts \in Count
        BY <1>5, RowType
      <3>3. /\ saturating_add(profile.duplicates, 0) = profile.duplicates
            /\ saturating_add(profile.conflicts, 0) = profile.conflicts
        BY <3>2, AddZero
      <3>4. QED
        BY <1>1, <1>5, <3>1, <3>3, NoneCounts DEF CountsOf
    <2>3. QED
      BY <2>1, <2>2
  <1>10. \A j \in ActiveKeys(reassembler') : CountsOf(db, j, reassembler'.active[j], None)
    BY <1>8, <1>9
  <1>11. QED
    BY <1>3, <1>8, <1>10, AgreesNext

\* A verdict of the store: the row and the scan in memory have counted it alike.
LEMMA MatchAgrees ==
    ASSUME IInv, MemoryCounts, Matches
    PROVE  EventTrue' /\ MemoryCounts'
  <1>1. PICK k, new, p, match :
              /\ Continues(db, db', k, new, p, match)
              /\ ActiveKeys(reassembler') = ActiveKeys(reassembler)
              /\ \A j \in ActiveKeys(reassembler) : j # k => reassembler'.active[j] = reassembler.active[j]
              /\ k \in ActiveKeys(reassembler) =>
                    /\ reassembler'.active[k].duplicates =
                          saturating_add(reassembler.active[k].duplicates, CountOf(match, "duplicate"))
                    /\ reassembler'.active[k].conflicts =
                          saturating_add(reassembler.active[k].conflicts, CountOf(match, "conflict"))
              /\ \E row \in db.scans : row.key = k
              /\ backlog' = {} /\ event = None /\ event' = None
    BY MatchEffect
  <1>2. \A j \in ActiveKeys(reassembler) : CountsOf(db, j, reassembler.active[j], None)
    BY <1>1, NoEvent
  <1>3. \A j, x : j # k /\ CountsOf(db, j, x, None) => CountsOf(db', j, x, None)
    BY <1>1, CountsElsewhere
  <1>4. ASSUME k \in ActiveKeys(reassembler)
        PROVE  CountsOf(db', k, reassembler'.active[k], None)
    <2>1. PICK row \in db.scans : row.key = k
      BY <1>1
    <2>2. row.duplicates \in Count /\ row.conflicts \in Count
      BY <2>1, RowType DEF IInv, TypeOK, Store
    <2>3. /\ saturating_add(row.duplicates, 0) = row.duplicates
          /\ saturating_add(row.conflicts, 0) = row.conflicts
      BY <2>2, AddZero
    <2>4. CountsOf(db, k, reassembler.active[k], None)
      BY <1>2, <1>4
    <2>5. /\ reassembler.active[k].duplicates = row.duplicates
          /\ reassembler.active[k].conflicts = row.conflicts
      BY <2>1, <2>3, <2>4, NoneCounts DEF CountsOf
    <2>6. CountsOf(db, k, new, match)
      BY <1>1 DEF Continues
    <2>7. /\ new.duplicates = saturating_add(row.duplicates, CountOf(match, "duplicate"))
          /\ new.conflicts = saturating_add(row.conflicts, CountOf(match, "conflict"))
      BY <2>1, <2>6 DEF CountsOf
    <2>8. /\ reassembler'.active[k].duplicates = new.duplicates
          /\ reassembler'.active[k].conflicts = new.conflicts
      BY <1>1, <1>4, <2>5, <2>7
    <2>9. QED
      BY <1>1, <2>8, CountsHere
  <1>5. \A j \in ActiveKeys(reassembler') : CountsOf(db', j, reassembler'.active[j], None)
    BY <1>1, <1>2, <1>3, <1>4
  <1>6. QED
    BY <1>1, <1>5, AgreesNext

\* A scan of the backlog is written: nothing else in memory has its key.
LEMMA PersistAgrees ==
    ASSUME IInv, EventTrue, MemoryCounts, PersistProfile
    PROVE  EventTrue' /\ MemoryCounts'
  <1>1. PICK s, new :
              /\ s \in backlog
              /\ Continues(db, db', s.key, new, None, None)
              /\ s.key \notin ActiveKeys(reassembler)
              /\ \A t \in backlog : t # s => t.key # s.key
              /\ event # None => event.profile.key # s.key /\ current' = current
              /\ reassembler' = reassembler /\ backlog' = backlog \ {s} /\ event' = event
    BY PersistEffect
  <1>2. \A j, x, m : j # s.key /\ CountsOf(db, j, x, m) => CountsOf(db', j, x, m)
    BY <1>1, CountsElsewhere
  <1>3. MemoryCounts'
    BY <1>1, <1>2 DEF MemoryCounts
  <1>4. ASSUME event # None
        PROVE  CurrentFragment' = CurrentFragment
    <2>1. current \in Archived(db)
      BY <1>4 DEF IInv, EventSound, PhaseSound, CurrentSound
    <2>2. QED
      BY <1>1, <1>4, <2>1 DEF Continues, SameArchive, CurrentFragment
  <1>5. EventTrue'
    BY <1>1, <1>4 DEF EventTrue
  <1>6. QED
    BY <1>3, <1>5

\* The result of an ingest is written: the row has the counters of the scan.
LEMMA HandleAgrees ==
    ASSUME IInv, EventTrue, MemoryCounts, HandleEvent
    PROVE  EventTrue' /\ MemoryCounts'
  <1>1. PICK s, new, match :
              /\ Continues(db, db', s.key, new, current, match)
              /\ RowOf(s, new)
              /\ event # None /\ s = event.profile
              /\ s.key \in ActiveKeys(reassembler) => s = finish(s.key, reassembler.active[s.key])
              /\ reassembler' = reassembler /\ backlog' = {} /\ event' = None
    BY HandleEffect
  <1>2. \A j, x : j # s.key /\ CountsOf(db, j, x, None) => CountsOf(db', j, x, None)
    BY <1>1, CountsElsewhere
  <1>3. \A j \in ActiveKeys(reassembler) : j # s.key => CountsOf(db, j, reassembler.active[j], None)
    BY <1>1 DEF MemoryCounts, Moved
  <1>4. ASSUME s.key \in ActiveKeys(reassembler)
        PROVE  CountsOf(db', s.key, reassembler.active[s.key], None)
    <2>1. /\ s.duplicates = reassembler.active[s.key].duplicates
          /\ s.conflicts = reassembler.active[s.key].conflicts
      BY <1>1, <1>4 DEF finish
    <2>2. /\ new.duplicates = reassembler.active[s.key].duplicates
          /\ new.conflicts = reassembler.active[s.key].conflicts
      BY <1>1, <2>1 DEF RowOf
    <2>3. QED
      BY <1>1, <2>2, CountsHere
  <1>5. \A j \in ActiveKeys(reassembler') : CountsOf(db', j, reassembler'.active[j], None)
    BY <1>1, <1>2, <1>3, <1>4
  <1>6. QED
    BY <1>1, <1>5, AgreesNext

\* An ingest makes room for the scan of the fragment.
LEMMA IngestRoom ==
    ASSUME NEW f, NEW p, NEW t, NEW v, NEW result, Ingests(f, p, t, v, result)
    PROVE  Room(reassembler, reassembler', f.key, v, backlog')
  <1>1. \E x : Table(reassembler, reassembler', f.key, v, x)
    BY DEF Ingests, CountedCase, PendingCase, CompleteCase
  <1>2. \A j \in Key : j # f.key => reassembler'.active[j] = IF j = v THEN None ELSE reassembler.active[j]
    BY <1>1 DEF Table
  <1>3. QED
    BY <1>2 DEF Room, Ingests

\* The scan that a fragment fills has the counters of its row, or is new and has no row.
LEMMA FilledCounts ==
    ASSUME IInv, MemoryCounts, IngestCurrent, NEW f, f = CurrentFragment, NEW p, p = current,
           NEW t \in Nat, NEW x, FillsSlot(reassembler, f, t, x)
    PROVE  CountsOf(db, f.key, Accept(x, f, p, t), None)
  <1>1. PICK y, k : y = Accept(x, f, p, t) /\ k = f.key
    OBVIOUS
  <1>2. /\ y.duplicates = x.duplicates /\ y.conflicts = x.conflicts
        /\ k \in ActiveKeys(reassembler) => x = reassembler.active[k]
    BY <1>1, IngestFills
  <1>3. /\ event = None /\ k \in Key
        /\ \A row \in db.scans : row.key = k => row.key \in ActiveKeys(reassembler)
    BY <1>1, Ingesting
  <1>4. CASE k \in ActiveKeys(reassembler)
    <2>1. CountsOf(db, k, reassembler.active[k], None)
      BY <1>3, <1>4, NoEvent
    <2>2. QED
      BY <1>1, <1>2, <1>4, <2>1, CountsEqual
  <1>5. CASE k \notin ActiveKeys(reassembler)
    <2>1. x.duplicates = 0 /\ x.conflicts = 0
      BY <1>1, <1>3, <1>5 DEF FillsSlot, contains_active, ActiveKeys, NewActive
    <2>2. \A row \in db.scans : row.key # k
      BY <1>3, <1>5
    <2>3. QED
      BY <1>1, <1>2, <2>1, <2>2, NoneCounts DEF CountsOf
  <1>6. QED
    BY <1>4, <1>5

\* A duplicate or a conflict: the counter in memory is one verdict ahead of the row.
LEMMA CountedAgrees ==
    ASSUME IInv, MemoryCounts, IngestCurrent, NEW f, f = CurrentFragment, NEW p, p = current,
           NEW t \in Nat, NEW v, NEW result, Ingests(f, p, t, v, result),
           CountedCase(reassembler, reassembler', result, f, v)
    PROVE  EventTrue' /\ MemoryCounts'
  <1>1. PICK k, a : k = f.key /\ a = reassembler.active[k]
    OBVIOUS
  <1>2. /\ event = None /\ k \in Key /\ f \in OwnedFragment
        /\ reassembler \in Reassembler /\ db \in Store
    BY <1>1, Ingesting
  <1>3. PICK verdict \in {"Duplicate", "Conflict"} :
           /\ result.event = verdict
           /\ verdict = Verdict(a, f)
           /\ Table(reassembler, reassembler', k, v, Counted(a, verdict))
           /\ result.integrity_snapshot = finish(k, Counted(a, verdict))
    BY <1>1 DEF CountedCase
  <1>4. k \in ActiveKeys(reassembler) /\ a \in ActiveProfile
    <2>1. k \in ActiveKeys(reassembler)
      BY <1>1, <1>2 DEF CountedCase, contains_active, ActiveKeys
    <2>2. QED
      BY <1>1, <1>2, <2>1, ActiveType
  <1>5. PICK c : c = Counted(a, verdict)
    OBVIOUS
  <1>6. c.metadata = a.metadata /\ c.fragments = a.fragments
    BY <1>4, <1>5, CountedType
  <1>7. event' # None /\ backlog' = {}
    BY IngestCounted, EventNoneAssumption
  <1>8. event' = [event |-> verdict, profile |-> finish(k, c), packet |-> p]
    BY <1>3, <1>5 DEF Ingests, EventOf
  <1>9. /\ event'.event = verdict /\ event'.profile.key = k
        /\ event'.profile.metadata = a.metadata /\ event'.profile.fragments = a.fragments
    BY <1>6, <1>8 DEF finish
  <1>10. CurrentFragment' = f
    <2>1. db' = db /\ current' = current
      BY <1>7, IngestEffect
    <2>2. QED
      BY <2>1 DEF CurrentFragment
  <1>11. EventTrue'
    BY <1>3, <1>9, <1>10 DEF EventTrue, Verdict
  <1>12. \A j \in ActiveKeys(reassembler) : CountsOf(db, j, reassembler.active[j], None)
    BY <1>2, NoEvent
  <1>13. CountsOf(db, k, c, MatchOf(event'))
    <2>1. MatchOf(event') = IF verdict = "Duplicate" THEN "duplicate" ELSE "conflict"
      BY <1>7, <1>9 DEF MatchOf
    <2>2. CountsOf(db, k, a, None)
      BY <1>1, <1>4, <1>12
    <2>3. QED
      BY <1>2, <1>4, <1>5, <2>1, <2>2, CountsCounted
  <1>14. \A j \in ActiveKeys(reassembler') : j # k => CountsOf(db, j, reassembler'.active[j], None)
    BY <1>1, <1>2, <1>12, IngestRoom, RoomCounts
  <1>15. \A j : Moved(event', j) <=> j = k
    BY <1>7, <1>9 DEF Moved
  <1>16. reassembler'.active[k] = c /\ db' = db
    BY <1>2, <1>3, <1>5, IngestEffect DEF Table
  <1>17. MemoryCounts'
    BY <1>7, <1>9, <1>13, <1>14, <1>15, <1>16 DEF MemoryCounts
  <1>18. QED
    BY <1>11, <1>17

\* The fragment fills a slot.
LEMMA FillAgrees ==
    ASSUME IInv, MemoryCounts, IngestCurrent, NEW f, f = CurrentFragment, NEW p, p = current,
           NEW t \in Nat, NEW v, NEW result, Ingests(f, p, t, v, result),
           \/ PendingCase(reassembler, reassembler', result, f, p, t, v)
           \/ CompleteCase(reassembler, reassembler', result, f, p, t, v)
    PROVE  EventTrue' /\ MemoryCounts'
  <1>1. PICK k : k = f.key
    OBVIOUS
  <1>2. event = None /\ k \in Key /\ reassembler \in Reassembler /\ db' = db
    BY <1>1, Ingesting, IngestEffect
  <1>3. \A j \in ActiveKeys(reassembler) : CountsOf(db, j, reassembler.active[j], None)
    BY <1>2, NoEvent
  <1>4. /\ \A j \in ActiveKeys(reassembler') : j # k => CountsOf(db, j, reassembler'.active[j], None)
        /\ \A s \in backlog' : CountsOf(db, s.key, s, None)
    <2>1. Room(reassembler, reassembler', k, v, backlog')
      BY <1>1, IngestRoom
    <2>2. QED
      BY ONLY <1>2, <1>3, <2>1, RoomCounts
  <1>5. CASE PendingCase(reassembler, reassembler', result, f, p, t, v)
    <2>1. PICK x : /\ FillsSlot(reassembler, f, t, x) /\ result.event = "Pending"
                   /\ Table(reassembler, reassembler', k, v, Accept(x, f, p, t))
      BY <1>1, <1>5 DEF PendingCase
    <2>2. CountsOf(db, k, Accept(x, f, p, t), None)
      BY <1>1, <2>1, FilledCounts
    <2>3. reassembler'.active[k] = Accept(x, f, p, t)
      BY <1>2, <2>1 DEF Table
    <2>4. event' = None
      BY <2>1 DEF Ingests, EventOf
    <2>5. QED
      BY <1>2, <1>4, <2>2, <2>3, <2>4, AgreesNext
  <1>6. CASE CompleteCase(reassembler, reassembler', result, f, p, t, v)
    <2>1. PICK x : /\ FillsSlot(reassembler, f, t, x) /\ result.event = "Complete"
                   /\ result.profile = finish(k, Accept(x, f, p, t))
                   /\ Table(reassembler, reassembler', k, v, None)
      BY <1>1, <1>6 DEF CompleteCase
    <2>2. CountsOf(db, k, Accept(x, f, p, t), None)
      BY <1>1, <2>1, FilledCounts
    <2>3. k \notin ActiveKeys(reassembler')
      BY <1>2, <2>1 DEF Table, ActiveKeys
    <2>4. event' = [event |-> "Complete", profile |-> finish(k, Accept(x, f, p, t)), packet |-> p]
      BY <2>1 DEF Ingests, EventOf
    <2>5. PICK s : s = event'.profile
      OBVIOUS
    <2>6. /\ event'.event = "Complete" /\ s.key = k
          /\ s.duplicates = Accept(x, f, p, t).duplicates
          /\ s.conflicts = Accept(x, f, p, t).conflicts
      BY <2>4, <2>5 DEF finish
    <2>7. CountsOf(db, k, s, None)
      BY <2>2, <2>6, CountsEqual
    <2>8. EventTrue'
      BY <2>6 DEF EventTrue
    <2>9. MemoryCounts'
      BY <1>2, <1>4, <2>3, <2>5, <2>6, <2>7 DEF MemoryCounts, Moved
    <2>10. QED
      BY <2>8, <2>9
  <1>7. QED
    BY <1>5, <1>6

\* The packet in hand is ingested.
LEMMA IngestAgrees ==
    ASSUME IInv, MemoryCounts, IngestCurrent
    PROVE  EventTrue' /\ MemoryCounts'
  <1>1. PICK f, p : f = CurrentFragment /\ p = current
    OBVIOUS
  <1>2. \E t \in Nat : \E v, result : Ingests(f, p, t, v, result)
    BY <1>1, IngestEffect
  <1>3. PICK t, v, result : t \in Nat /\ Ingests(f, p, t, v, result)
    BY <1>2
  <1>4. \/ CountedCase(reassembler, reassembler', result, f, v)
        \/ PendingCase(reassembler, reassembler', result, f, p, t, v)
        \/ CompleteCase(reassembler, reassembler', result, f, p, t, v)
    BY <1>3 DEF Ingests
  <1>5. QED
    BY <1>1, <1>3, <1>4, CountedAgrees, FillAgrees

-----------------------------------------------------------------------------
(***************************************************************************)
(* The invariant.                                                          *)
(***************************************************************************)
\* What a step does to the store.
StoreStep ==
    \/ db' = db /\ rejected \subseteq rejected'
    \/ /\ rejected' = rejected
       /\ \/ \E p : Drops(db, db', p)
          \/ Idle /\ \E p, f : Archives(db, db', p, f)
          \/ \E k \in Key : Dismantles(db, db', decodes, k)
          \/ \E k, new, p, match : Continues(db, db', k, new, p, match)

\* Every step does one of these.
LEMMA StoreSteps ==
    ASSUME LInv, IInv', [Next]_vars
    PROVE  StoreStep
  <1>1. IInv /\ EventTrue /\ MemoryCounts
    BY DEF LInv
  <1>2. CASE Gone \/ Waits \/ Takes \/ Discards \/ \E keys : Moves(keys)
    BY <1>2 DEF Gone, Waits, Takes, Discards, Moves, StoreStep
  <1>3. CASE RestoreFragment
    <2>1. CASE SourceDecodes
      <3>1. PICK i, p, f, k : /\ i = Least(left) /\ p = profile.fragments[i]
                              /\ f = db.packets[p].fragment /\ k = profile.key
        OBVIOUS
      <3>2. db' = db /\ rejected' = rejected
        BY <1>1, <1>3, <2>1, <3>1, ReplayEffect DEF SourceDecodes
      <3>3. QED
        BY <3>2 DEF StoreStep
    <2>2. CASE ~ SourceDecodes
      BY <1>1, <1>3, <2>2, DismantleEffect DEF StoreStep
    <2>3. QED
      BY <2>1, <2>2
  <1>4. CASE Matches
    <2>1. (\E k, new, p, match : Continues(db, db', k, new, p, match)) /\ rejected' = rejected
      BY <1>1, <1>4, MatchEffect
    <2>2. QED
      BY <2>1 DEF StoreStep
  <1>5. CASE IngestCurrent
    <2>1. db' = db /\ rejected' = rejected
      BY <1>1, <1>5, IngestEffect
    <2>2. QED
      BY <2>1 DEF StoreStep
  <1>6. CASE PersistProfile
    <2>1. (\E k, new, p, match : Continues(db, db', k, new, p, match)) /\ rejected' = rejected
      BY <1>1, <1>6, PersistEffect
    <2>2. QED
      BY <2>1 DEF StoreStep
  <1>7. CASE HandleEvent
    <2>1. (\E k, new, p, match : Continues(db, db', k, new, p, match)) /\ rejected' = rejected
      BY <1>1, <1>7, HandleEffect
    <2>2. QED
      BY <2>1 DEF StoreStep
  <1>8. QED
    BY <1>1, <1>2, <1>3, <1>4, <1>5, <1>6, <1>7, StepCases

\* Every step keeps memory and store in agreement.
LEMMA NextAgrees ==
    ASSUME LInv, IInv', [Next]_vars
    PROVE  EventTrue' /\ MemoryCounts'
  <1>1. IInv /\ EventTrue /\ MemoryCounts
    BY DEF LInv
  <1>2. CASE Gone
    BY <1>2, GoneAgrees
  <1>3. CASE Waits \/ Takes \/ Discards
    <2>1. /\ SameMemory /\ db'.scans = db.scans
          /\ event # None => db' = db /\ current' = current
      BY <1>3 DEF Waits, Takes, Discards, Archives, Drops, Idle, Written
    <2>2. QED
      BY <1>1, <2>1, SameAgrees
  <1>4. CASE \E keys : Moves(keys)
    BY <1>1, <1>4, MovesAgrees
  <1>5. CASE RestoreFragment
    BY <1>1, <1>5, DismantleAgrees, ReplayAgrees
  <1>6. CASE Matches
    BY <1>1, <1>6, MatchAgrees
  <1>7. CASE IngestCurrent
    BY <1>1, <1>7, IngestAgrees
  <1>8. CASE PersistProfile
    BY <1>1, <1>8, PersistAgrees
  <1>9. CASE HandleEvent
    BY <1>1, <1>9, HandleAgrees
  <1>10. QED
    BY <1>1, <1>2, <1>3, <1>4, <1>5, <1>6, <1>7, <1>8, <1>9, StepCases

\* A stricter codec has fewer verdicts to answer for.
LEMMA VerdictsFewer ==
    ASSUME NEW d, NEW ok, NEW less, less \subseteq ok, VerdictsSound(d, ok)
    PROVE  VerdictsSound(d, less)
  BY DEF VerdictsSound

\* Every step keeps the verdicts true.
LEMMA NextTruth ==
    ASSUME LInv, StoreStep
    PROVE  VerdictsSound(db', decodes') /\ TaintsSound(db')
  <1>1. /\ db \in Store /\ StoreSound(db)
        /\ VerdictsSound(db, decodes) /\ TaintsSound(db)
    BY DEF LInv, IInv, TypeOK
  <1>2. PICK d, e, ok, less : d = db /\ e = db' /\ ok = decodes /\ less = decodes'
    OBVIOUS
  <1>3. less \subseteq ok
    BY <1>2 DEF StoreStep, decodes
  <1>4. VerdictsSound(e, ok) /\ TaintsSound(e)
    <2>1. CASE e = d
      BY <1>1, <1>2, <2>1
    <2>2. CASE \/ \E p : Drops(d, e, p)
               \/ \E p, f : Archives(d, e, p, f)
               \/ \E k : Dismantles(d, e, ok, k)
      BY <1>1, <1>2, <2>2, TruthKept
    <2>3. CASE \E k, new, p, match : Continues(d, e, k, new, p, match)
      BY <1>1, <1>2, <2>3, VerdictsContinue, TaintsContinue
    <2>4. QED
      BY <1>2, <2>1, <2>2, <2>3 DEF StoreStep
  <1>5. QED
    BY <1>2, <1>3, <1>4, VerdictsFewer

\* Every step keeps the invariant.
LEMMA NextLInv ==
    ASSUME OneCountPerKey, LInv, [Next]_vars
    PROVE  LInv'
  <1>1. IInv'
    BY NextIInv DEF LInv
  <1>2. EventTrue' /\ MemoryCounts'
    BY <1>1, NextAgrees
  <1>3. StoreStep
    BY <1>1, StoreSteps
  <1>4. VerdictsSound(db', decodes') /\ TaintsSound(db')
    BY <1>3, NextTruth
  <1>5. QED
    BY <1>1, <1>2, <1>4 DEF LInv

\* An empty store and an empty memory agree.
LEMMA InitLInv == Init => LInv
  <1> SUFFICES ASSUME Init
               PROVE  LInv
    OBVIOUS
  <1>1. IInv
    BY InitIInv
  <1>2. Archived(db) = {} /\ db.scans = {}
    BY DEF Init, EmptyStore, Archived
  <1>3. ActiveKeys(reassembler) = {} /\ backlog = {} /\ event = None
    BY EmptyType DEF Init, InitProcess
  <1>4. QED
    BY <1>1, <1>2, <1>3 DEF LInv, VerdictsSound, TaintsSound, EventTrue, MemoryCounts

\* Memory and store agree on verdicts and counters in every reachable state: a verdict on a packet
\* that decodes is true of the one row of its scan, and a taint has its cause in the archive.
THEOREM LedgerSafety ==
    ASSUME OneCountPerKey
    PROVE  Spec => []LInv
  <1>1. LInv /\ [Next]_vars => LInv'
    BY NextLInv
  <1>2. QED
    BY <1>1, InitLInv, PTL DEF Spec

-----------------------------------------------------------------------------
(***************************************************************************)
(* What follows from it.                                                   *)
(***************************************************************************)
\* A verdict on a packet that decodes is true of the row of its scan: that row has the same fragment
\* at the index of a duplicate, and does not have the fragment of a conflict.
THEOREM TrueVerdicts ==
    ASSUME OneCountPerKey
    PROVE  Spec => []VerdictsTrue
  <1>1. ASSUME LInv
        PROVE  VerdictsTrue
    <2> SUFFICES ASSUME NEW k \in Key,
                        NEW p \in Decodable(Classified(k, "duplicate") \cup Classified(k, "conflict"))
                 PROVE  \E row \in db.scans :
                           /\ row.key = k
                           /\ LET f == db.packets[p].fragment
                                  q == row.fragments[f.fragment_index]
                              IN IF db.packets[p].status = "duplicate"
                                 THEN q # None /\ db.packets[q].fragment = f
                                 ELSE q # None => db.packets[q].fragment # f
      BY Zenon DEF VerdictsTrue
    <2>1. PICK f : f = db.packets[p].fragment
      OBVIOUS
    <2>2. /\ p \in Archived(db) /\ f.key = k /\ f \in decodes
          /\ db.packets[p].status \in {"duplicate", "conflict"}
      BY <2>1 DEF Decodable, Classified, WithStatus
    <2>3. PICK row \in db.scans : row.key = k /\ TrueOf(db, row, f, db.packets[p].status)
      BY <1>1, <2>1, <2>2 DEF LInv, VerdictsSound
    <2>4. RowSound(db, row) /\ row \in ScanRow /\ f.fragment_index \in Index
      BY Zenon, <1>1, <2>1, <2>2, ArchivedType DEF LInv, IInv, TypeOK, Store, StoreSound
    <2>5. CASE db.packets[p].status = "duplicate"
      BY Zenon, <2>1, <2>3, <2>5 DEF TrueOf, Confirms
    <2>6. CASE db.packets[p].status = "conflict"
      <3>1. Refutes(db, row, f)
        BY <2>3, <2>6 DEF TrueOf
      <3>2. PICK q : q = row.fragments[f.fragment_index]
        OBVIOUS
      <3>3. q # None => db.packets[q].fragment.metadata = row.metadata
        BY <2>4, <3>2 DEF RowSound, Received
      <3>4. q # None => db.packets[q].fragment # f
        BY <3>1, <3>2, <3>3 DEF Refutes
      <3>5. QED
        BY <2>1, <2>3, <2>6, <3>2, <3>4
    <2>7. QED
      BY Zenon, <2>2, <2>5, <2>6
  <1>2. QED
    BY <1>1, LedgerSafety, PTL

\* Every step keeps the counters exact, as long as there are not more packets than they can count.
LEMMA NextExact ==
    ASSUME Cardinality(PacketId) <= MaxCount, LInv, RowsExact(db, decodes), StoreStep
    PROVE  RowsExact(db', decodes')
  <1>1. db \in Store /\ VerdictsSound(db, decodes)
    BY DEF LInv, IInv, TypeOK
  <1>2. PICK d, e, ok, less : d = db /\ e = db' /\ ok = decodes /\ less = decodes'
    OBVIOUS
  <1>3. less \subseteq ok
    BY <1>2 DEF StoreStep, decodes
  <1>4. CASE \/ e = d
             \/ \E p : Drops(d, e, p)
             \/ \E p, f : Archives(d, e, p, f)
             \/ \E k : Dismantles(d, e, ok, k)
    BY <1>1, <1>2, <1>3, <1>4, ExactKept
  <1>5. CASE rejected' = rejected /\ \E k, new, p, match : Continues(d, e, k, new, p, match)
    <2>1. RowsExact(e, ok)
      BY <1>1, <1>2, <1>5, ExactContinue
    <2>2. less = ok
      BY <1>2, <1>5 DEF decodes
    <2>3. QED
      BY <1>2, <2>1, <2>2
  <1>6. QED
    BY <1>2, <1>4, <1>5 DEF StoreStep

\* No crash, replay, eviction or quarantine loses a verdict of a row's counters or counts one twice.
THEOREM ExactCounters ==
    ASSUME OneCountPerKey, Cardinality(PacketId) <= MaxCount
    PROVE  Spec => []CountersExact
  <1>1. Init => LInv /\ RowsExact(db, decodes)
    <2>1. Init => db.scans = {}
      BY DEF Init, EmptyStore
    <2>2. QED
      BY <2>1, InitLInv DEF RowsExact
  <1>2. ASSUME LInv /\ RowsExact(db, decodes), [Next]_vars
        PROVE  LInv' /\ RowsExact(db, decodes)'
    <2>1. LInv'
      BY <1>2, NextLInv
    <2>2. StoreStep
      BY <1>2, <2>1, StoreSteps DEF LInv
    <2>3. RowsExact(db', decodes')
      BY <1>2, <2>2, NextExact
    <2>4. QED
      BY <2>1, <2>3
  <1>3. RowsExact(db, decodes) => CountersExact
    <2>1. \A k, status : Classified(k, status) = Verdicts(db, k, status)
      BY DEF Classified, WithStatus, Verdicts
    <2>2. \A S : Decodable(S) = {p \in S : db.packets[p].fragment \in decodes}
      BY DEF Decodable
    <2>3. QED
      BY <2>1, <2>2 DEF RowsExact, CountExact, CountersExact
  <1>4. QED
    BY <1>1, <1>2, <1>3, PTL DEF Spec

-----------------------------------------------------------------------------
(***************************************************************************)
(* Pending packets are bounded: they are those of the scans in the table,  *)
(* of which there are at most MaxActive, each with a slot to spare.        *)
(***************************************************************************)
ActiveBounded == Cardinality(ActiveKeys(reassembler)) <= MaxActive

\* An ingest makes room before it opens a scan.
LEMMA RoomBounded ==
    ASSUME NEW r \in Reassembler, NEW s, NEW k \in Key, NEW v, NEW out, Room(r, s, k, v, out),
           Cardinality(ActiveKeys(r)) <= MaxActive
    PROVE  Cardinality(ActiveKeys(s)) <= MaxActive
  <1>1. PICK S : S = (ActiveKeys(r) \ {v}) \cup {k}
    OBVIOUS
  <1>2. Cardinality(S) <= MaxActive
    BY <1>1, RoomForOne DEF Room
  <1>3. S \in SUBSET Key
    BY <1>1 DEF ActiveKeys
  <1>4. ActiveKeys(s) \in SUBSET S
    BY <1>1 DEF Room, ActiveKeys
  <1>5. QED
    BY <1>2, <1>3, <1>4, FewerKeys

\* The table never holds more than MaxActive scans, restarts included.
LEMMA NextBounded ==
    ASSUME LInv, IInv', ActiveBounded, [Next]_vars
    PROVE  ActiveBounded'
  <1>1. /\ IInv /\ EventTrue /\ MemoryCounts /\ reassembler \in Reassembler
        /\ Cardinality(ActiveKeys(reassembler)) <= MaxActive
        /\ ActiveKeys(reassembler) \in SUBSET Key
    BY DEF LInv, IInv, TypeOK, ActiveBounded, ActiveKeys
  <1>2. SUFFICES Cardinality(ActiveKeys(reassembler')) <= MaxActive
    BY DEF ActiveBounded
  <1>3. ASSUME ActiveKeys(reassembler') \subseteq ActiveKeys(reassembler)
        PROVE  Cardinality(ActiveKeys(reassembler')) <= MaxActive
    BY <1>1, <1>3, FewerKeys
  <1>4. CASE Gone
    <2>1. ActiveKeys(reassembler') = {}
      BY <1>4, EmptyType DEF Gone, Forget
    <2>2. QED
      BY <1>3, <2>1
  <1>5. CASE Waits \/ Takes \/ Discards
    BY <1>3, <1>5 DEF Waits, Takes, Discards, SameMemory
  <1>6. CASE \E keys : Moves(keys)
    <2>1. ActiveKeys(reassembler') \subseteq ActiveKeys(reassembler)
      BY <1>6 DEF Moves, ActiveKeys
    <2>2. QED
      BY <1>3, <2>1
  <1>7. CASE RestoreFragment
    <2>1. CASE SourceDecodes
      <3>1. PICK i, p, f, k : /\ i = Least(left) /\ p = profile.fragments[i]
                              /\ f = db.packets[p].fragment /\ k = profile.key
        OBVIOUS
      <3>2. \E v, x : Room(reassembler, reassembler', k, v, backlog') /\ Replay(k, f, p, x)
        BY <1>1, <1>7, <2>1, <3>1, ReplayEffect DEF SourceDecodes
      <3>3. PICK v : Room(reassembler, reassembler', k, v, backlog')
        BY <3>2
      <3>4. k \in Key
        BY <1>1, <1>7, <3>1, NextSource, RowType
      <3>5. QED
        BY <1>1, <3>3, <3>4, RoomBounded
    <2>2. CASE ~ SourceDecodes
      <3>1. PICK k \in Key :
              \A j \in Key : reassembler'.active[j] = IF j = k THEN None ELSE reassembler.active[j]
        BY <1>1, <1>7, <2>2, DismantleEffect
      <3>2. ActiveKeys(reassembler') \subseteq ActiveKeys(reassembler)
        BY <3>1 DEF ActiveKeys
      <3>3. QED
        BY <1>3, <3>2
    <2>3. QED
      BY <2>1, <2>2
  <1>8. CASE Matches
    <2>1. ActiveKeys(reassembler') = ActiveKeys(reassembler)
      BY <1>1, <1>8, MatchEffect
    <2>2. QED
      BY <1>3, <2>1
  <1>9. CASE IngestCurrent
    <2>1. PICK f, p : f = CurrentFragment /\ p = current
      OBVIOUS
    <2>2. \E t \in Nat : \E v, result : Ingests(f, p, t, v, result)
      BY <1>1, <1>9, <2>1, IngestEffect
    <2>3. PICK t, v, result : Ingests(f, p, t, v, result)
      BY <2>2
    <2>4. Room(reassembler, reassembler', f.key, v, backlog')
      BY <2>3, IngestRoom
    <2>5. f.key \in Key
      BY <1>1, <1>9, <2>1, Ingesting
    <2>6. QED
      BY <1>1, <2>4, <2>5, RoomBounded
  <1>10. CASE PersistProfile
    <2>1. reassembler' = reassembler
      BY <1>1, <1>10, PersistEffect
    <2>2. QED
      BY <1>3, <2>1
  <1>11. CASE HandleEvent
    <2>1. reassembler' = reassembler
      BY <1>1, <1>11, HandleEffect
    <2>2. QED
      BY <1>3, <2>1
  <1>12. QED
    BY <1>1, <1>4, <1>5, <1>6, <1>7, <1>8, <1>9, <1>10, <1>11, StepCases

\* Multiplication is monotonic.
LEMMA TimesMonotonic ==
    ASSUME NEW a \in Nat, NEW b \in Nat, NEW c \in Nat, a <= b
    PROVE  a * c <= b * c
  <1>1. PICK n \in Nat : b = a + n
    <2>1. b - a \in Nat /\ b = a + (b - a)
      OBVIOUS
    <2>2. QED
      BY <2>1
  <1>2. b * c = a * c + n * c
    BY <1>1
  <1>3. a * c \in Nat /\ n * c \in Nat
    OBVIOUS
  <1>4. QED
    BY <1>2, <1>3

\* Things that each have a place of their own, one of Index in one of at most MaxActive scans, and none
\* in the place that its scan has to spare.
LEMMA PlacesBound ==
    ASSUME NEW K \in SUBSET Key, Cardinality(K) <= MaxActive,
           NEW H, NEW key \in [H -> K], NEW index \in [H -> Index], NEW free \in [K -> Index],
           \A q \in H : index[q] # free[key[q]],
           \A q, r \in H : key[q] = key[r] /\ index[q] = index[r] => q = r
    PROVE  IsFiniteSet(H) /\ Cardinality(H) <= MaxActive * (MaxFragments - 1)
  <1> DEFINE place(q) == IF index[q] < free[key[q]] THEN index[q] + 1 ELSE index[q]
             T == 1 .. MaxFragments - 1
             h == [q \in H |-> <<key[q], place(q)>>]
  <1>1. MaxFragments \in Nat \ {0} /\ MaxActive \in Nat
    BY ReassemblyAssumption
  <1>2. \A q \in H : index[q] \in 0 .. MaxFragments - 1 /\ free[key[q]] \in 0 .. MaxFragments - 1
    BY DEF Index
  <1>3. \A q \in H : place(q) \in T
    BY <1>1, <1>2
  <1>4. \A q, r \in H : key[q] = key[r] /\ place(q) = place(r) => index[q] = index[r]
    BY <1>1, <1>2
  <1> HIDE DEF place
  <1>5. h \in [H -> K \X T]
    BY <1>3
  <1>6. \A q, r \in H : h[q] = h[r] => q = r
    BY <1>4
  <1>7. h \in Injection(H, K \X T)
    BY <1>5, <1>6 DEF Injection, IsInjective
  <1> HIDE DEF h
  <1>8. /\ IsFiniteSet(T)
        /\ Cardinality(T) = MaxFragments - 1
    BY <1>1, FS_Interval
  <1>9. IsFiniteSet(K) /\ Cardinality(K) \in Nat
    BY ReassemblyAssumption, FS_Subset, FS_CardinalityType
  <1> HIDE DEF T
  <1>10. /\ IsFiniteSet(K \X T)
         /\ Cardinality(K \X T) = Cardinality(K) * (MaxFragments - 1)
    BY <1>8, <1>9, FS_Product
  <1>11. IsFiniteSet(H) /\ Cardinality(H) <= Cardinality(K \X T)
    BY <1>7, <1>10, FS_Injection
  <1>12. MaxFragments - 1 \in Nat
    BY <1>1
  <1>13. Cardinality(K) * (MaxFragments - 1) <= MaxActive * (MaxFragments - 1)
    BY <1>1, <1>9, <1>12, TimesMonotonic
  <1>14. PICK a, b, c : /\ a = Cardinality(H) /\ b = Cardinality(K) * (MaxFragments - 1)
                        /\ c = MaxActive * (MaxFragments - 1)
    OBVIOUS
  <1>15. a \in Int /\ b \in Int /\ c \in Int
    BY <1>1, <1>9, <1>11, <1>12, <1>14, FS_CardinalityType
  <1>16. a <= b /\ b <= c
    BY <1>10, <1>11, <1>13, <1>14
  <1>17. a <= c
    BY <1>15, <1>16
  <1>18. QED
    BY <1>11, <1>14, <1>17

\* An active scan lacks one of its fragments at least.
LEMMA SlotToSpare ==
    ASSUME IInv, NEW k \in ActiveKeys(reassembler)
    PROVE  \E i \in Index : reassembler.active[k].fragments[i] = None
  <1>1. PICK x, m : x = reassembler.active[k].fragments /\ m = reassembler.active[k].metadata
    OBVIOUS
  <1>2. SlotsSound(db, decodes, k, m, x) /\ Received(x) # fragment_mask(m)
    BY <1>1 DEF IInv, ActiveSound
  <1>3. m \in Meta
    BY <1>1, ActiveType DEF IInv, TypeOK
  <1>4. Received(x) \subseteq fragment_mask(m)
    BY <1>2, FragmentType DEF SlotsSound, decodes
  <1>5. fragment_mask(m) \subseteq Index
    BY <1>3, ReassemblyAssumption DEF fragment_mask, Index
  <1>6. PICK i \in fragment_mask(m) : i \notin Received(x)
    BY <1>2, <1>4
  <1>7. QED
    BY <1>1, <1>5, <1>6 DEF Received

\* The packets that the scans in the table hold.
LEMMA HeldBound ==
    ASSUME IInv, ActiveBounded
    PROVE  IsFiniteSet(Held) /\ Cardinality(Held) <= MaxActive * (MaxFragments - 1)
  <1>1. PICK r, K : r = reassembler /\ K = ActiveKeys(reassembler)
    OBVIOUS
  <1>2. \A q \in Held : \E k \in K : \E i \in Index :
           r.active[k].fragments[i] # None /\ r.active[k].fragments[i].packet = q
    BY <1>1 DEF Held, Packets, Received
  <1>3. \A k \in K : \E i \in Index : r.active[k].fragments[i] = None
    BY Zenon, <1>1, SlotToSpare
  <1> DEFINE key == [q \in Held |-> CHOOSE k \in K : \E i \in Index :
                        r.active[k].fragments[i] # None /\ r.active[k].fragments[i].packet = q]
             index == [q \in Held |-> CHOOSE i \in Index :
                        r.active[key[q]].fragments[i] # None /\ r.active[key[q]].fragments[i].packet = q]
             free == [k \in K |-> CHOOSE i \in Index : r.active[k].fragments[i] = None]
  <1>4. key \in [Held -> K] /\ \A q \in Held : \E i \in Index :
           r.active[key[q]].fragments[i] # None /\ r.active[key[q]].fragments[i].packet = q
    BY Zenon, <1>2
  <1> HIDE DEF key
  <1>5. index \in [Held -> Index] /\ \A q \in Held :
           /\ r.active[key[q]].fragments[index[q]] # None
           /\ r.active[key[q]].fragments[index[q]].packet = q
    BY Zenon, <1>4
  <1> HIDE DEF index
  <1>6. free \in [K -> Index] /\ \A k \in K : r.active[k].fragments[free[k]] = None
    BY <1>3
  <1> HIDE DEF free
  <1>7. \A q \in Held : index[q] # free[key[q]]
    BY <1>4, <1>5, <1>6
  <1>8. \A q, s \in Held : key[q] = key[s] /\ index[q] = index[s] => q = s
    BY <1>5
  <1>9. K \in SUBSET Key /\ Cardinality(K) <= MaxActive
    BY <1>1 DEF ActiveBounded, ActiveKeys
  <1>10. PICK H : H = Held
    OBVIOUS
  <1>11. IsFiniteSet(H) /\ Cardinality(H) <= MaxActive * (MaxFragments - 1)
    BY <1>4, <1>5, <1>6, <1>7, <1>8, <1>9, <1>10, PlacesBound
  <1>12. QED
    BY <1>10, <1>11

\* A set of packets within another is no larger.
LEMMA FewerPackets ==
    ASSUME NEW S, IsFiniteSet(S), NEW T \in SUBSET S, NEW n \in Int, Cardinality(S) <= n
    PROVE  Cardinality(T) <= n
  <1>1. IsFiniteSet(T) /\ Cardinality(T) <= Cardinality(S)
    BY FS_Subset
  <1>2. Cardinality(T) \in Nat /\ Cardinality(S) \in Nat
    BY <1>1, FS_CardinalityType
  <1>3. QED
    BY <1>1, <1>2

\* While the process waits for the radio, there is room for one more packet.
LEMMA IdleBound ==
    ASSUME IInv, ActiveBounded, Idle, NEW p, NEW T \in SUBSET (WithStatus(db, "pending") \cup {p})
    PROVE  Cardinality(T) <= MaxActive * (MaxFragments - 1) + 1
  <1>1. PICK n, H : n = MaxActive * (MaxFragments - 1) /\ H = Held
    OBVIOUS
  <1>2. n \in Int
    BY <1>1, ReassemblyAssumption
  <1>3. IsFiniteSet(H) /\ Cardinality(H) <= n
    BY <1>1, HeldBound
  <1>4. WithStatus(db, "pending") \subseteq H
    <2>1. PendingIsHeld
      BY PendingHeld
    <2>2. QED
      BY <1>1, <2>1 DEF PendingIsHeld
  <1>5. /\ IsFiniteSet(H \cup {p})
        /\ Cardinality(H \cup {p}) = IF p \in H THEN Cardinality(H) ELSE Cardinality(H) + 1
    BY <1>3, FS_AddElement
  <1>6. Cardinality(H) \in Nat
    BY <1>3, FS_CardinalityType
  <1>7. Cardinality(H \cup {p}) <= n + 1 /\ n + 1 \in Int
    BY <1>2, <1>3, <1>5, <1>6
  <1>8. T \in SUBSET (H \cup {p})
    BY <1>4
  <1>9. Cardinality(T) <= n + 1
    BY <1>5, <1>7, <1>8, FewerPackets
  <1>10. QED
    BY <1>1, <1>9

\* Every step keeps the bound: only the radio adds a pending packet while every fragment decodes.
LEMMA NextPending ==
    ASSUME LInv, ActiveBounded, PendingBounded, StoreStep
    PROVE  PendingBounded'
  <1> SUFFICES ASSUME rejected' = {}
               PROVE  Cardinality(WithStatus(db', "pending")) <= MaxActive * (MaxFragments - 1) + 1
    BY DEF PendingBounded
  <1>1. IInv /\ db \in Store
    BY DEF LInv, IInv, TypeOK
  <1>2. rejected = {} /\ decodes = OwnedFragment
    BY DEF StoreStep, decodes
  <1>3. PICK n, S : n = MaxActive * (MaxFragments - 1) + 1 /\ S = WithStatus(db, "pending")
    OBVIOUS
  <1>4. n \in Int /\ IsFiniteSet(S) /\ Cardinality(S) <= n
    <2>1. n \in Int
      BY <1>3, ReassemblyAssumption
    <2>2. S \in SUBSET PacketId
      BY <1>3 DEF WithStatus, Archived
    <2>3. IsFiniteSet(S)
      BY <2>2, StoreAssumption, FS_Subset
    <2>4. QED
      BY <1>2, <1>3, <2>1, <2>3 DEF PendingBounded
  <1>5. ASSUME WithStatus(db', "pending") \subseteq S
        PROVE  Cardinality(WithStatus(db', "pending")) <= n
    BY <1>4, <1>5, FewerPackets
  <1>6. CASE db' = db
    BY <1>3, <1>5, <1>6
  <1>7. CASE \E p : Drops(db, db', p)
    <2>1. WithStatus(db', "pending") \subseteq S
      BY <1>3, <1>7 DEF Drops, SameArchive, WithStatus
    <2>2. QED
      BY <1>3, <1>5, <2>1
  <1>8. CASE Idle /\ \E p, f : Archives(db, db', p, f)
    <2>1. PICK p, f : Archives(db, db', p, f)
      BY <1>8
    <2>2. WithStatus(db', "pending") \in SUBSET (WithStatus(db, "pending") \cup {p})
      BY <2>1 DEF Archives, WithStatus
    <2>3. QED
      BY <1>1, <1>8, <2>2, IdleBound
  <1>9. CASE \E k \in Key : Dismantles(db, db', decodes, k)
    <2>1. PICK row, q : /\ row \in db.scans /\ q \in Linked(row)
                        /\ db.packets[q].fragment \notin OwnedFragment
      BY <1>2, <1>9 DEF Dismantles
    <2>2. q \in Archived(db)
      BY <1>1, <2>1, SourcesArchived DEF Linked, IInv
    <2>3. QED
      BY <1>1, <2>1, <2>2, ArchivedType
  <1>10. CASE \E k, new, p, match : Continues(db, db', k, new, p, match)
    <2>1. WithStatus(db', "pending") \subseteq S
      BY <1>3, <1>10 DEF Continues, SameArchive, WithStatus
    <2>2. QED
      BY <1>3, <1>5, <2>1
  <1>11. QED
    BY <1>6, <1>7, <1>8, <1>9, <1>10 DEF StoreStep

\* As long as every fragment decodes, startup never finds more packets to replay than the slots of a
\* full table and the packet in hand, however often the process was stopped or crashed.
THEOREM BoundedPending ==
    ASSUME OneCountPerKey
    PROVE  Spec => []PendingBounded
  <1>1. Init => LInv /\ ActiveBounded /\ PendingBounded
    <2> SUFFICES ASSUME Init
                 PROVE  ActiveBounded /\ PendingBounded
      BY InitLInv
    <2>1. ActiveKeys(reassembler) = {} /\ WithStatus(db, "pending") = {}
      BY EmptyType DEF Init, InitProcess, EmptyStore, WithStatus, Archived
    <2>2. Cardinality({}) = 0
      BY FS_EmptySet
    <2>3. MaxActive \in Nat /\ MaxActive * (MaxFragments - 1) \in Nat
      <3>1. MaxActive \in Nat /\ MaxFragments - 1 \in Nat
        BY ReassemblyAssumption
      <3>2. \A a, b \in Nat : a * b \in Nat
        OBVIOUS
      <3>3. QED
        BY <3>1, <3>2
    <2>4. PICK n \in Nat : n = MaxActive * (MaxFragments - 1)
      BY <2>3
    <2>5. 0 <= MaxActive /\ 0 <= n + 1
      BY <2>3
    <2>6. QED
      BY <2>1, <2>2, <2>4, <2>5 DEF ActiveBounded, PendingBounded
  <1>2. ASSUME LInv /\ ActiveBounded /\ PendingBounded, [Next]_vars
        PROVE  LInv' /\ ActiveBounded' /\ PendingBounded'
    <2>1. LInv'
      BY <1>2, NextLInv
    <2>2. IInv'
      BY <2>1 DEF LInv
    <2>3. StoreStep
      BY <1>2, <2>2, StoreSteps
    <2>4. QED
      BY <1>2, <2>1, <2>2, <2>3, NextBounded, NextPending
  <1>3. QED
    BY <1>1, <1>2, PTL DEF Spec

\* With a limit that covers a full table and the packet in hand (main.rs:33, reassembly.rs:19), and as
\* long as every fragment decodes, it is never pending packets that the process ends on.
THEOREM PendingNeverTooMany ==
    ASSUME OneCountPerKey, MaxActive * (MaxFragments - 1) + 1 <= ReplayLimit
    PROVE  Spec => [](rejected = {} => failure \in {None, "IncompleteReplayLimitExceeded"})
  <1>1. IInv /\ FailsAtLimitsOnly /\ PendingBounded =>
           (rejected = {} => failure \in {None, "IncompleteReplayLimitExceeded"})
    <2> SUFFICES ASSUME PendingBounded, rejected = {}, PendingReplayLimitExceeded(db)
                 PROVE  FALSE
      BY DEF FailsAtLimitsOnly
    <2>1. IsFiniteSet(PacketId) /\ ReplayLimit \in Nat
      BY StoreAssumption
    <2>2. WithStatus(db, "pending") \subseteq PacketId
      BY DEF WithStatus, Archived
    <2>3. Cardinality(WithStatus(db, "pending")) \in Nat
      BY <2>1, <2>2, FS_Subset, FS_CardinalityType
    <2>4. MaxActive \in Nat /\ MaxFragments - 1 \in Nat
      BY ReassemblyAssumption
    <2>5. PICK n : n = MaxActive * (MaxFragments - 1)
      OBVIOUS
    <2>6. n \in Nat
      <3>1. \A a, b \in Nat : a * b \in Nat
        OBVIOUS
      <3>2. QED
        BY <2>4, <2>5, <3>1
    <2>7. n + 1 <= ReplayLimit /\ Cardinality(WithStatus(db, "pending")) <= n + 1
      BY <2>5 DEF PendingBounded
    <2>8. Cardinality(WithStatus(db, "pending")) > ReplayLimit
      BY DEF PendingReplayLimitExceeded
    <2>9. QED
      BY <2>1, <2>3, <2>6, <2>7, <2>8
  <1>2. QED
    BY <1>1, OnlyLimits, BoundedPending, Safety, PTL

-----------------------------------------------------------------------------
(***************************************************************************)
(* The refinement of ScanLedger.  A reader's view of store d:              *)
(***************************************************************************)
FragmentIn(d, p) == IF p \in Archived(d) THEN d.packets[p].fragment ELSE None

RecordIn(d, row) ==
    [metadata |-> row.metadata,
     fragments |-> [i \in Index |-> FragmentIn(d, row.fragments[i])],
     tainted |-> row.conflicts > 0]

ScanIn(d, k) ==
    IF \E row \in d.scans : row.key = k
    THEN RecordIn(d, CHOOSE row \in d.scans : row.key = k) ELSE None

ArchiveIn(d) == [p \in PacketId |-> FragmentIn(d, p)]

ScansIn(d) == [k \in Key |-> ScanIn(d, k)]

\* It is what the refinement mapping says of the database, before and after a step.
LEMMA ViewOf ==
    /\ [p \in PacketId |-> FragmentOf(p)] = ArchiveIn(db)
    /\ [k \in Key |-> ScanOf(k)] = ScansIn(db)
    /\ [p \in PacketId |-> FragmentOf(p)]' = ArchiveIn(db')
    /\ [k \in Key |-> ScanOf(k)]' = ScansIn(db')
  BY DEF ArchiveIn, ScansIn, FragmentIn, ScanIn, RecordIn, FragmentOf, ScanOf, RecordOf

\* A step that neither changes what a reader sees nor what decodes.
LEMMA ReaderStutters ==
    ASSUME ArchiveIn(db') = ArchiveIn(db), ScansIn(db') = ScansIn(db), rejected' = rejected
    PROVE  UNCHANGED Ledger!vars
  BY ViewOf DEF Ledger!vars

\* A codec upgrade.
LEMMA ReaderRejects ==
    ASSUME ArchiveIn(db') = ArchiveIn(db), ScansIn(db') = ScansIn(db), rejected \subseteq rejected',
           rejected' \subseteq OwnedFragment
    PROVE  Ledger!Reject
  BY ViewOf DEF Ledger!Reject

\* A new packet.
LEMMA ReaderArchives ==
    ASSUME NEW p \in PacketId, NEW f \in OwnedFragment, ArchiveIn(db)[p] = None,
           ArchiveIn(db') = [ArchiveIn(db) EXCEPT ![p] = f],
           ScansIn(db') = ScansIn(db), rejected' = rejected
    PROVE  Ledger!Archive(p)
  BY ViewOf DEF Ledger!Archive

\* Record x is built from fragments of the archive A.
Built(A, k, x) ==
    /\ \E i \in Index : x.fragments[i] # None
    /\ \A i \in Index : x.fragments[i] # None =>
          /\ \E p \in PacketId : A[p] = x.fragments[i]
          /\ x.fragments[i].key = k
          /\ x.fragments[i].metadata = x.metadata
          /\ x.fragments[i].fragment_index = i

\* Fragment f of scan k does not fit into record x.
Misfits(k, x, f) ==
    f.key = k /\ (f.metadata # x.metadata \/ x.fragments[f.fragment_index] # f)

\* Record x says all that record y said.
SaysMore(x, y) ==
    /\ x.metadata = y.metadata
    /\ \A i \in Index : y.fragments[i] # None => x.fragments[i] = y.fragments[i]
    /\ y.tainted => x.tainted

\* A scan is written.
LEMMA ReaderReports ==
    ASSUME NEW k \in Key, NEW A, NEW x, NEW y, x # None, y = ScansIn(db)[k],
           A = ArchiveIn(db), A = ArchiveIn(db'), ScansIn(db') = [ScansIn(db) EXCEPT ![k] = x],
           Built(A, k, x), y # None => SaysMore(x, y),
           x.tainted => \E p \in PacketId : A[p] # None /\ Misfits(k, x, A[p]),
           rejected' = rejected
    PROVE  Ledger!Report(k)
  <1>1. PICK S, T : S = ScansIn(db) /\ T = ScansIn(db')
    OBVIOUS
  <1>2. T = [S EXCEPT ![k] = x] /\ S[k] = y /\ T[k] = x
    BY <1>1 DEF ScansIn
  <1>3. /\ [p \in PacketId |-> FragmentOf(p)] = A
        /\ [j \in Key |-> ScanOf(j)] = S
        /\ [p \in PacketId |-> FragmentOf(p)]' = A
        /\ [j \in Key |-> ScanOf(j)]' = T
    BY <1>1, ViewOf
  <1>4. Ledger!Supported(k, x)
    BY <1>3 DEF Built, Ledger!Supported, Ledger!Sources, Ledger!Archived
  <1>5. y # None => Ledger!Extends(y, x)
    BY DEF SaysMore, Ledger!Extends
  <1>6. x.tainted => Ledger!Contradicted(k, x)
    BY <1>3 DEF Misfits, Ledger!Contradicted, Ledger!Archived
  <1>7. QED
    BY <1>2, <1>3, <1>4, <1>5, <1>6 DEF Ledger!Report

\* A row is dismantled.
LEMMA ReaderWithdraws ==
    ASSUME NEW k \in Key, NEW y, y # None, y = ScansIn(db)[k],
           ArchiveIn(db') = ArchiveIn(db), ScansIn(db') = [ScansIn(db) EXCEPT ![k] = None],
           \E i \in fragment_mask(y.metadata) : y.fragments[i] = None,
           \E i \in Index : y.fragments[i] \in rejected,
           rejected' = rejected
    PROVE  Ledger!Withdraw(k)
  BY ViewOf DEF Ledger!Withdraw, Ledger!IsComplete

\* A scan has the record of its one row.
LEMMA OneRecord ==
    ASSUME NEW d, OneRow(d), NEW row \in d.scans
    PROVE  ScanIn(d, row.key) = RecordIn(d, row)
  <1>1. PICK k, r : k = row.key /\ r = CHOOSE x \in d.scans : x.key = k
    OBVIOUS
  <1>2. r \in d.scans /\ r.key = k
    BY <1>1
  <1>3. r = row
    BY <1>1, <1>2 DEF OneRow
  <1>4. QED
    BY <1>1, <1>3 DEF ScanIn

\* The fields of a record.
LEMMA RecordFields ==
    ASSUME NEW d \in Store, NEW row \in ScanRow
    PROVE  /\ RecordIn(d, row) # None
           /\ RecordIn(d, row).metadata = row.metadata
           /\ RecordIn(d, row).tainted = (row.conflicts > 0)
           /\ \A i \in Index : RecordIn(d, row).fragments[i] = FragmentIn(d, row.fragments[i])
  <1>1. \A p : FragmentIn(d, p) \in OwnedFragment \cup {None}
    BY ArchivedType DEF FragmentIn
  <1>2. [i \in Index |-> FragmentIn(d, row.fragments[i])] \in [Index -> OwnedFragment \cup {None}]
    BY <1>1
  <1>3. row.metadata \in Meta
    BY RowType
  <1>4. (row.conflicts > 0) \in BOOLEAN
    BY RowType DEF Count
  <1>5. RecordIn(d, row) \in Record
    BY <1>2, <1>3, <1>4 DEF RecordIn, Record
  <1>6. RecordIn(d, row) # None
    BY <1>5, RecordNoneAssumption
  <1>7. QED
    BY <1>6 DEF RecordIn

\* What a reader sees of an archived source, and of none.
LEMMA FragmentFields ==
    ASSUME NEW d \in Store
    PROVE  /\ \A p \in Archived(d) : /\ FragmentIn(d, p) = d.packets[p].fragment
                                     /\ FragmentIn(d, p) \in OwnedFragment
                                     /\ FragmentIn(d, p) # None
           /\ FragmentIn(d, None) = None
           /\ \A p : p \notin Archived(d) => FragmentIn(d, p) = None
  <1>1. None \notin Archived(d)
    BY ArchivedType
  <1>2. QED
    BY <1>1, ArchivedType, RecordNoneAssumption DEF FragmentIn

\* Sources that stay where they are leave the record as it is.
LEMMA RecordKept ==
    ASSUME NEW d \in Store, NEW e \in Store, NEW row \in ScanRow, RowSound(d, row),
           \A q \in Archived(d) : q \in Archived(e) /\ e.packets[q].fragment = d.packets[q].fragment
    PROVE  /\ \A i \in Index : FragmentIn(e, row.fragments[i]) = FragmentIn(d, row.fragments[i])
           /\ RecordIn(e, row) = RecordIn(d, row)
  <1>1. ASSUME NEW i \in Index
        PROVE  FragmentIn(e, row.fragments[i]) = FragmentIn(d, row.fragments[i])
    <2>1. CASE row.fragments[i] = None
      BY <2>1, FragmentFields
    <2>2. CASE row.fragments[i] # None
      <3>1. row.fragments[i] \in Archived(d)
        BY <2>2 DEF RowSound, Received
      <3>2. QED
        BY <3>1 DEF FragmentIn
    <2>3. QED
      BY <2>1, <2>2
  <1>2. [i \in Index |-> FragmentIn(e, row.fragments[i])] = [i \in Index |-> FragmentIn(d, row.fragments[i])]
    BY <1>1
  <1>3. QED
    BY <1>1, <1>2 DEF RecordIn

\* A scan whose rows stay keeps its record.
LEMMA ScanKept ==
    ASSUME NEW d \in Store, NEW e \in Store, StoreSound(d), StoreSound(e), NEW k,
           \A row : row.key = k => (row \in e.scans <=> row \in d.scans),
           \A q \in Archived(d) : q \in Archived(e) /\ e.packets[q].fragment = d.packets[q].fragment
    PROVE  ScanIn(e, k) = ScanIn(d, k)
  <1>1. CASE \E row \in d.scans : row.key = k
    <2>1. PICK row \in d.scans : row.key = k
      BY <1>1
    <2>2. row \in e.scans /\ row \in ScanRow /\ RowSound(d, row) /\ OneRow(d) /\ OneRow(e)
      BY <2>1 DEF Store, StoreSound
    <2>3. ScanIn(d, k) = RecordIn(d, row) /\ ScanIn(e, k) = RecordIn(e, row)
      BY <2>1, <2>2, OneRecord
    <2>4. RecordIn(e, row) = RecordIn(d, row)
      BY <2>2, RecordKept
    <2>5. QED
      BY <2>3, <2>4
  <1>2. CASE ~ \E row \in d.scans : row.key = k
    BY <1>2 DEF ScanIn
  <1>3. QED
    BY <1>1, <1>2

\* A reader sees the same archive.
LEMMA ArchiveKept ==
    ASSUME NEW d, NEW e, SameArchive(d, e)
    PROVE  ArchiveIn(e) = ArchiveIn(d)
  <1>1. \A p \in PacketId : FragmentIn(e, p) = FragmentIn(d, p)
    BY DEF SameArchive, FragmentIn
  <1>2. QED
    BY <1>1 DEF ArchiveIn

\* The same rows and sources: a reader sees the same scans.
LEMMA ScansKept ==
    ASSUME NEW d \in Store, NEW e \in Store, StoreSound(d), StoreSound(e), e.scans = d.scans,
           \A q \in Archived(d) : q \in Archived(e) /\ e.packets[q].fragment = d.packets[q].fragment
    PROVE  ScansIn(e) = ScansIn(d)
  <1>1. \A k \in Key : ScanIn(e, k) = ScanIn(d, k)
    BY ScanKept
  <1>2. QED
    BY <1>1 DEF ScansIn

\* Only the scan k changes.
LEMMA ScansExcept ==
    ASSUME NEW d \in Store, NEW e \in Store, StoreSound(d), StoreSound(e), NEW k \in Key, NEW x,
           \A row : row.key # k => (row \in e.scans <=> row \in d.scans),
           \A q \in Archived(d) : q \in Archived(e) /\ e.packets[q].fragment = d.packets[q].fragment,
           ScanIn(e, k) = x
    PROVE  ScansIn(e) = [ScansIn(d) EXCEPT ![k] = x]
  <1>1. \A j \in Key : j # k => ScanIn(e, j) = ScanIn(d, j)
    BY ScanKept
  <1>2. QED
    BY <1>1 DEF ScansIn

\* A packet is archived: the archive grows by its fragment.
LEMMA LedgerArchives ==
    ASSUME IInv, IInv', rejected' = rejected, NEW p, NEW f, Archives(db, db', p, f)
    PROVE  Ledger!Archive(p)
  <1>1. PICK d, e : d = db /\ e = db'
    OBVIOUS
  <1>2. /\ d \in Store /\ e \in Store /\ StoreSound(d) /\ StoreSound(e)
        /\ Archives(d, e, p, f)
    BY <1>1 DEF IInv, TypeOK
  <1>3. /\ p \in PacketId /\ p \notin Archived(d) /\ f \in OwnedFragment
        /\ e.scans = d.scans
        /\ \A q \in Archived(d) : q \in Archived(e) /\ e.packets[q].fragment = d.packets[q].fragment
    BY <1>2, ReceiverAssumption DEF Archives
  <1>4. ScansIn(e) = ScansIn(d)
    BY <1>2, <1>3, ScansKept
  <1>5. \A q \in PacketId : FragmentIn(e, q) = IF q = p THEN f ELSE FragmentIn(d, q)
    BY <1>2 DEF Archives, FragmentIn
  <1>6. ArchiveIn(e) = [ArchiveIn(d) EXCEPT ![p] = f]
    BY <1>3, <1>5 DEF ArchiveIn
  <1>7. ArchiveIn(d)[p] = None
    BY <1>3 DEF ArchiveIn, FragmentIn
  <1>8. QED
    BY <1>1, <1>3, <1>4, <1>6, <1>7, ReaderArchives

\* A scan is written: its record says more than before.
LEMMA LedgerReports ==
    ASSUME IInv, IInv', TaintsSound(db'), rejected' = rejected,
           NEW k, NEW new, NEW p, NEW match, Continues(db, db', k, new, p, match)
    PROVE  k \in Key /\ Ledger!Report(k)
  <1>1. PICK d, e : d = db /\ e = db'
    OBVIOUS
  <1>2. /\ d \in Store /\ e \in Store /\ StoreSound(d) /\ StoreSound(e)
        /\ Continues(d, e, k, new, p, match) /\ TaintsSound(e)
    BY <1>1 DEF IInv, TypeOK
  <1>3. /\ SameArchive(d, e) /\ new \in e.scans /\ new.key = k
        /\ \A row : row.key # k => (row \in e.scans <=> row \in d.scans)
        /\ \A q \in Archived(d) : q \in Archived(e) /\ e.packets[q].fragment = d.packets[q].fragment
    BY <1>2 DEF Continues, SameArchive
  <1>4. new \in ScanRow /\ RowSound(e, new) /\ OneRow(e) /\ OneRow(d)
    BY <1>2, <1>3 DEF Store, StoreSound
  <1>5. k \in Key
    BY <1>3, <1>4, RowType
  <1>6. PICK A, x, y : A = ArchiveIn(d) /\ x = RecordIn(e, new) /\ y = ScansIn(d)[k]
    OBVIOUS
  <1>7. ScanIn(e, k) = x
    BY <1>3, <1>4, <1>6, OneRecord
  <1>8. ScansIn(e) = [ScansIn(d) EXCEPT ![k] = x]
    BY <1>2, <1>3, <1>5, <1>7, ScansExcept
  <1>9. A = ArchiveIn(e)
    BY <1>3, <1>6, ArchiveKept
  <1>10. /\ x # None /\ x.metadata = new.metadata /\ x.tainted = (new.conflicts > 0)
         /\ \A i \in Index : x.fragments[i] = FragmentIn(e, new.fragments[i])
    BY <1>2, <1>4, <1>6, RecordFields
  <1>11. /\ \A q \in Archived(e) : /\ FragmentIn(e, q) = e.packets[q].fragment
                                   /\ FragmentIn(e, q) # None
                                   /\ q \in PacketId /\ A[q] = e.packets[q].fragment
         /\ FragmentIn(e, None) = None
    BY <1>2, <1>9, FragmentFields, ArchivedType DEF ArchiveIn
  <1>12. Built(A, k, x)
    <2>1. PICK i \in Index : new.fragments[i] # None
      BY <1>4 DEF RowSound, Received
    <2>2. \A j \in Index : new.fragments[j] # None =>
             /\ new.fragments[j] \in Archived(e)
             /\ e.packets[new.fragments[j]].fragment.key = k
             /\ e.packets[new.fragments[j]].fragment.metadata = new.metadata
             /\ e.packets[new.fragments[j]].fragment.fragment_index = j
      BY <1>3, <1>4 DEF RowSound, Received
    <2>3. x.fragments[i] # None
      BY <1>10, <1>11, <2>1, <2>2
    <2>4. ASSUME NEW j \in Index, x.fragments[j] # None
          PROVE  /\ \E q \in PacketId : A[q] = x.fragments[j]
                 /\ x.fragments[j].key = k
                 /\ x.fragments[j].metadata = x.metadata
                 /\ x.fragments[j].fragment_index = j
      <3>1. new.fragments[j] # None
        BY <1>10, <1>11, <2>4
      <3>2. QED
        BY <1>10, <1>11, <2>2, <3>1
    <2>5. QED
      BY <2>3, <2>4 DEF Built
  <1>13. ASSUME y # None
         PROVE  SaysMore(x, y)
    <2>1. PICK row \in d.scans : row.key = k
      BY <1>5, <1>6, <1>13 DEF ScansIn, ScanIn
    <2>2. row \in ScanRow /\ RowSound(d, row)
      BY <1>2, <2>1 DEF Store, StoreSound
    <2>3. y = RecordIn(d, row)
      BY <1>4, <1>5, <1>6, <2>1, OneRecord DEF ScansIn
    <2>4. /\ y.metadata = row.metadata /\ y.tainted = (row.conflicts > 0)
          /\ \A i \in Index : y.fragments[i] = FragmentIn(d, row.fragments[i])
      BY <1>2, <2>2, <2>3, RecordFields
    <2>5. /\ new.metadata = row.metadata
          /\ \A i \in Received(row.fragments) : new.fragments[i] = row.fragments[i]
          /\ new.conflicts = saturating_add(row.conflicts, CountOf(match, "conflict"))
      BY <1>2, <2>1 DEF Continues, CountsOf
    <2>6. \A i \in Index : FragmentIn(e, row.fragments[i]) = FragmentIn(d, row.fragments[i])
      BY <1>2, <1>3, <2>2, RecordKept
    <2>7. ASSUME NEW i \in Index, y.fragments[i] # None
          PROVE  x.fragments[i] = y.fragments[i]
      <3>1. row.fragments[i] # None
        BY <1>2, <2>4, <2>7, FragmentFields
      <3>2. new.fragments[i] = row.fragments[i]
        BY <2>5, <3>1 DEF Received
      <3>3. QED
        BY <1>10, <2>4, <2>6, <3>2
    <2>8. y.tainted => x.tainted
      <3>1. row.conflicts \in Count /\ new.conflicts \in Count /\ CountOf(match, "conflict") \in Count
        BY <1>4, <2>2, RowType, CountOfType
      <3>2. row.conflicts <= new.conflicts
        BY <2>5, <3>1, SaturatingType
      <3>3. row.conflicts > 0 => new.conflicts > 0
        BY <3>1, <3>2 DEF Count
      <3>4. QED
        BY <1>10, <2>4, <3>3
    <2>9. QED
      BY <1>10, <2>4, <2>5, <2>7, <2>8 DEF SaysMore
  <1>14. ASSUME x.tainted
         PROVE  \E q \in PacketId : A[q] # None /\ Misfits(k, x, A[q])
    <2>1. new.conflicts > 0
      BY <1>10, <1>14
    <2>2. PICK q \in Archived(e) : e.packets[q].fragment.key = k /\ Refutes(e, new, e.packets[q].fragment)
      BY <1>2, <1>3, <2>1 DEF TaintsSound
    <2>3. PICK f : f = e.packets[q].fragment
      OBVIOUS
    <2>4. A[q] = f /\ A[q] # None /\ q \in PacketId /\ f.fragment_index \in Index
      BY <1>2, <1>11, <2>3, ArchivedType
    <2>5. x.fragments[f.fragment_index] = FragmentIn(e, new.fragments[f.fragment_index])
      BY <1>10, <2>4
    <2>6. new.metadata # f.metadata \/ x.fragments[f.fragment_index] # f
      <3>1. CASE new.metadata # f.metadata
        BY <3>1
      <3>2. CASE /\ new.fragments[f.fragment_index] # None
                 /\ e.packets[new.fragments[f.fragment_index]].fragment # f
        <4>1. new.fragments[f.fragment_index] \in Archived(e)
          BY <1>4, <2>4, <3>2 DEF RowSound, Received
        <4>2. QED
          BY <1>11, <2>5, <3>2, <4>1
      <3>3. QED
        BY <2>2, <2>3, <3>1, <3>2 DEF Refutes
    <2>7. Misfits(k, x, f)
      BY <1>10, <2>2, <2>3, <2>6 DEF Misfits
    <2>8. QED
      BY <2>4, <2>7
  <1>15. QED
    BY <1>1, <1>5, <1>6, <1>8, <1>9, <1>10, <1>12, <1>13, <1>14, ReaderReports

\* A row is dismantled: its record was incomplete, and had a fragment that is rejected.
LEMMA LedgerWithdraws ==
    ASSUME IInv, IInv', rejected' = rejected, NEW k \in Key, Dismantles(db, db', decodes, k)
    PROVE  Ledger!Withdraw(k)
  <1>1. PICK d, e : d = db /\ e = db'
    OBVIOUS
  <1>2. /\ d \in Store /\ e \in Store /\ StoreSound(d) /\ StoreSound(e)
        /\ Dismantles(d, e, decodes, k)
    BY <1>1 DEF IInv, TypeOK
  <1>3. /\ SameArchive(d, e)
        /\ e.scans = {row \in d.scans : row.key # k}
        /\ \A q \in Archived(d) : q \in Archived(e) /\ e.packets[q].fragment = d.packets[q].fragment
    BY <1>2 DEF Dismantles, SameArchive
  <1>4. PICK row, q : /\ row \in d.scans /\ row.key = k /\ ~ TransportComplete(row)
                      /\ q \in Linked(row) /\ d.packets[q].fragment \notin decodes
    BY <1>2 DEF Dismantles
  <1>5. row \in ScanRow /\ RowSound(d, row) /\ OneRow(d)
    BY <1>2, <1>4 DEF Store, StoreSound
  <1>6. PICK y : y = RecordIn(d, row)
    OBVIOUS
  <1>7. /\ y # None /\ y.metadata = row.metadata
        /\ \A i \in Index : y.fragments[i] = FragmentIn(d, row.fragments[i])
    BY <1>2, <1>5, <1>6, RecordFields
  <1>8. ScansIn(d)[k] = y
    BY <1>4, <1>5, <1>6, OneRecord DEF ScansIn
  <1>9. ScanIn(e, k) = None
    BY <1>3 DEF ScanIn
  <1>10. ScansIn(e) = [ScansIn(d) EXCEPT ![k] = None]
    <2>1. \A r : r.key # k => (r \in e.scans <=> r \in d.scans)
      BY <1>3
    <2>2. QED
      BY <1>2, <1>3, <1>9, <2>1, ScansExcept
  <1>11. ArchiveIn(e) = ArchiveIn(d)
    BY <1>3, ArchiveKept
  <1>12. \E i \in fragment_mask(y.metadata) : y.fragments[i] = None
    <2>1. \A i \in Received(row.fragments) :
             /\ row.fragments[i] \in Archived(d)
             /\ d.packets[row.fragments[i]].fragment.metadata = row.metadata
             /\ d.packets[row.fragments[i]].fragment.fragment_index = i
      BY <1>5 DEF RowSound
    <2>2. Received(row.fragments) \subseteq fragment_mask(row.metadata)
      BY <1>2, <2>1, ArchivedType
    <2>3. PICK i \in fragment_mask(row.metadata) : i \notin Received(row.fragments)
      BY <1>4, <2>2 DEF TransportComplete
    <2>4. i \in Index
      BY <1>5, <2>3, RowType, ReassemblyAssumption DEF fragment_mask, Index
    <2>5. row.fragments[i] = None
      BY <2>3, <2>4 DEF Received
    <2>6. y.fragments[i] = None
      BY <1>2, <1>7, <2>4, <2>5, FragmentFields
    <2>7. QED
      BY <1>7, <2>3, <2>6
  <1>13. \E i \in Index : y.fragments[i] \in rejected
    <2>1. PICK i \in Received(row.fragments) : q = row.fragments[i]
      BY <1>4 DEF Linked
    <2>2. q \in Archived(d) /\ i \in Index
      BY <1>5, <2>1 DEF RowSound, Received
    <2>3. d.packets[q].fragment \in rejected
      BY <1>2, <1>4, <2>2, ArchivedType DEF decodes
    <2>4. QED
      BY <1>2, <1>7, <2>1, <2>2, <2>3, FragmentFields
  <1>14. QED
    BY <1>1, <1>7, <1>8, <1>10, <1>11, <1>12, <1>13, ReaderWithdraws

\* Every step of the receiver is a step of the ledger, or one that a reader does not see.
LEMMA LedgerStep ==
    ASSUME LInv, LInv', StoreStep
    PROVE  [Ledger!Next]_Ledger!vars
  <1>1. /\ IInv /\ IInv' /\ TaintsSound(db')
        /\ db \in Store /\ db' \in Store /\ StoreSound(db) /\ StoreSound(db')
    BY DEF LInv, IInv, TypeOK
  <1>2. CASE db' = db /\ rejected \subseteq rejected'
    <2>1. rejected' \subseteq OwnedFragment
      BY <1>1, ReceiverAssumption DEF IInv, TypeOK
    <2>2. Ledger!Reject
      BY <1>2, <2>1, ReaderRejects
    <2>3. QED
      BY <2>2 DEF Ledger!Next
  <1>3. CASE rejected' = rejected /\ \E p : Drops(db, db', p)
    <2>1. SameArchive(db, db') /\ db'.scans = db.scans
      BY <1>3 DEF Drops
    <2>2. ArchiveIn(db') = ArchiveIn(db)
      BY <2>1, ArchiveKept
    <2>3. ScansIn(db') = ScansIn(db)
      BY <1>1, <2>1, ScansKept DEF SameArchive
    <2>4. QED
      BY <1>3, <2>2, <2>3, ReaderStutters
  <1>4. CASE rejected' = rejected /\ \E p, f : Archives(db, db', p, f)
    <2>1. PICK p, f : Archives(db, db', p, f)
      BY <1>4
    <2>2. p \in PacketId /\ Ledger!Archive(p)
      BY <1>1, <1>4, <2>1, LedgerArchives DEF Archives
    <2>3. QED
      BY <2>2 DEF Ledger!Next
  <1>5. CASE rejected' = rejected /\ \E k \in Key : Dismantles(db, db', decodes, k)
    <2>1. \E k \in Key : Ledger!Withdraw(k)
      BY <1>1, <1>5, LedgerWithdraws
    <2>2. QED
      BY <2>1 DEF Ledger!Next
  <1>6. CASE rejected' = rejected /\ \E k, new, p, match : Continues(db, db', k, new, p, match)
    <2>1. \E k \in Key : Ledger!Report(k)
      BY <1>1, <1>6, LedgerReports
    <2>2. QED
      BY <2>1 DEF Ledger!Next
  <1>7. QED
    BY <1>2, <1>3, <1>4, <1>5, <1>6 DEF StoreStep

\* The receiver implements the ledger: whatever arrives and however often it is stopped, crashes or is
\* upgraded, the archive only grows, a record only gains fragments and stays tainted, and is withdrawn
\* only while incomplete, after one of its fragments was rejected.
THEOREM LedgerImplemented ==
    ASSUME OneCountPerKey
    PROVE  Spec => ImplementsLedger
  <1>1. Init => Ledger!Init
    <2> SUFFICES ASSUME Init
                 PROVE  Ledger!Init
      OBVIOUS
    <2>1. Archived(db) = {} /\ db.scans = {} /\ rejected = {}
      BY DEF Init, InitProcess, EmptyStore, Archived
    <2>2. ArchiveIn(db) = [p \in PacketId |-> None] /\ ScansIn(db) = [k \in Key |-> None]
      BY <2>1 DEF ArchiveIn, ScansIn, FragmentIn, ScanIn
    <2>3. QED
      BY <2>1, <2>2, ViewOf DEF Ledger!Init
  <1>2. ASSUME LInv, LInv', [Next]_vars
        PROVE  [Ledger!Next]_Ledger!vars
    <2>1. StoreStep
      BY <1>2, StoreSteps DEF LInv
    <2>2. QED
      BY <1>2, <2>1, LedgerStep
  <1>3. QED
    BY <1>1, <1>2, LedgerSafety, PTL DEF Spec, ImplementsLedger, Ledger!Spec

=============================================================================
