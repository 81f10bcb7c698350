-------------------------- MODULE ReassemblyProofs --------------------------
(***************************************************************************)
(* What the operators of Reassembly return, preserve and leave alone: the  *)
(* lemmas that the proofs about the reassembler and about the receiver     *)
(* that calls it rest on.                                                  *)
(***************************************************************************)
EXTENDS Reassembly, FiniteSetTheorems, TLAPS

-----------------------------------------------------------------------------
(***************************************************************************)
(* Types of the operators of Reassembly.                                   *)
(***************************************************************************)

\* saturating_add stays within the counter's range.
LEMMA SaturatingType ==
    ASSUME NEW x \in Count, NEW y \in Count
    PROVE  /\ saturating_add(x, y) \in Count
           /\ x <= saturating_add(x, y)
  BY ReassemblyAssumption DEF Count, saturating_add

\* The counter increments of ingest_at are increments by one.
LEMMA OneIsCount == 1 \in Count
  BY ReassemblyAssumption DEF Count

\* finish() of an active scan is a ReassembledProfile with its contents.
LEMMA FinishType ==
    ASSUME NEW k \in Key, NEW x \in ActiveProfile
    PROVE  /\ finish(k, x) \in ReassembledProfile
           /\ finish(k, x) # None
           /\ finish(k, x).key = k
           /\ finish(k, x).metadata = x.metadata
           /\ finish(k, x).fragments = x.fragments
  <1>1. finish(k, x) \in ReassembledProfile
    BY DEF finish, ReassembledProfile, ActiveProfile
  <1>2. QED
    BY <1>1, NoneAssumption DEF finish

\* A new entry of the active table is an empty scan.
LEMMA NewActiveType ==
    ASSUME NEW f \in OwnedFragment, NEW t \in Nat
    PROVE  /\ NewActive(f, t) \in ActiveProfile
           /\ NewActive(f, t).metadata = f.metadata
           /\ Received(NewActive(f, t).fragments) = {}
  BY ReassemblyAssumption
     DEF NewActive, ActiveProfile, OwnedFragment, Slots, Received, Count

\* The removal of the victim leaves every other scan in place.
LEMMA EvictType ==
    ASSUME NEW r \in Reassembler, NEW v \in Key \cup {None}
    PROVE  /\ Evict(r, v) \in Reassembler
           /\ Evict(r, v).completed = r.completed
           /\ Evict(r, v).pushes = r.pushes
           /\ \A k \in Key : Evict(r, v).active[k] = IF k = v THEN None ELSE r.active[k]
  BY ReassemblyAssumption DEF Evict, Reassembler

\* An eviction, when there is one, is of an active scan other than the one that
\* needs the room.
LEMMA EvictionChoicesType ==
    ASSUME NEW r \in Reassembler, NEW k \in Key, NEW v \in EvictionChoices(r, k)
    PROVE  \/ v = None
           \/ v \in ActiveKeys(r) /\ v \in Key /\ v # k /\ ~ contains_active(r, k)
  BY DEF EvictionChoices, ActiveKeys, contains_active

\* The entry a fragment is compared with.
LEMMA EntryType ==
    ASSUME NEW r \in Reassembler, NEW f \in OwnedFragment, NEW t \in Nat
    PROVE  /\ Entry(r, f, t) \in ActiveProfile
           /\ r.active[f.key] # None => Entry(r, f, t) = r.active[f.key]
           /\ r.active[f.key] = None => Entry(r, f, t) = NewActive(f, t)
  BY NewActiveType DEF Entry, contains_active, Reassembler, OwnedFragment

\* A duplicate or a conflict moves one counter and nothing else.
LEMMA CountedType ==
    ASSUME NEW x \in ActiveProfile, NEW verdict
    PROVE  /\ Counted(x, verdict) \in ActiveProfile
           /\ Counted(x, verdict).metadata = x.metadata
           /\ Counted(x, verdict).fragments = x.fragments
           /\ x.duplicates <= Counted(x, verdict).duplicates
           /\ x.conflicts <= Counted(x, verdict).conflicts
  <1>1. /\ x.duplicates \in Count
        /\ x.conflicts \in Count
    BY DEF ActiveProfile
  <1>2. /\ saturating_add(x.duplicates, 1) \in Count
        /\ saturating_add(x.conflicts, 1) \in Count
        /\ x.duplicates <= saturating_add(x.duplicates, 1)
        /\ x.conflicts <= saturating_add(x.conflicts, 1)
    BY <1>1, OneIsCount, SaturatingType
  <1>3. x.duplicates <= x.duplicates /\ x.conflicts <= x.conflicts
    BY <1>1, ReassemblyAssumption DEF Count
  <1>4. QED
    BY <1>2, <1>3 DEF Counted, ActiveProfile

\* An accepted fragment fills its own slot, with the packet it came from.
LEMMA AcceptSlots ==
    ASSUME NEW x \in ActiveProfile, NEW f \in OwnedFragment, NEW p \in PacketId,
           NEW t \in Nat
    PROVE  /\ Accept(x, f, p, t).fragments =
                 [x.fragments EXCEPT ![f.fragment_index] = [fragment |-> f, packet |-> p]]
           /\ Accept(x, f, p, t).fragments \in Slots
  <1>1. [fragment |-> f, packet |-> p] \in Slot
    BY DEF Slot
  <1>2. [x.fragments EXCEPT ![f.fragment_index] = [fragment |-> f, packet |-> p]] \in Slots
    BY <1>1 DEF ActiveProfile, Slots, OwnedFragment
  <1>3. QED
    BY <1>2 DEF Accept, ActiveProfile

\* ... and changes nothing else but the time of the last observation.
LEMMA AcceptType ==
    ASSUME NEW x \in ActiveProfile, NEW f \in OwnedFragment, NEW p \in PacketId,
           NEW t \in Nat
    PROVE  /\ Accept(x, f, p, t) \in ActiveProfile
           /\ Accept(x, f, p, t).metadata = x.metadata
           /\ Accept(x, f, p, t).duplicates = x.duplicates
           /\ Accept(x, f, p, t).conflicts = x.conflicts
  BY AcceptSlots DEF Accept, ActiveProfile

\* The front of the queue is one of its entries: there is a least ordinal.
LEMMA PopFrontType ==
    ASSUME NEW c \in [Key -> CompletedProfile \cup {None}]
    PROVE  /\ PopFront(c) \in [Key -> CompletedProfile \cup {None}]
           /\ \A k \in Key : PopFront(c)[k] \in {c[k], None}
  BY DEF PopFront

\* A completed scan leaves the table and enters the queue.
LEMMA CompleteType ==
    ASSUME NEW r \in Reassembler, NEW k \in Key, NEW x \in ActiveProfile
    PROVE  /\ Complete(r, k, x) \in Reassembler
           /\ \A j \in Key : Complete(r, k, x).active[j] = IF j = k THEN None ELSE r.active[j]
           /\ \A j \in Key : j # k /\ r.completed[j] = None
                                  => Complete(r, k, x).completed[j] = None
  <1> DEFINE entry  == [fragments |-> x.fragments,
                        completed_at |-> x.last_observed_at,
                        pushed |-> r.pushes]
             pushed == [r.completed EXCEPT ![k] = entry]
  <1>1. entry \in CompletedProfile
    BY DEF ActiveProfile, CompletedProfile, Reassembler
  <1>2. pushed \in [Key -> CompletedProfile \cup {None}]
    BY <1>1 DEF Reassembler
  <1>3. /\ PopFront(pushed) \in [Key -> CompletedProfile \cup {None}]
        /\ \A j \in Key : PopFront(pushed)[j] \in {pushed[j], None}
    BY <1>2, PopFrontType
  <1>4. Complete(r, k, x) = [active |-> [r.active EXCEPT ![k] = None],
                             completed |-> PopFront(pushed),
                             pushes |-> r.pushes + 1]
    BY DEF Complete
  <1>5. \A j \in Key : j # k => pushed[j] = r.completed[j]
    BY DEF Reassembler
  <1> HIDE DEF pushed
  <1>6. [r.active EXCEPT ![k] = None] \in [Key -> ActiveProfile \cup {None}]
    BY DEF Reassembler
  <1>7. r.pushes + 1 \in Nat
    BY DEF Reassembler
  <1>8. Complete(r, k, x) \in Reassembler
    BY <1>3, <1>4, <1>6, <1>7 DEF Reassembler
  <1>9. \A j \in Key : Complete(r, k, x).active[j] = IF j = k THEN None ELSE r.active[j]
    BY <1>4 DEF Reassembler
  <1>10. \A j \in Key : j # k /\ r.completed[j] = None => Complete(r, k, x).completed[j] = None
    BY <1>3, <1>4, <1>5
  <1>11. QED
    BY <1>8, <1>9, <1>10

-----------------------------------------------------------------------------
(***************************************************************************)
(* What an ingest does to the table: the victim, if any, leaves it, the    *)
(* fragment's scan becomes x, and every other scan stays as it is.         *)
(***************************************************************************)
Table(r, s, k, v, x) ==
    \A j \in Key : s.active[j] = IF j = k THEN x ELSE IF j = v THEN None ELSE r.active[j]

\* A duplicate or a conflict of an active scan.
CountedCase(r, s, result, f, v) ==
    /\ contains_active(r, f.key)
    /\ \E verdict \in {"Duplicate", "Conflict"} :
          /\ result.event = verdict
          /\ verdict = Verdict(r.active[f.key], f)
          /\ Table(r, s, f.key, v, Counted(r.active[f.key], verdict))
          /\ result.integrity_snapshot = finish(f.key, Counted(r.active[f.key], verdict))
    /\ result.profile = None
    /\ s.completed = r.completed

\* A fragment that fills a slot of x, opening the scan if need be.
FillsSlot(r, f, t, x) ==
    /\ x \in ActiveProfile
    /\ IF contains_active(r, f.key) THEN x = r.active[f.key] ELSE x = NewActive(f, t)
    /\ x.metadata = f.metadata
    /\ x.fragments[f.fragment_index] = None

PendingCase(r, s, result, f, p, t, v) ==
    \E x : /\ FillsSlot(r, f, t, x)
           /\ result.event = "Pending"
           /\ result.profile = None
           /\ Received(Accept(x, f, p, t).fragments) # fragment_mask(f.metadata)
           /\ Table(r, s, f.key, v, Accept(x, f, p, t))
           /\ s.completed = r.completed

CompleteCase(r, s, result, f, p, t, v) ==
    \E x : /\ FillsSlot(r, f, t, x)
           /\ result.event = "Complete"
           /\ result.profile = finish(f.key, Accept(x, f, p, t))
           /\ Received(Accept(x, f, p, t).fragments) = fragment_mask(f.metadata)
           /\ Table(r, s, f.key, v, None)
           /\ s = Complete(Evict(r, v), f.key, Accept(x, f, p, t))

\* A verdict other than Accepted is a duplicate or a conflict, and a scan that is
\* just being opened accepts its fragment.
LEMMA VerdictCases ==
    ASSUME NEW x \in ActiveProfile, NEW f \in OwnedFragment
    PROVE  /\ Verdict(x, f) \in {"Accepted", "Duplicate", "Conflict"}
           /\ Verdict(x, f) = "Accepted" <=>
                 x.metadata = f.metadata /\ x.fragments[f.fragment_index] = None
  BY DEF Verdict

\* ingest_at of a scan that is not cached has one of these three effects.
LEMMA IngestActiveCases ==
    ASSUME NEW r \in Reassembler, NEW f \in OwnedFragment, NEW p \in PacketId,
           NEW t \in Nat, NEW v \in EvictionChoices(r, f.key)
    PROVE  LET call == IngestActive(r, f, p, t, v)
           IN /\ call.state \in Reassembler
              /\ call.result.evicted = Evicted(r, v)
              /\ \/ CountedCase(r, call.state, call.result, f, v)
                 \/ PendingCase(r, call.state, call.result, f, p, t, v)
                 \/ CompleteCase(r, call.state, call.result, f, p, t, v)
  <1> DEFINE room    == Evict(r, v)
             entry   == Entry(room, f, t)
             verdict == Verdict(entry, f)
             counted == Counted(entry, verdict)
             filled  == Accept(entry, f, p, t)
             call    == IngestActive(r, f, p, t, v)
  <1>1. /\ f.key \in Key
        /\ f.fragment_index \in Index
        /\ f.metadata \in Meta
    BY DEF OwnedFragment
  <1>2. \/ v = None
        \/ v \in ActiveKeys(r) /\ v \in Key /\ v # f.key /\ ~ contains_active(r, f.key)
    BY <1>1, EvictionChoicesType
  <1>3. v \in Key \cup {None} /\ v # f.key
    BY <1>1, <1>2, ReassemblyAssumption
  <1>4. /\ room \in Reassembler
        /\ room.completed = r.completed
        /\ \A k \in Key : room.active[k] = IF k = v THEN None ELSE r.active[k]
    BY <1>3, EvictType
  <1>5. room.active[f.key] = r.active[f.key]
    BY <1>1, <1>3, <1>4
  <1>6. /\ entry \in ActiveProfile
        /\ IF contains_active(r, f.key)
           THEN entry = r.active[f.key] ELSE entry = NewActive(f, t)
    BY <1>4, <1>5, EntryType DEF contains_active
  <1>7. /\ verdict \in {"Accepted", "Duplicate", "Conflict"}
        /\ verdict = "Accepted" <=>
              entry.metadata = f.metadata /\ entry.fragments[f.fragment_index] = None
    BY <1>6, VerdictCases
  <1>8. CASE verdict # "Accepted"
    <2>1. /\ call.state = [room EXCEPT !.active[f.key] = counted]
          /\ call.result = Result(verdict, None, Evicted(r, v), finish(f.key, counted))
      BY <1>8 DEF IngestActive
    <2>2. counted \in ActiveProfile
      BY <1>6, CountedType
    <2>3. contains_active(r, f.key)
      <3>1. SUFFICES ASSUME ~ contains_active(r, f.key)
                     PROVE  FALSE
        OBVIOUS
      <3>2. entry = NewActive(f, t)
        BY <1>6, <3>1
      <3>3. entry.metadata = f.metadata /\ entry.fragments[f.fragment_index] = None
        BY <1>1, <3>2 DEF NewActive
      <3>4. QED
        BY <1>7, <1>8, <3>3
    <2>4. entry = r.active[f.key]
      BY <1>6, <2>3
    <2>5. /\ call.state \in Reassembler
          /\ call.state.completed = r.completed
          /\ Table(r, call.state, f.key, v, counted)
      BY <1>1, <1>4, <2>1, <2>2 DEF Reassembler, Table
    <2>6. /\ call.result.event = verdict
          /\ call.result.profile = None
          /\ call.result.evicted = Evicted(r, v)
          /\ call.result.integrity_snapshot = finish(f.key, counted)
      BY <2>1 DEF Result
    <2>7. verdict \in {"Duplicate", "Conflict"} /\ verdict = Verdict(entry, f)
      BY <1>7, <1>8
    <2> HIDE DEF call, verdict, entry
    <2>8. CountedCase(r, call.state, call.result, f, v)
      BY <2>3, <2>4, <2>5, <2>6, <2>7 DEF CountedCase
    <2>9. QED
      BY <2>5, <2>6, <2>8 DEF call
  <1>9. CASE verdict = "Accepted"
    <2>1. FillsSlot(r, f, t, entry)
      BY <1>6, <1>7, <1>9 DEF FillsSlot
    <2>2. filled \in ActiveProfile /\ filled.metadata = f.metadata
      <3>1. filled \in ActiveProfile /\ filled.metadata = entry.metadata
        BY <1>6, AcceptType
      <3>2. entry.metadata = f.metadata
        BY <1>7, <1>9
      <3>3. QED
        BY <3>1, <3>2
    <2>3. CASE Received(filled.fragments) = fragment_mask(filled.metadata)
      <3>1. /\ call.state = Complete(room, f.key, filled)
            /\ call.result = Result("Complete", finish(f.key, filled), Evicted(r, v), None)
        BY <1>9, <2>3 DEF IngestActive
      <3>2. /\ call.state \in Reassembler
            /\ \A j \in Key : call.state.active[j] = IF j = f.key THEN None ELSE room.active[j]
        BY <1>1, <1>4, <2>2, <3>1, CompleteType
      <3>3. Table(r, call.state, f.key, v, None)
        BY <1>4, <3>2 DEF Table
      <3>4. /\ call.result.event = "Complete"
            /\ call.result.profile = finish(f.key, filled)
            /\ call.result.evicted = Evicted(r, v)
        BY <3>1 DEF Result
      <3> HIDE DEF call, entry, room
      <3>5. CompleteCase(r, call.state, call.result, f, p, t, v)
        BY <2>1, <2>2, <2>3, <3>1, <3>3, <3>4 DEF CompleteCase, room
      <3>6. QED
        BY <3>2, <3>4, <3>5 DEF call
    <2>4. CASE Received(filled.fragments) # fragment_mask(filled.metadata)
      <3>1. /\ call.state = [room EXCEPT !.active[f.key] = filled]
            /\ call.result = Result("Pending", None, Evicted(r, v), None)
        BY <1>9, <2>4 DEF IngestActive
      <3>2. /\ call.state \in Reassembler
            /\ call.state.completed = r.completed
            /\ Table(r, call.state, f.key, v, filled)
        BY <1>1, <1>4, <2>2, <3>1 DEF Reassembler, Table
      <3>3. /\ call.result.event = "Pending"
            /\ call.result.profile = None
            /\ call.result.evicted = Evicted(r, v)
        BY <3>1 DEF Result
      <3> HIDE DEF call, entry
      <3>4. PendingCase(r, call.state, call.result, f, p, t, v)
        BY <2>1, <2>2, <2>4, <3>2, <3>3 DEF PendingCase
      <3>5. QED
        BY <3>2, <3>3, <3>4 DEF call
    <2>5. QED
      BY <2>3, <2>4
  <1>10. QED
    BY <1>8, <1>9

\* The scan evicted, if any, is returned as it was in the table.
LEMMA EvictedType ==
    ASSUME NEW r \in Reassembler, NEW k \in Key, NEW v \in EvictionChoices(r, k)
    PROVE  \/ v = None /\ Evicted(r, v) = None
           \/ /\ v \in ActiveKeys(r)
              /\ v \in Key
              /\ v # k
              /\ ~ contains_active(r, k)
              /\ r.active[v] \in ActiveProfile
              /\ Evicted(r, v) = finish(v, r.active[v])
              /\ Evicted(r, v) \in ReassembledProfile
              /\ Evicted(r, v) # None
              /\ Evicted(r, v).fragments = r.active[v].fragments
  <1>1. \/ v = None
        \/ v \in ActiveKeys(r) /\ v \in Key /\ v # k /\ ~ contains_active(r, k)
    BY EvictionChoicesType
  <1>2. CASE v = None
    BY <1>2 DEF Evicted
  <1>3. CASE v # None
    <2>1. r.active[v] \in ActiveProfile
      BY <1>1, <1>3 DEF ActiveKeys, Reassembler
    <2>2. Evicted(r, v) = finish(v, r.active[v])
      BY <1>3 DEF Evicted
    <2>3. QED
      BY <1>1, <1>3, <2>1, <2>2, FinishType
  <1>4. QED
    BY <1>2, <1>3

\* The packets of a scan are packets.
LEMMA PacketsType ==
    ASSUME NEW fragments \in Slots
    PROVE  Packets(fragments) \subseteq PacketId
  BY DEF Packets, Received, Slots, Slot

\* Scans taken from the table are ReassembledProfiles.
LEMMA FinishAllType ==
    ASSUME NEW r \in Reassembler, NEW keys \in SUBSET ActiveKeys(r)
    PROVE  FinishAll(r, keys) \in SUBSET ReassembledProfile
  <1>1. \A k \in keys : k \in Key /\ r.active[k] \in ActiveProfile
    BY DEF ActiveKeys, Reassembler
  <1>2. QED
    BY <1>1, FinishType DEF FinishAll

\* expire_before empties the places of the expired scans and of old cache entries.
LEMMA ExpireType ==
    ASSUME NEW r \in Reassembler, NEW cutoff \in Nat
    PROVE  /\ expire_before(r, cutoff) \in Reassembler
           /\ \A k \in Key : expire_before(r, cutoff).active[k] =
                 IF k \in ExpiredKeys(r, cutoff) THEN None ELSE r.active[k]
           /\ \A k \in Key : expire_before(r, cutoff).completed[k] \in {r.completed[k], None}
           /\ ExpiredKeys(r, cutoff) \subseteq ActiveKeys(r)
  BY DEF expire_before, Reassembler, ExpiredKeys

\* drain_incomplete empties the table and keeps the cache.
LEMMA DrainType ==
    ASSUME NEW r \in Reassembler
    PROVE  /\ drain_incomplete(r) \in Reassembler
           /\ \A k \in Key : drain_incomplete(r).active[k] = None
           /\ drain_incomplete(r).completed = r.completed
  BY DEF drain_incomplete, Reassembler

\* discard forgets one scan.
LEMMA DiscardType ==
    ASSUME NEW r \in Reassembler, NEW k \in Key
    PROVE  /\ discard(r, k) \in Reassembler
           /\ \A j \in Key : discard(r, k).active[j] = IF j = k THEN None ELSE r.active[j]
           /\ \A j \in Key : discard(r, k).completed[j] = IF j = k THEN None ELSE r.completed[j]
  BY DEF discard, Reassembler

\* restore_receiver_counts raises the counters of one scan.
LEMMA RestoreType ==
    ASSUME NEW r \in Reassembler, NEW k \in Key, contains_active(r, k),
           NEW m \in Count, NEW n \in Count
    PROVE  LET s == restore_receiver_counts(r, k, m, n)
           IN /\ s \in Reassembler
              /\ s.completed = r.completed
              /\ \A j \in Key : j # k => s.active[j] = r.active[j]
              /\ s.active[k] \in ActiveProfile
              /\ s.active[k].metadata = r.active[k].metadata
              /\ s.active[k].fragments = r.active[k].fragments
              /\ r.active[k].duplicates <= s.active[k].duplicates
              /\ r.active[k].conflicts <= s.active[k].conflicts
              /\ s.active[k].duplicates = saturating_add(r.active[k].duplicates, m)
              /\ s.active[k].conflicts = saturating_add(r.active[k].conflicts, n)
  <1> DEFINE x == r.active[k]
             y == [x EXCEPT !.duplicates = saturating_add(@, m),
                            !.conflicts = saturating_add(@, n)]
             s == restore_receiver_counts(r, k, m, n)
  <1>1. x \in ActiveProfile
    BY DEF contains_active, Reassembler
  <1>2. x.duplicates \in Count /\ x.conflicts \in Count
    BY <1>1 DEF ActiveProfile
  <1>3. /\ saturating_add(x.duplicates, m) \in Count
        /\ x.duplicates <= saturating_add(x.duplicates, m)
        /\ saturating_add(x.conflicts, n) \in Count
        /\ x.conflicts <= saturating_add(x.conflicts, n)
    BY <1>2, SaturatingType
  <1>4. /\ y \in ActiveProfile
        /\ y.metadata = x.metadata
        /\ y.fragments = x.fragments
        /\ x.duplicates <= y.duplicates
        /\ x.conflicts <= y.conflicts
        /\ y.duplicates = saturating_add(x.duplicates, m)
        /\ y.conflicts = saturating_add(x.conflicts, n)
    BY <1>1, <1>3 DEF ActiveProfile
  <1>5. s = [r EXCEPT !.active = [r.active EXCEPT ![k] = y]]
    BY DEF restore_receiver_counts, Reassembler
  <1> HIDE DEF y, s
  <1>6. /\ s \in Reassembler
        /\ s.completed = r.completed
        /\ s.active = [r.active EXCEPT ![k] = y]
    BY <1>4, <1>5 DEF Reassembler
  <1>7. s.active[k] = y /\ \A j \in Key : j # k => s.active[j] = r.active[j]
    BY <1>6 DEF Reassembler
  <1>8. QED
    BY <1>4, <1>6, <1>7 DEF s

\* The slots of a scan after one more was filled.
LEMMA ReceivedAccept ==
    ASSUME NEW x \in ActiveProfile, NEW f \in OwnedFragment, NEW p \in PacketId,
           NEW t \in Nat
    PROVE  /\ Received(Accept(x, f, p, t).fragments) = Received(x.fragments) \cup {f.fragment_index}
           /\ Accept(x, f, p, t).fragments[f.fragment_index] = [fragment |-> f, packet |-> p]
           /\ \A i \in Index :
                 i # f.fragment_index => Accept(x, f, p, t).fragments[i] = x.fragments[i]
  <1>1. [fragment |-> f, packet |-> p] \in Slot
    BY DEF Slot
  <1>2. [fragment |-> f, packet |-> p] # None
    BY <1>1, NoneAssumption
  <1>3. f.fragment_index \in Index /\ x.fragments \in Slots
    BY DEF OwnedFragment, ActiveProfile
  <1>4. Accept(x, f, p, t).fragments =
           [x.fragments EXCEPT ![f.fragment_index] = [fragment |-> f, packet |-> p]]
    BY AcceptSlots
  <1>5. QED
    BY <1>2, <1>3, <1>4 DEF Received, Slots

\* The packets of a scan after one more slot was filled.
LEMMA PacketsAccept ==
    ASSUME NEW x \in ActiveProfile, NEW f \in OwnedFragment, NEW p \in PacketId,
           NEW t \in Nat, x.fragments[f.fragment_index] = None
    PROVE  Packets(Accept(x, f, p, t).fragments) = Packets(x.fragments) \cup {p}
  <1> DEFINE y == Accept(x, f, p, t).fragments
  <1>1. /\ Received(y) = Received(x.fragments) \cup {f.fragment_index}
        /\ y[f.fragment_index] = [fragment |-> f, packet |-> p]
        /\ \A i \in Index : i # f.fragment_index => y[i] = x.fragments[i]
    BY ReceivedAccept
  <1>2. /\ Received(y) = Received(x.fragments) \cup {f.fragment_index}
        /\ y[f.fragment_index].packet = p
        /\ \A i \in Index : i # f.fragment_index => y[i] = x.fragments[i]
    BY <1>1
  <1>3. \A i \in Received(x.fragments) : i \in Index /\ i # f.fragment_index
    BY DEF Received
  <1> HIDE DEF y
  <1>4. Packets(y) = Packets(x.fragments) \cup {p}
    BY <1>2, <1>3 DEF Packets
  <1>5. QED
    BY <1>4 DEF y

-----------------------------------------------------------------------------
(***************************************************************************)
(* The bound of the table.                                                 *)
(***************************************************************************)
\* A set of keys within another is no larger.
LEMMA FewerKeys ==
    ASSUME NEW S \in SUBSET Key, NEW T \in SUBSET S, Cardinality(S) <= MaxActive
    PROVE  Cardinality(T) <= MaxActive
  <1>1. IsFiniteSet(S)
    BY ReassemblyAssumption, FS_Subset
  <1>2. Cardinality(T) <= Cardinality(S) /\ IsFiniteSet(T)
    BY <1>1, FS_Subset
  <1>3. Cardinality(S) \in Nat /\ Cardinality(T) \in Nat
    BY <1>1, <1>2, FS_CardinalityType
  <1>4. QED
    BY <1>2, <1>3, ReassemblyAssumption

\* With a victim out of the way, or room to spare, one more scan fits.
LEMMA RoomForOne ==
    ASSUME NEW r \in Reassembler, NEW k \in Key, NEW v \in EvictionChoices(r, k),
           Cardinality(ActiveKeys(r)) <= MaxActive
    PROVE  Cardinality((ActiveKeys(r) \ {v}) \cup {k}) <= MaxActive
  <1> DEFINE S == ActiveKeys(r)
  <1>0. Cardinality(S) <= MaxActive
    OBVIOUS
  <1>1. IsFiniteSet(S) /\ Cardinality(S) \in Nat
    BY ReassemblyAssumption, FS_Subset, FS_CardinalityType DEF ActiveKeys
  <1>2. MaxActive \in Nat
    BY ReassemblyAssumption
  <1>3. /\ IsFiniteSet(S \ {v})
        /\ Cardinality(S \ {v}) = IF v \in S THEN Cardinality(S) - 1 ELSE Cardinality(S)
    BY <1>1, FS_RemoveElement
  <1>4. Cardinality((S \ {v}) \cup {k}) =
           IF k \in S \ {v} THEN Cardinality(S \ {v}) ELSE Cardinality(S \ {v}) + 1
    BY <1>3, FS_AddElement
  <1>5. CASE contains_active(r, k)
    <2>1. v = None /\ k \in S
      BY <1>5 DEF EvictionChoices, contains_active, ActiveKeys
    <2>2. v \notin S
      BY <2>1, ReassemblyAssumption DEF ActiveKeys
    <2>3. QED
      BY <1>1, <1>2, <1>3, <1>4, <2>1, <2>2
  <1>6. CASE ~ contains_active(r, k) /\ Cardinality(S) >= MaxActive
    <2>1. v \in S
      BY <1>6 DEF EvictionChoices
    <2>2. Cardinality(S \ {v}) + 1 <= MaxActive
      BY <1>0, <1>1, <1>2, <1>3, <2>1
    <2>3. QED
      BY <1>4, <2>2, <1>1, <1>2, <1>3
  <1>7. CASE ~ contains_active(r, k) /\ ~ (Cardinality(S) >= MaxActive)
    <2>1. Cardinality(S \ {v}) + 1 <= MaxActive
      BY <1>1, <1>2, <1>3, <1>7
    <2>2. QED
      BY <1>1, <1>2, <1>3, <1>4, <2>1
  <1>8. QED
    BY <1>5, <1>6, <1>7

=============================================================================
