----------------------------- MODULE Reassembly -----------------------------
(***************************************************************************)
(* The bounded profile-fragment reassembler of                             *)
(* crates/vesta-receiver/src/reassembly.rs, as operators on its value.     *)
(*                                                                         *)
(* A sensor scan is transmitted as a few radio fragments.  A fragment      *)
(* carries the scan's key, the metadata repeated in every fragment of the  *)
(* scan, its index, and its steps.  Keys, metadata and steps are opaque:   *)
(* the code only compares them.  FragmentCount[m] is the one number of the *)
(* metadata that it computes with (expected_fragment_count).               *)
(*                                                                         *)
(* Option types are sets with None.  Bitmaps are the sets of their ones.   *)
(* The completed VecDeque is a function of the key in which "pushed" is    *)
(* the ordinal of the push_back, so that the front of the queue is the     *)
(* entry with the least "pushed".                                          *)
(***************************************************************************)
EXTENDS Integers, FiniteSets

CONSTANTS
    Key,            \* logical scans: every field of ProfileKey
    Meta,           \* ProfileMetadata, less its key
    Body,           \* the steps a fragment carries
    FragmentCount,  \* expected_fragment_count of each metadata
    MaxFragments,   \* most fragments of a scan (4 for ten steps)
    PacketId,       \* ids of archived radio packets
    MaxActive,      \* max_active: bound on active and on completed scans
    MaxCount,       \* where the receiver's u16 counters saturate
    None

ASSUME ReassemblyAssumption ==
    /\ MaxFragments \in Nat \ {0}
    /\ FragmentCount \in [Meta -> 1 .. MaxFragments]
    /\ MaxActive \in Nat \ {0}
    /\ MaxCount \in Nat \ {0}
    /\ IsFiniteSet(Key)
    /\ None \notin Key

Index == 0 .. MaxFragments - 1

\* The indices a scan with metadata m needs (fragment_mask).
fragment_mask(m) == 0 .. FragmentCount[m] - 1

OwnedFragment ==
    {f \in [key : Key, metadata : Meta, fragment_index : Index, steps : Body] :
        f.fragment_index \in fragment_mask(f.metadata)}

\* A filled slot: the owned fragment and the packet it came from.
Slot == [fragment : OwnedFragment, packet : PacketId]

Slots == [Index -> Slot \cup {None}]

\* received_fragment_bitmap, kept by the code beside the slots.
Received(fragments) == {i \in Index : fragments[i] # None}

Packets(fragments) == {fragments[i].packet : i \in Received(fragments)}

Count == 0 .. MaxCount

saturating_add(a, b) == IF a + b < MaxCount THEN a + b ELSE MaxCount

ActiveProfile ==
    [metadata : Meta,
     fragments : Slots,
     duplicates : Count,
     conflicts : Count,
     last_observed_at : Nat]

CompletedProfile == [fragments : Slots, completed_at : Nat, pushed : Nat]

\* ReassembledProfile: what finish() and snapshot() hand to the caller.
ReassembledProfile ==
    [key : Key,
     metadata : Meta,
     fragments : Slots,
     duplicates : Count,
     conflicts : Count]

\* None is none of the values it stands beside.
ASSUME NoneAssumption ==
    /\ None \notin Slot
    /\ None \notin ActiveProfile
    /\ None \notin CompletedProfile
    /\ None \notin ReassembledProfile

Reassembler ==
    [active : [Key -> ActiveProfile \cup {None}],
     completed : [Key -> CompletedProfile \cup {None}],
     pushes : Nat]

EmptyReassembler ==
    [active |-> [k \in Key |-> None],
     completed |-> [k \in Key |-> None],
     pushes |-> 0]

ActiveKeys(r) == {k \in Key : r.active[k] # None}

CompletedKeys(r) == {k \in Key : r.completed[k] # None}

contains_active(r, k) == r.active[k] # None

NewActive(f, now) ==
    [metadata |-> f.metadata,
     fragments |-> [i \in Index |-> None],
     duplicates |-> 0,
     conflicts |-> 0,
     last_observed_at |-> now]

finish(k, a) ==
    [key |-> k,
     metadata |-> a.metadata,
     fragments |-> a.fragments,
     duplicates |-> a.duplicates,
     conflicts |-> a.conflicts]

-----------------------------------------------------------------------------
(***************************************************************************)
(* ingest_at.  The result names the event, the scan evicted to make room,  *)
(* the completed scan, and the snapshot taken for a counter change.        *)
(***************************************************************************)
Result(event, profile, evicted, snapshot) ==
    [event |-> event,
     profile |-> profile,
     evicted |-> evicted,
     integrity_snapshot |-> snapshot]

\* Mutant: room is made one scan too late.
EvictionChoices_late(r, k) ==
    IF ~ contains_active(r, k) /\ Cardinality(ActiveKeys(r)) > MaxActive
    THEN {v \in ActiveKeys(r) : \A w \in ActiveKeys(r) :
             r.active[v].last_observed_at <= r.active[w].last_observed_at}
    ELSE {None}

\* The keys min_by_key may pick when a new scan finds the table full: ties on
\* last_observed_at are broken by the iteration order of a HashMap.
EvictionChoices(r, k) ==
    IF ~ contains_active(r, k) /\ Cardinality(ActiveKeys(r)) >= MaxActive
    THEN {v \in ActiveKeys(r) : \A w \in ActiveKeys(r) :
             r.active[v].last_observed_at <= r.active[w].last_observed_at}
    ELSE {None}

Evict(r, victim) ==
    IF victim = None THEN r ELSE [r EXCEPT !.active[victim] = None]

\* Mutant: the evicted scan is dropped.
Evicted_dropped(r, victim) == None

Evicted(r, victim) ==
    IF victim = None THEN None ELSE finish(victim, r.active[victim])

\* Whether the fragment in a slot, if any, is the same fragment.
SameFragment(slot, f) == slot # None /\ slot.fragment = f

\* The active entry for f's scan, made by or_insert_with when it is absent.
Entry(r, f, now) ==
    IF contains_active(r, f.key) THEN r.active[f.key] ELSE NewActive(f, now)

\* Mutants: the scan's metadata is not compared; the last copy wins.
Verdict_any_metadata(a, f) ==
    IF a.fragments[f.fragment_index] = None THEN "Accepted"
    ELSE IF SameFragment(a.fragments[f.fragment_index], f) THEN "Duplicate"
    ELSE "Conflict"

Verdict_last_copy(a, f) ==
    IF a.metadata # f.metadata THEN "Conflict"
    ELSE IF SameFragment(a.fragments[f.fragment_index], f) THEN "Duplicate"
    ELSE "Accepted"

\* The first copy of every fragment wins: a fragment that disagrees with the
\* scan's metadata, or whose slot is taken, only moves a counter.
Verdict(a, f) ==
    IF a.metadata # f.metadata THEN "Conflict"
    ELSE IF a.fragments[f.fragment_index] = None THEN "Accepted"
    ELSE IF SameFragment(a.fragments[f.fragment_index], f) THEN "Duplicate"
    ELSE "Conflict"

Counted(a, verdict) ==
    IF verdict = "Duplicate"
    THEN [a EXCEPT !.duplicates = saturating_add(@, 1)]
    ELSE [a EXCEPT !.conflicts = saturating_add(@, 1)]

Accept(a, f, p, now) ==
    [a EXCEPT !.fragments[f.fragment_index] = [fragment |-> f, packet |-> p],
              !.last_observed_at = IF @ < now THEN now ELSE @]

\* The front of the completed queue.
OldestCompleted(completed) ==
    CHOOSE k \in {j \in Key : completed[j] # None} :
        \A j \in Key : completed[j] # None => completed[k].pushed <= completed[j].pushed

\* pop_front while the queue is longer than max_active: one pop is enough, as
\* a push adds one entry.
PopFront(completed) ==
    IF Cardinality({k \in Key : completed[k] # None}) > MaxActive
    THEN [completed EXCEPT ![OldestCompleted(completed)] = None]
    ELSE completed

Complete(r, k, a) ==
    LET pushed == [r.completed EXCEPT ![k] =
                      [fragments |-> a.fragments,
                       completed_at |-> a.last_observed_at,
                       pushed |-> r.pushes]]
    IN [active |-> [r.active EXCEPT ![k] = None],
        completed |-> PopFront(pushed),
        pushes |-> r.pushes + 1]

\* The value and the result of ingest_at for a scan in the completed cache:
\* the cached copy is compared, nothing changes and no snapshot is taken.
IngestCompleted(r, f) ==
    LET same == SameFragment(r.completed[f.key].fragments[f.fragment_index], f)
    IN [state |-> r,
        result |-> Result(IF same THEN "Duplicate" ELSE "Conflict", None, None, None)]

\* ... and for any other scan, with the victim the table evicts, if it must.
IngestActive(r, f, p, now, victim) ==
    LET room    == Evict(r, victim)
        evicted == Evicted(r, victim)
        entry   == Entry(room, f, now)
        verdict == Verdict(entry, f)
        counted == Counted(entry, verdict)
        filled  == Accept(entry, f, p, now)
    IN IF verdict # "Accepted"
       THEN [state |-> [room EXCEPT !.active[f.key] = counted],
             result |-> Result(verdict, None, evicted, finish(f.key, counted))]
       ELSE IF Received(filled.fragments) = fragment_mask(filled.metadata)
       THEN [state |-> Complete(room, f.key, filled),
             result |-> Result("Complete", finish(f.key, filled), evicted, None)]
       ELSE [state |-> [room EXCEPT !.active[f.key] = filled],
             result |-> Result("Pending", None, evicted, None)]

\* Mutant: the completed cache is not consulted.
ingest_at_uncached(r, f, p, now, victim) == IngestActive(r, f, p, now, victim)

ingest_at(r, f, p, now, victim) ==
    IF r.completed[f.key] # None
    THEN IngestCompleted(r, f)
    ELSE IngestActive(r, f, p, now, victim)

\* The victims ingest_at may choose: only a scan that is not cached looks.
Victims(r, f) ==
    IF r.completed[f.key] # None THEN {None} ELSE EvictionChoices(r, f.key)

-----------------------------------------------------------------------------
ExpiredKeys(r, cutoff) ==
    {k \in ActiveKeys(r) : r.active[k].last_observed_at < cutoff}

\* The scans a call returns, for the keys it removes from the active table.
FinishAll(r, keys) == {finish(k, r.active[k]) : k \in keys}

expire_before(r, cutoff) ==
    [r EXCEPT
        !.active = [k \in Key |->
            IF k \in ExpiredKeys(r, cutoff) THEN None ELSE r.active[k]],
        !.completed = [k \in Key |->
            IF r.completed[k] # None /\ r.completed[k].completed_at < cutoff
            THEN None ELSE r.completed[k]]]

drain_incomplete(r) == [r EXCEPT !.active = [k \in Key |-> None]]

discard(r, k) == [r EXCEPT !.active[k] = None, !.completed[k] = None]

\* Mutant: only the duplicates are restored.
restore_duplicates(r, k, duplicates, conflicts) ==
    [r EXCEPT !.active[k].duplicates = saturating_add(@, duplicates)]

\* Called for an active scan; for any other the code returns InternalState.
restore_receiver_counts(r, k, duplicates, conflicts) ==
    [r EXCEPT !.active[k].duplicates = saturating_add(@, duplicates),
              !.active[k].conflicts = saturating_add(@, conflicts)]

=============================================================================
