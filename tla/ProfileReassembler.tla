-------------------------- MODULE ProfileReassembler --------------------------
(***************************************************************************)
(* ProfileReassembler of crates/vesta-receiver/src/reassembly.rs as a      *)
(* state machine: one action per public method, called in any order with   *)
(* any fragment.  Packets carry fresh ids, as the archive hands them out.  *)
(***************************************************************************)
EXTENDS Reassembly

CONSTANT
    Time            \* readings of the monotonic clock (an interval from 0)

ASSUME CallerAssumption ==
    /\ PacketId \subseteq Nat \ {0}
    /\ Time \subseteq Nat
    /\ 0 \in Time

VARIABLES
    reassembler,    \* the reassembler's value
    now,            \* the monotonic clock, Instant::now()
    arrived,        \* how many packets were ingested: the last packet id
    handed,         \* the scans the last call returned to its caller
    accepted,       \* history: packets whose fragment filled a slot
    released        \* history: packets of scans handed back or discarded

vars == <<reassembler, now, arrived, handed, accepted, released>>

Init ==
    /\ reassembler = EmptyReassembler
    /\ now = 0
    /\ arrived = 0
    /\ handed = {}
    /\ accepted = {}
    /\ released = {}

PacketsOf(profiles) == UNION {Packets(pr.fragments) : pr \in profiles}

\* The scans that leave the reassembler with the result of an ingest.
Returned(result) == {result.profile, result.evicted} \ {None}

Ingest(f) ==
    LET p == arrived + 1
    IN /\ p \in PacketId
       /\ \E victim \in Victims(reassembler, f) :
             LET call == ingest_at(reassembler, f, p, now, victim)
             IN /\ reassembler' = call.state
                /\ handed' = Returned(call.result)
                /\ accepted' = IF call.result.event \in {"Pending", "Complete"}
                               THEN accepted \cup {p}
                               ELSE accepted
                /\ released' = released \cup PacketsOf(Returned(call.result))
       /\ arrived' = p
       /\ UNCHANGED now

ExpireBefore(cutoff) ==
    /\ cutoff <= now
    /\ handed' = FinishAll(reassembler, ExpiredKeys(reassembler, cutoff))
    /\ reassembler' = expire_before(reassembler, cutoff)
    /\ released' = released \cup PacketsOf(handed')
    /\ UNCHANGED <<now, arrived, accepted>>

DrainIncomplete ==
    /\ handed' = FinishAll(reassembler, ActiveKeys(reassembler))
    /\ reassembler' = drain_incomplete(reassembler)
    /\ released' = released \cup PacketsOf(handed')
    /\ UNCHANGED <<now, arrived, accepted>>

\* The caller discards a scan whose sources it has just requeued in the archive.
Discard(k) ==
    /\ handed' = {}
    /\ reassembler' = discard(reassembler, k)
    /\ released' = released \cup
          (IF contains_active(reassembler, k)
           THEN Packets(reassembler.active[k].fragments) ELSE {})
    /\ UNCHANGED <<now, arrived, accepted>>

RestoreReceiverCounts(k, duplicates, conflicts) ==
    /\ contains_active(reassembler, k)
    /\ reassembler' = restore_receiver_counts(reassembler, k, duplicates, conflicts)
    /\ handed' = {}
    /\ UNCHANGED <<now, arrived, accepted, released>>

Tick ==
    /\ now + 1 \in Time
    /\ now' = now + 1
    /\ UNCHANGED <<reassembler, arrived, handed, accepted, released>>

Next ==
    \/ \E f \in OwnedFragment : Ingest(f)
    \/ \E cutoff \in Time : ExpireBefore(cutoff)
    \/ DrainIncomplete
    \/ \E k \in Key : Discard(k)
    \/ \E k \in Key, duplicates, conflicts \in Count :
          RestoreReceiverCounts(k, duplicates, conflicts)
    \/ Tick

Spec == Init /\ [][Next]_vars

-----------------------------------------------------------------------------
(***************************************************************************)
(* Properties.                                                             *)
(***************************************************************************)

\* The state of the reassembler has the types of the struct's fields.
TypeOK ==
    /\ reassembler \in Reassembler
    /\ now \in Nat
    /\ arrived \in Nat
    /\ handed \in SUBSET ReassembledProfile
    /\ accepted \in SUBSET PacketId
    /\ released \in SUBSET PacketId

\* "A hard bound on incomplete scans" (with_capacity), and the same bound on
\* the duplicate cache, after every call.
Bounded ==
    /\ Cardinality(ActiveKeys(reassembler)) <= MaxActive
    /\ Cardinality(CompletedKeys(reassembler)) <= MaxActive

\* Every slot holds a fragment of this scan, at its own index, with the
\* metadata the scan was opened with: scans never mix.
Consistent(k, metadata, fragments) ==
    \A i \in Received(fragments) :
        /\ fragments[i].fragment.key = k
        /\ fragments[i].fragment.metadata = metadata
        /\ fragments[i].fragment.fragment_index = i

\* A scan in the table is never empty and never whole: the call that fills its
\* last slot also takes it out.
ActivePartial ==
    \A k \in ActiveKeys(reassembler) :
        LET a == reassembler.active[k]
        IN /\ Received(a.fragments) # {}
           /\ Received(a.fragments) \subseteq fragment_mask(a.metadata)
           /\ Received(a.fragments) # fragment_mask(a.metadata)
           /\ Consistent(k, a.metadata, a.fragments)

\* A scan is never reassembled again while the duplicate cache remembers it.
CacheExclusive == ActiveKeys(reassembler) \cap CompletedKeys(reassembler) = {}

\* What callers persist: a scan handed back, complete or not, has at least one
\* source (insert_profile_scan refuses one without) and only its own fragments.
HandedConsistent ==
    \A pr \in handed :
        /\ Received(pr.fragments) # {}
        /\ Received(pr.fragments) \subseteq fragment_mask(pr.metadata)
        /\ Consistent(pr.key, pr.metadata, pr.fragments)

Held == UNION {Packets(reassembler.active[k].fragments) : k \in ActiveKeys(reassembler)}

\* No silent loss and no double report: a packet that filled a slot is either
\* still held or was handed back (or discarded on request), never both, and two
\* scans never hold the same packet.
NothingLost ==
    /\ accepted \subseteq 1 .. arrived
    /\ accepted = Held \cup released
    /\ Held \cap released = {}
    /\ \A k, j \in ActiveKeys(reassembler) : k # j =>
          Packets(reassembler.active[k].fragments)
             \cap Packets(reassembler.active[j].fragments) = {}

\* First copy wins: while a scan stays in the table no call replaces or empties
\* a filled slot, changes its metadata, or lowers its taint counters.
EvidenceGrows(k) ==
    LET a == reassembler.active[k]
        b == reassembler'.active[k]
    IN (a # None /\ b # None) =>
          /\ b.metadata = a.metadata
          /\ \A i \in Received(a.fragments) : b.fragments[i] = a.fragments[i]
          /\ a.duplicates <= b.duplicates
          /\ a.conflicts <= b.conflicts

FirstCopyWins == [][\A k \in Key : EvidenceGrows(k)]_vars

=============================================================================
