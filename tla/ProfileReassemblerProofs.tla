---------------------- MODULE ProfileReassemblerProofs ----------------------
(***************************************************************************)
(* Proofs about ProfileReassembler, for every number of scans, fragments,  *)
(* packets and places in the table.                                        *)
(***************************************************************************)
EXTENDS ProfileReassembler, ReassemblyProofs, FiniteSetTheorems, WellFoundedInduction, TLAPS

-----------------------------------------------------------------------------
(***************************************************************************)
(* The steps of the state machine.                                         *)
(***************************************************************************)

\* What the step Ingest does for a scan that is not cached, whose evicted scan is v.
OpenIngest(f, v, result) ==
    /\ reassembler.completed[f.key] = None
    /\ result.evicted = Evicted(reassembler, v)
    /\ handed' = Returned(result)
    /\ released' = released \cup PacketsOf(Returned(result))
    /\ accepted' = IF result.event \in {"Pending", "Complete"}
                   THEN accepted \cup {arrived + 1} ELSE accepted
    /\ \/ CountedCase(reassembler, reassembler', result, f, v)
       \/ PendingCase(reassembler, reassembler', result, f, arrived + 1, now, v)
       \/ CompleteCase(reassembler, reassembler', result, f, arrived + 1, now, v)

\* ... and for one that is: the reassembler does not change.
CachedIngest ==
    /\ reassembler' = reassembler
    /\ handed' = {}
    /\ UNCHANGED <<accepted, released>>

\* Every ingest is one of the two.
LEMMA IngestStep ==
    ASSUME TypeOK, NEW f \in OwnedFragment, Ingest(f)
    PROVE  /\ f.key \in Key
           /\ arrived + 1 \in PacketId
           /\ arrived' = arrived + 1
           /\ now' = now
           /\ reassembler' \in Reassembler
           /\ \/ CachedIngest
              \/ \E v \in EvictionChoices(reassembler, f.key) : \E result : OpenIngest(f, v, result)
  <1> DEFINE p == arrived + 1
  <1>1. /\ reassembler \in Reassembler
        /\ now \in Nat
    BY DEF TypeOK
  <1>2. f.key \in Key
    BY DEF OwnedFragment
  <1>3. p \in PacketId /\ arrived' = p /\ now' = now
    BY DEF Ingest
  <1>4. PICK victim \in Victims(reassembler, f) :
          LET call == ingest_at(reassembler, f, p, now, victim)
          IN /\ reassembler' = call.state
             /\ handed' = Returned(call.result)
             /\ accepted' = IF call.result.event \in {"Pending", "Complete"}
                            THEN accepted \cup {p}
                            ELSE accepted
             /\ released' = released \cup PacketsOf(Returned(call.result))
    BY DEF Ingest
  <1>5. CASE reassembler.completed[f.key] # None
    <2> DEFINE verdict == IF SameFragment(reassembler.completed[f.key].fragments[f.fragment_index], f)
                          THEN "Duplicate" ELSE "Conflict"
               result  == Result(verdict, None, None, None)
    <2>1. ingest_at(reassembler, f, p, now, victim) = [state |-> reassembler, result |-> result]
      BY <1>5 DEF ingest_at, IngestCompleted
    <2>2. Returned(result) = {} /\ result.event \notin {"Pending", "Complete"}
      BY DEF Returned, Result
    <2>3. PacketsOf({}) = {}
      BY DEF PacketsOf
    <2> HIDE DEF result
    <2>4. CachedIngest
      BY <1>4, <2>1, <2>2, <2>3 DEF CachedIngest
    <2>5. QED
      BY <1>1, <1>2, <1>3, <2>4 DEF CachedIngest
  <1>6. CASE reassembler.completed[f.key] = None
    <2> DEFINE call == IngestActive(reassembler, f, p, now, victim)
    <2>1. victim \in EvictionChoices(reassembler, f.key)
      BY <1>6 DEF Victims
    <2>2. /\ call.state \in Reassembler
          /\ call.result.evicted = Evicted(reassembler, victim)
          /\ \/ CountedCase(reassembler, call.state, call.result, f, victim)
             \/ PendingCase(reassembler, call.state, call.result, f, p, now, victim)
             \/ CompleteCase(reassembler, call.state, call.result, f, p, now, victim)
      BY <1>1, <1>3, <2>1, IngestActiveCases
    <2>3. ingest_at(reassembler, f, p, now, victim) = call
      BY <1>6 DEF ingest_at
    <2> HIDE DEF call
    <2>4. /\ reassembler' = call.state
          /\ handed' = Returned(call.result)
          /\ accepted' = IF call.result.event \in {"Pending", "Complete"}
                         THEN accepted \cup {p} ELSE accepted
          /\ released' = released \cup PacketsOf(Returned(call.result))
      BY <1>4, <2>3
    <2>5. OpenIngest(f, victim, call.result)
      BY <1>6, <2>2, <2>4 DEF OpenIngest
    <2>6. QED
      BY <1>2, <1>3, <2>1, <2>2, <2>4, <2>5
  <1>7. QED
    BY <1>5, <1>6

\* So are those of a set of scans handed back.
LEMMA PacketsOfType ==
    ASSUME NEW profiles \in SUBSET ReassembledProfile
    PROVE  PacketsOf(profiles) \subseteq PacketId
  <1>1. \A pr \in profiles : Packets(pr.fragments) \subseteq PacketId
    BY PacketsType DEF ReassembledProfile
  <1>2. QED
    BY <1>1 DEF PacketsOf

\* What an ingest hands back are ReassembledProfiles.
LEMMA ReturnedType ==
    ASSUME TypeOK, NEW f \in OwnedFragment, arrived + 1 \in PacketId,
           NEW v \in EvictionChoices(reassembler, f.key), NEW result, OpenIngest(f, v, result)
    PROVE  Returned(result) \in SUBSET ReassembledProfile
  <1>1. reassembler \in Reassembler /\ now \in Nat /\ f.key \in Key
    BY DEF TypeOK, OwnedFragment
  <1>2. result.evicted \in ReassembledProfile \cup {None}
    BY <1>1, EvictedType DEF OpenIngest
  <1>3. result.profile \in ReassembledProfile \cup {None}
    <2>1. CASE CompleteCase(reassembler, reassembler', result, f, arrived + 1, now, v)
      <3>1. PICK x \in ActiveProfile : result.profile = finish(f.key, Accept(x, f, arrived + 1, now))
        BY <2>1 DEF CompleteCase, FillsSlot
      <3>2. Accept(x, f, arrived + 1, now) \in ActiveProfile
        BY <1>1, AcceptType
      <3>3. QED
        BY <1>1, <3>1, <3>2, FinishType
    <2>2. CASE result.profile = None
      BY <2>2
    <2>3. QED
      BY <2>1, <2>2 DEF OpenIngest, CountedCase, PendingCase
  <1>4. QED
    BY <1>2, <1>3 DEF Returned

-----------------------------------------------------------------------------
(***************************************************************************)
(* Type correctness.                                                       *)
(***************************************************************************)
\* Every step of the reassembler preserves its types.
LEMMA TypeStep == TypeOK /\ [Next]_vars => TypeOK'
  <1> SUFFICES ASSUME TypeOK, [Next]_vars
               PROVE  TypeOK'
    OBVIOUS
  <1>1. /\ reassembler \in Reassembler
        /\ now \in Nat
        /\ arrived \in Nat
        /\ handed \in SUBSET ReassembledProfile
        /\ accepted \in SUBSET PacketId
        /\ released \in SUBSET PacketId
    BY DEF TypeOK
  <1>2. CASE \E f \in OwnedFragment : Ingest(f)
    <2>1. PICK f \in OwnedFragment : Ingest(f)
      BY <1>2
    <2>2. /\ f.key \in Key
          /\ arrived + 1 \in PacketId
          /\ arrived' = arrived + 1
          /\ now' = now
          /\ reassembler' \in Reassembler
          /\ \/ CachedIngest
             \/ \E v \in EvictionChoices(reassembler, f.key) : \E result : OpenIngest(f, v, result)
      BY <2>1, IngestStep
    <2>3. CASE CachedIngest
      BY <1>1, <2>2, <2>3 DEF CachedIngest, TypeOK
    <2>4. ASSUME NEW v \in EvictionChoices(reassembler, f.key), NEW result,
                 OpenIngest(f, v, result)
          PROVE  TypeOK'
      <3>1. Returned(result) \in SUBSET ReassembledProfile
        BY <2>2, <2>4, ReturnedType
      <3>2. PacketsOf(Returned(result)) \subseteq PacketId
        BY <3>1, PacketsOfType
      <3>3. /\ handed' = Returned(result)
            /\ released' = released \cup PacketsOf(Returned(result))
            /\ accepted' \in {accepted, accepted \cup {arrived + 1}}
        BY <2>4 DEF OpenIngest
      <3>4. QED
        BY <1>1, <2>2, <3>1, <3>2, <3>3 DEF TypeOK
    <2>5. QED
      BY <2>2, <2>3, <2>4
  <1>3. CASE \E cutoff \in Time : ExpireBefore(cutoff)
    <2>1. PICK cutoff \in Time : ExpireBefore(cutoff)
      BY <1>3
    <2>2. cutoff \in Nat
      BY CallerAssumption
    <2>3. /\ expire_before(reassembler, cutoff) \in Reassembler
          /\ ExpiredKeys(reassembler, cutoff) \subseteq ActiveKeys(reassembler)
      BY <1>1, <2>2, ExpireType
    <2>4. FinishAll(reassembler, ExpiredKeys(reassembler, cutoff)) \in SUBSET ReassembledProfile
      BY <1>1, <2>3, FinishAllType
    <2>5. PacketsOf(handed') \subseteq PacketId
      BY <2>1, <2>4, PacketsOfType DEF ExpireBefore
    <2>6. QED
      BY <1>1, <2>1, <2>3, <2>4, <2>5 DEF ExpireBefore, TypeOK
  <1>4. CASE DrainIncomplete
    <2>1. drain_incomplete(reassembler) \in Reassembler
      BY <1>1, DrainType
    <2>2. FinishAll(reassembler, ActiveKeys(reassembler)) \in SUBSET ReassembledProfile
      BY <1>1, FinishAllType
    <2>3. PacketsOf(handed') \subseteq PacketId
      BY <1>4, <2>2, PacketsOfType DEF DrainIncomplete
    <2>4. QED
      BY <1>1, <1>4, <2>1, <2>2, <2>3 DEF DrainIncomplete, TypeOK
  <1>5. CASE \E k \in Key : Discard(k)
    <2>1. PICK k \in Key : Discard(k)
      BY <1>5
    <2>2. discard(reassembler, k) \in Reassembler
      BY <1>1, DiscardType
    <2>3. contains_active(reassembler, k) => Packets(reassembler.active[k].fragments) \subseteq PacketId
      BY <1>1, PacketsType DEF contains_active, Reassembler, ActiveProfile
    <2>4. QED
      BY <1>1, <2>1, <2>2, <2>3 DEF Discard, TypeOK
  <1>6. CASE \E k \in Key, duplicates, conflicts \in Count :
               RestoreReceiverCounts(k, duplicates, conflicts)
    BY <1>1, <1>6, RestoreType DEF RestoreReceiverCounts, TypeOK
  <1>7. CASE Tick
    BY <1>1, <1>7 DEF Tick, TypeOK
  <1>8. CASE UNCHANGED vars
    BY <1>1, <1>8 DEF vars, TypeOK
  <1>9. QED
    BY <1>2, <1>3, <1>4, <1>5, <1>6, <1>7, <1>8 DEF Next

\* The reassembler's state keeps its types, and its counters their range, whatever
\* the order of the calls (reassembly.rs, every public method).
THEOREM TypeCorrect == Spec => []TypeOK
  <1>1. Init => TypeOK
    BY ReassemblyAssumption
       DEF Init, TypeOK, EmptyReassembler, Reassembler
  <1>2. QED
    BY <1>1, TypeStep, PTL DEF Spec

-----------------------------------------------------------------------------
(***************************************************************************)
(* Scans never mix, and no scan in the table is empty or whole.            *)
(***************************************************************************)
Sound(k, metadata, fragments) ==
    /\ Received(fragments) # {}
    /\ Received(fragments) \subseteq fragment_mask(metadata)
    /\ Consistent(k, metadata, fragments)

Partial(k, x) ==
    /\ Sound(k, x.metadata, x.fragments)
    /\ Received(x.fragments) # fragment_mask(x.metadata)

\* ActivePartial, place by place, before and after a step.
LEMMA ActivePartialIff ==
    ActivePartial <=> \A k \in Key : reassembler.active[k] # None => Partial(k, reassembler.active[k])
  BY DEF ActivePartial, ActiveKeys, Partial, Sound

\* The same of the state after it.
LEMMA ActivePartialIffNext ==
    ActivePartial' <=> \A k \in Key : reassembler'.active[k] # None => Partial(k, reassembler'.active[k])
  BY DEF ActivePartial, ActiveKeys, Partial, Sound, Consistent

\* A fragment that fills a slot of a sound scan, or opens one, leaves it sound.
LEMMA AcceptSound ==
    ASSUME NEW r \in Reassembler, NEW f \in OwnedFragment, NEW p \in PacketId,
           NEW t \in Nat, NEW x, FillsSlot(r, f, t, x),
           r.active[f.key] # None => Partial(f.key, r.active[f.key])
    PROVE  Sound(f.key, f.metadata, Accept(x, f, p, t).fragments)
  <1>1. /\ x \in ActiveProfile
        /\ x.metadata = f.metadata
    BY DEF FillsSlot
  <1>2. /\ Received(x.fragments) \subseteq fragment_mask(f.metadata)
        /\ Consistent(f.key, f.metadata, x.fragments)
    <2>1. CASE contains_active(r, f.key)
      BY <1>1, <2>1 DEF FillsSlot, contains_active, Partial, Sound
    <2>2. CASE ~ contains_active(r, f.key)
      <3>1. Received(x.fragments) = {}
        BY <2>2, NewActiveType DEF FillsSlot
      <3>2. QED
        BY <3>1 DEF Consistent
    <2>3. QED
      BY <2>1, <2>2
  <1>3. f.fragment_index \in fragment_mask(f.metadata)
    BY DEF OwnedFragment
  <1> DEFINE y == Accept(x, f, p, t).fragments
  <1>4. /\ Received(y) = Received(x.fragments) \cup {f.fragment_index}
        /\ y[f.fragment_index] = [fragment |-> f, packet |-> p]
        /\ \A i \in Index : i # f.fragment_index => y[i] = x.fragments[i]
    BY <1>1, ReceivedAccept
  <1> HIDE DEF y
  <1>5. Received(x.fragments) \subseteq Index
    BY DEF Received
  <1>6. Consistent(f.key, f.metadata, y)
    BY <1>2, <1>4, <1>5 DEF Consistent
  <1>7. Sound(f.key, f.metadata, y)
    BY <1>2, <1>3, <1>4, <1>6 DEF Sound
  <1>8. QED
    BY <1>7 DEF y

\* The scans a call takes from the table are sound.
LEMMA FinishAllSound ==
    ASSUME TypeOK, ActivePartial, NEW keys \in SUBSET ActiveKeys(reassembler)
    PROVE  \A pr \in FinishAll(reassembler, keys) : Sound(pr.key, pr.metadata, pr.fragments)
  <1>1. \A k \in keys : /\ k \in Key
                         /\ reassembler.active[k] \in ActiveProfile
                         /\ Partial(k, reassembler.active[k])
    BY ActivePartialIff DEF ActiveKeys, TypeOK, Reassembler
  <1>2. \A k \in keys : LET pr == finish(k, reassembler.active[k])
                         IN Sound(pr.key, pr.metadata, pr.fragments)
    BY <1>1, FinishType DEF Partial
  <1>3. QED
    BY <1>2 DEF FinishAll

\* HandedConsistent after a step.
LEMMA HandedConsistentIffNext ==
    HandedConsistent' <=> \A pr \in handed' : Sound(pr.key, pr.metadata, pr.fragments)
  BY DEF HandedConsistent, Sound, Consistent

\* Every step preserves the soundness of what is in the table and handed back.
LEMMA PartialStep ==
    TypeOK /\ ActivePartial /\ HandedConsistent /\ [Next]_vars
       => ActivePartial' /\ HandedConsistent'
  <1> SUFFICES ASSUME TypeOK, ActivePartial, HandedConsistent, [Next]_vars
               PROVE  ActivePartial' /\ HandedConsistent'
    OBVIOUS
  <1>1. reassembler \in Reassembler /\ now \in Nat
    BY DEF TypeOK
  <1>2. \A k \in Key : reassembler.active[k] # None => Partial(k, reassembler.active[k])
    BY ActivePartialIff
  <1>3. CASE \E f \in OwnedFragment : Ingest(f)
    <2>1. PICK f \in OwnedFragment : Ingest(f)
      BY <1>3
    <2>2. /\ f.key \in Key
          /\ arrived + 1 \in PacketId
          /\ \/ CachedIngest
             \/ \E v \in EvictionChoices(reassembler, f.key) : \E result : OpenIngest(f, v, result)
      BY <2>1, IngestStep
    <2>3. CASE CachedIngest
      BY <1>2, <2>3, ActivePartialIffNext, HandedConsistentIffNext DEF CachedIngest
    <2>4. ASSUME NEW v \in EvictionChoices(reassembler, f.key), NEW result,
                 OpenIngest(f, v, result)
          PROVE  ActivePartial' /\ HandedConsistent'
      <3> DEFINE p == arrived + 1
      <3>1. result.evicted # None => Sound(result.evicted.key, result.evicted.metadata,
                                           result.evicted.fragments)
        <4>1. SUFFICES ASSUME result.evicted # None
                       PROVE  Sound(result.evicted.key, result.evicted.metadata,
                                    result.evicted.fragments)
          OBVIOUS
        <4>2. /\ v \in Key
              /\ v \in ActiveKeys(reassembler)
              /\ reassembler.active[v] \in ActiveProfile
              /\ result.evicted = finish(v, reassembler.active[v])
          BY <1>1, <2>2, <2>4, <4>1, EvictedType DEF OpenIngest
        <4>3. Partial(v, reassembler.active[v])
          BY <1>2, <4>2 DEF ActiveKeys
        <4>4. QED
          BY <4>2, <4>3, FinishType DEF Partial
      <3>2. CASE CountedCase(reassembler, reassembler', result, f, v)
        <4>1. PICK verdict : Table(reassembler, reassembler', f.key, v,
                                   Counted(reassembler.active[f.key], verdict))
          BY <3>2 DEF CountedCase
        <4>2. reassembler.active[f.key] \in ActiveProfile
          BY <1>1, <2>2, <3>2 DEF CountedCase, contains_active, Reassembler
        <4>3. Partial(f.key, reassembler.active[f.key])
          BY <1>2, <2>2, <3>2 DEF CountedCase, contains_active
        <4>4. Partial(f.key, Counted(reassembler.active[f.key], verdict))
          BY <4>2, <4>3, CountedType DEF Partial
        <4>5. \A k \in Key : reassembler'.active[k] # None => Partial(k, reassembler'.active[k])
          BY <1>2, <2>2, <4>1, <4>4 DEF Table
        <4>6. ActivePartial'
          BY <4>5, ActivePartialIffNext
        <4>7. handed' \subseteq {result.evicted} \ {None}
          BY <2>4, <3>2 DEF OpenIngest, CountedCase, Returned
        <4>8. QED
          BY <3>1, <4>6, <4>7, HandedConsistentIffNext
      <3>3. CASE PendingCase(reassembler, reassembler', result, f, p, now, v)
        <4>1. PICK x : /\ FillsSlot(reassembler, f, now, x)
                       /\ Received(Accept(x, f, p, now).fragments) # fragment_mask(f.metadata)
                       /\ Table(reassembler, reassembler', f.key, v, Accept(x, f, p, now))
          BY <3>3 DEF PendingCase
        <4>2. Sound(f.key, f.metadata, Accept(x, f, p, now).fragments)
          BY <1>1, <1>2, <2>2, <4>1, AcceptSound
        <4>3. Accept(x, f, p, now).metadata = f.metadata
          BY <1>1, <2>2, <4>1, AcceptType DEF FillsSlot
        <4>4. Partial(f.key, Accept(x, f, p, now))
          BY <4>1, <4>2, <4>3 DEF Partial
        <4>5. \A k \in Key : reassembler'.active[k] # None => Partial(k, reassembler'.active[k])
          BY <1>2, <2>2, <4>1, <4>4 DEF Table
        <4>6. ActivePartial'
          BY <4>5, ActivePartialIffNext
        <4>7. handed' \subseteq {result.evicted} \ {None}
          BY <2>4, <3>3 DEF OpenIngest, PendingCase, Returned
        <4>8. QED
          BY <3>1, <4>6, <4>7, HandedConsistentIffNext
      <3>4. CASE CompleteCase(reassembler, reassembler', result, f, p, now, v)
        <4>1. PICK x : /\ FillsSlot(reassembler, f, now, x)
                       /\ result.profile = finish(f.key, Accept(x, f, p, now))
                       /\ Table(reassembler, reassembler', f.key, v, None)
          BY <3>4 DEF CompleteCase
        <4>2. Sound(f.key, f.metadata, Accept(x, f, p, now).fragments)
          BY <1>1, <1>2, <2>2, <4>1, AcceptSound
        <4>3. Accept(x, f, p, now) \in ActiveProfile /\ Accept(x, f, p, now).metadata = f.metadata
          BY <1>1, <2>2, <4>1, AcceptType DEF FillsSlot
        <4>4. Sound(result.profile.key, result.profile.metadata, result.profile.fragments)
          BY <2>2, <4>1, <4>2, <4>3, FinishType
        <4>5. \A k \in Key : reassembler'.active[k] # None => Partial(k, reassembler'.active[k])
          BY <1>2, <4>1 DEF Table
        <4>6. ActivePartial'
          BY <4>5, ActivePartialIffNext
        <4>7. handed' \subseteq {result.profile, result.evicted} \ {None}
          BY <2>4 DEF OpenIngest, Returned
        <4>8. QED
          BY <3>1, <4>4, <4>6, <4>7, HandedConsistentIffNext
      <3>5. QED
        BY <2>4, <3>2, <3>3, <3>4 DEF OpenIngest
    <2>5. QED
      BY <2>2, <2>3, <2>4
  <1>4. CASE \E cutoff \in Time : ExpireBefore(cutoff)
    <2>1. PICK cutoff \in Time : ExpireBefore(cutoff)
      BY <1>4
    <2>2. cutoff \in Nat
      BY CallerAssumption
    <2>3. /\ \A k \in Key : reassembler'.active[k] \in {None, reassembler.active[k]}
          /\ ExpiredKeys(reassembler, cutoff) \subseteq ActiveKeys(reassembler)
      BY <1>1, <2>1, <2>2, ExpireType DEF ExpireBefore
    <2>4. ActivePartial'
      BY <1>2, <2>3, ActivePartialIffNext
    <2>5. HandedConsistent'
      BY <2>1, <2>3, FinishAllSound, HandedConsistentIffNext DEF ExpireBefore
    <2>6. QED
      BY <2>4, <2>5
  <1>5. CASE DrainIncomplete
    <2>1. ActivePartial'
      BY <1>1, <1>5, DrainType, ActivePartialIffNext DEF DrainIncomplete
    <2>2. HandedConsistent'
      BY <1>5, FinishAllSound, HandedConsistentIffNext DEF DrainIncomplete
    <2>3. QED
      BY <2>1, <2>2
  <1>6. CASE \E k \in Key : Discard(k)
    <2>1. PICK k \in Key : Discard(k)
      BY <1>6
    <2>2. \A j \in Key : reassembler'.active[j] \in {None, reassembler.active[j]}
      BY <1>1, <2>1, DiscardType DEF Discard
    <2>3. QED
      BY <1>2, <2>1, <2>2, ActivePartialIffNext, HandedConsistentIffNext DEF Discard
  <1>7. CASE \E k \in Key, duplicates, conflicts \in Count :
               RestoreReceiverCounts(k, duplicates, conflicts)
    <2>1. PICK k \in Key, m \in Count, n \in Count : RestoreReceiverCounts(k, m, n)
      BY <1>7
    <2>2. contains_active(reassembler, k)
      BY <2>1 DEF RestoreReceiverCounts
    <2>3. /\ \A j \in Key : j # k => reassembler'.active[j] = reassembler.active[j]
          /\ reassembler'.active[k].metadata = reassembler.active[k].metadata
          /\ reassembler'.active[k].fragments = reassembler.active[k].fragments
      BY <1>1, <2>1, <2>2, RestoreType DEF RestoreReceiverCounts
    <2>4. Partial(k, reassembler'.active[k])
      BY <1>2, <2>2, <2>3 DEF Partial, contains_active
    <2>5. QED
      BY <1>2, <2>1, <2>3, <2>4, ActivePartialIffNext, HandedConsistentIffNext
         DEF RestoreReceiverCounts
  <1>8. CASE Tick \/ UNCHANGED vars
    <2>1. reassembler' = reassembler /\ handed' = handed
      BY <1>8 DEF Tick, vars
    <2>2. QED
      BY <2>1 DEF ActivePartial, HandedConsistent, Consistent
  <1>9. QED
    BY <1>3, <1>4, <1>5, <1>6, <1>7, <1>8 DEF Next

-----------------------------------------------------------------------------
(***************************************************************************)
(* The duplicate cache and the table never share a scan.                   *)
(***************************************************************************)

\* Every step keeps the table and the cache apart.
LEMMA CacheStep ==
    TypeOK /\ CacheExclusive /\ [Next]_vars => CacheExclusive'
  <1> SUFFICES ASSUME TypeOK, CacheExclusive, [Next]_vars
               PROVE  CacheExclusive'
    OBVIOUS
  <1>1. reassembler \in Reassembler /\ now \in Nat
    BY DEF TypeOK
  <1>2. \A k \in Key : reassembler.active[k] = None \/ reassembler.completed[k] = None
    BY DEF CacheExclusive, ActiveKeys, CompletedKeys
  <1>3. SUFFICES \A k \in Key : reassembler'.active[k] = None \/ reassembler'.completed[k] = None
    BY DEF CacheExclusive, ActiveKeys, CompletedKeys
  <1>4. CASE \E f \in OwnedFragment : Ingest(f)
    <2>1. PICK f \in OwnedFragment : Ingest(f)
      BY <1>4
    <2>2. /\ f.key \in Key
          /\ arrived + 1 \in PacketId
          /\ \/ CachedIngest
             \/ \E v \in EvictionChoices(reassembler, f.key) : \E result : OpenIngest(f, v, result)
      BY <2>1, IngestStep
    <2>3. CASE CachedIngest
      BY <1>2, <2>3 DEF CachedIngest
    <2>4. ASSUME NEW v \in EvictionChoices(reassembler, f.key), NEW result,
                 OpenIngest(f, v, result)
          PROVE  \A k \in Key : reassembler'.active[k] = None \/ reassembler'.completed[k] = None
      <3> DEFINE p == arrived + 1
      <3>1. reassembler.completed[f.key] = None
        BY <2>4 DEF OpenIngest
      <3>2. CASE \/ CountedCase(reassembler, reassembler', result, f, v)
                 \/ PendingCase(reassembler, reassembler', result, f, p, now, v)
        <4>1. /\ reassembler'.completed = reassembler.completed
              /\ \E x : Table(reassembler, reassembler', f.key, v, x)
          BY <3>2 DEF CountedCase, PendingCase
        <4>2. QED
          BY <1>2, <3>1, <4>1 DEF Table
      <3>3. CASE CompleteCase(reassembler, reassembler', result, f, p, now, v)
        <4>1. PICK x : /\ FillsSlot(reassembler, f, now, x)
                       /\ Table(reassembler, reassembler', f.key, v, None)
                       /\ reassembler' = Complete(Evict(reassembler, v), f.key, Accept(x, f, p, now))
          BY <3>3 DEF CompleteCase
        <4>2. Accept(x, f, p, now) \in ActiveProfile
          BY <1>1, <2>2, <4>1, AcceptType DEF FillsSlot
        <4>3. v \in Key \cup {None}
          BY <1>1, <2>2, EvictionChoicesType
        <4>4. /\ Evict(reassembler, v) \in Reassembler
              /\ Evict(reassembler, v).completed = reassembler.completed
          BY <1>1, <4>3, EvictType
        <4>5. \A j \in Key : j # f.key /\ reassembler.completed[j] = None
                                 => reassembler'.completed[j] = None
          BY <2>2, <4>1, <4>2, <4>4, CompleteType
        <4>6. QED
          BY <1>2, <4>1, <4>5 DEF Table
      <3>4. QED
        BY <2>4, <3>2, <3>3 DEF OpenIngest
    <2>5. QED
      BY <2>2, <2>3, <2>4
  <1>5. CASE \E cutoff \in Time : ExpireBefore(cutoff)
    <2>1. PICK cutoff \in Time : ExpireBefore(cutoff)
      BY <1>5
    <2>2. cutoff \in Nat
      BY CallerAssumption
    <2>3. QED
      BY <1>1, <1>2, <2>1, <2>2, ExpireType DEF ExpireBefore
  <1>6. CASE DrainIncomplete
    BY <1>1, <1>6, DrainType DEF DrainIncomplete
  <1>7. CASE \E k \in Key : Discard(k)
    BY <1>1, <1>2, <1>7, DiscardType DEF Discard
  <1>8. CASE \E k \in Key, duplicates, conflicts \in Count :
               RestoreReceiverCounts(k, duplicates, conflicts)
    <2>1. PICK k \in Key, m \in Count, n \in Count : RestoreReceiverCounts(k, m, n)
      BY <1>8
    <2>2. contains_active(reassembler, k)
      BY <2>1 DEF RestoreReceiverCounts
    <2>3. /\ reassembler'.completed = reassembler.completed
          /\ \A j \in Key : j # k => reassembler'.active[j] = reassembler.active[j]
      BY <1>1, <2>1, <2>2, RestoreType DEF RestoreReceiverCounts
    <2>4. QED
      BY <1>2, <2>2, <2>3 DEF contains_active
  <1>9. CASE Tick \/ UNCHANGED vars
    BY <1>2, <1>9 DEF Tick, vars
  <1>10. QED
    BY <1>4, <1>5, <1>6, <1>7, <1>8, <1>9 DEF Next

-----------------------------------------------------------------------------
(***************************************************************************)
(* The bound on the table and on the cache.                                *)
(***************************************************************************)

\* The queue of a cache that is not empty has a front.
LEMMA OldestExists ==
    ASSUME NEW c \in [Key -> CompletedProfile \cup {None}],
           {k \in Key : c[k] # None} # {}
    PROVE  OldestCompleted(c) \in {k \in Key : c[k] # None}
  <1> DEFINE S == {k \in Key : c[k] # None}
             T == {c[k].pushed : k \in S}
  <1>1. T \subseteq Nat
    BY DEF CompletedProfile
  <1>2. T # {}
    OBVIOUS
  <1>3. PICK n \in T : \A m \in T : ~ (<<m, n>> \in OpToRel(<, Nat))
    <2> HIDE DEF T
    <2>1. QED
      BY <1>1, <1>2, WFMin, NatLessThanWellFounded
  <1>4. \A m \in T : n <= m
    <2> SUFFICES ASSUME NEW m \in T
                 PROVE  n <= m
      OBVIOUS
    <2>1. ~ (<<m, n>> \in OpToRel(<, Nat))
      BY <1>3
    <2>2. m \in Nat /\ n \in Nat
      BY <1>1
    <2> HIDE DEF T
    <2>3. QED
      BY <2>1, <2>2 DEF OpToRel
  <1>5. PICK k \in S : c[k].pushed = n
    OBVIOUS
  <1>6. \A j \in Key : c[j] # None => c[k].pushed <= c[j].pushed
    BY <1>4, <1>5
  <1>7. QED
    BY <1>5, <1>6 DEF OldestCompleted

\* One push and one pop leave no more entries than MaxActive.
LEMMA PopFrontBound ==
    ASSUME NEW c \in [Key -> CompletedProfile \cup {None}],
           Cardinality({k \in Key : c[k] # None}) <= MaxActive + 1
    PROVE  Cardinality({k \in Key : PopFront(c)[k] # None}) <= MaxActive
  <1> DEFINE S == {k \in Key : c[k] # None}
  <1>0. Cardinality(S) <= MaxActive + 1
    OBVIOUS
  <1>1. IsFiniteSet(S) /\ Cardinality(S) \in Nat
    BY ReassemblyAssumption, FS_Subset, FS_CardinalityType
  <1>2. MaxActive \in Nat /\ MaxActive # 0
    BY ReassemblyAssumption
  <1>3. CASE Cardinality(S) > MaxActive
    <2>1. S # {}
      BY <1>2, <1>3, FS_EmptySet
    <2>2. OldestCompleted(c) \in S
      BY <2>1, OldestExists
    <2>3. PopFront(c) = [c EXCEPT ![OldestCompleted(c)] = None]
      BY <1>3 DEF PopFront
    <2>4. {k \in Key : PopFront(c)[k] # None} = S \ {OldestCompleted(c)}
      BY <2>2, <2>3
    <2>5. Cardinality(S \ {OldestCompleted(c)}) = Cardinality(S) - 1
      BY <1>1, <2>2, FS_RemoveElement
    <2>6. Cardinality(S) - 1 <= MaxActive
      BY <1>0, <1>1, <1>2
    <2>7. QED
      BY <2>4, <2>5, <2>6
  <1>4. CASE ~ (Cardinality(S) > MaxActive)
    <2>1. PopFront(c) = c
      BY <1>4 DEF PopFront
    <2>2. QED
      BY <1>1, <1>2, <1>4, <2>1
  <1>5. QED
    BY <1>3, <1>4

\* A step that only empties places keeps the bounds.
LEMMA BoundedShrinks ==
    ASSUME Bounded,
           \A k \in Key : reassembler'.active[k] # None => reassembler.active[k] # None,
           \A k \in Key : reassembler'.completed[k] # None => reassembler.completed[k] # None
    PROVE  Bounded'
  <1>1. /\ ActiveKeys(reassembler') \subseteq ActiveKeys(reassembler)
        /\ CompletedKeys(reassembler') \subseteq CompletedKeys(reassembler)
        /\ ActiveKeys(reassembler) \subseteq Key
        /\ CompletedKeys(reassembler) \subseteq Key
    BY DEF ActiveKeys, CompletedKeys
  <1>2. /\ Cardinality(ActiveKeys(reassembler)) <= MaxActive
        /\ Cardinality(CompletedKeys(reassembler)) <= MaxActive
    BY DEF Bounded
  <1>3. /\ Cardinality(ActiveKeys(reassembler')) <= MaxActive
        /\ Cardinality(CompletedKeys(reassembler')) <= MaxActive
    BY <1>1, <1>2, FewerKeys
  <1>4. QED
    BY <1>3 DEF Bounded, ActiveKeys, CompletedKeys

\* The cache stays within its bound when a scan completes.
LEMMA CompleteBound ==
    ASSUME NEW r \in Reassembler, NEW k \in Key, NEW x \in ActiveProfile,
           Cardinality(CompletedKeys(r)) <= MaxActive
    PROVE  Cardinality(CompletedKeys(Complete(r, k, x))) <= MaxActive
  <1> DEFINE entry  == [fragments |-> x.fragments,
                        completed_at |-> x.last_observed_at,
                        pushed |-> r.pushes]
             pushed == [r.completed EXCEPT ![k] = entry]
             S      == CompletedKeys(r)
  <1>1. entry \in CompletedProfile
    BY DEF ActiveProfile, CompletedProfile, Reassembler
  <1>2. pushed \in [Key -> CompletedProfile \cup {None}]
    BY <1>1 DEF Reassembler
  <1>3. {j \in Key : pushed[j] # None} = S \cup {k}
    BY <1>1, NoneAssumption DEF CompletedKeys, Reassembler
  <1>4. IsFiniteSet(S) /\ Cardinality(S) \in Nat
    BY ReassemblyAssumption, FS_Subset, FS_CardinalityType DEF CompletedKeys
  <1>5. Cardinality(S \cup {k}) \in {Cardinality(S), Cardinality(S) + 1}
    BY <1>4, FS_AddElement
  <1>6. Cardinality(S \cup {k}) <= MaxActive + 1
    BY <1>4, <1>5, ReassemblyAssumption
  <1>7. Complete(r, k, x).completed = PopFront(pushed)
    BY DEF Complete
  <1> HIDE DEF pushed
  <1>8. Cardinality({j \in Key : PopFront(pushed)[j] # None}) <= MaxActive
    BY <1>2, <1>3, <1>6, PopFrontBound
  <1>9. QED
    BY <1>7, <1>8 DEF CompletedKeys

\* Every step keeps the bounds.
LEMMA BoundedStep ==
    TypeOK /\ Bounded /\ [Next]_vars => Bounded'
  <1> SUFFICES ASSUME TypeOK, Bounded, [Next]_vars
               PROVE  Bounded'
    OBVIOUS
  <1>1. reassembler \in Reassembler /\ now \in Nat
    BY DEF TypeOK
  <1>2. CASE \E f \in OwnedFragment : Ingest(f)
    <2>1. PICK f \in OwnedFragment : Ingest(f)
      BY <1>2
    <2>2. /\ f.key \in Key
          /\ arrived + 1 \in PacketId
          /\ \/ CachedIngest
             \/ \E v \in EvictionChoices(reassembler, f.key) : \E result : OpenIngest(f, v, result)
      BY <2>1, IngestStep
    <2>3. CASE CachedIngest
      BY <2>3, BoundedShrinks DEF CachedIngest
    <2>4. ASSUME NEW v \in EvictionChoices(reassembler, f.key), NEW result,
                 OpenIngest(f, v, result)
          PROVE  Bounded'
      <3> DEFINE p == arrived + 1
      <3>1. \E x : Table(reassembler, reassembler', f.key, v, x)
        BY <2>4 DEF OpenIngest, CountedCase, PendingCase, CompleteCase
      <3>2. ActiveKeys(reassembler') \subseteq (ActiveKeys(reassembler) \ {v}) \cup {f.key}
        BY <3>1 DEF Table, ActiveKeys
      <3>3. Cardinality((ActiveKeys(reassembler) \ {v}) \cup {f.key}) <= MaxActive
        BY <1>1, <2>2, RoomForOne DEF Bounded
      <3>4. (ActiveKeys(reassembler) \ {v}) \cup {f.key} \subseteq Key
        BY <2>2 DEF ActiveKeys
      <3>5. Cardinality(ActiveKeys(reassembler')) <= MaxActive
        BY <3>2, <3>3, <3>4, FewerKeys
      <3>6. Cardinality(CompletedKeys(reassembler')) <= MaxActive
        <4>1. CASE \/ CountedCase(reassembler, reassembler', result, f, v)
                   \/ PendingCase(reassembler, reassembler', result, f, p, now, v)
          BY <4>1 DEF CountedCase, PendingCase, CompletedKeys, Bounded
        <4>2. CASE CompleteCase(reassembler, reassembler', result, f, p, now, v)
          <5>1. PICK x : /\ FillsSlot(reassembler, f, now, x)
                         /\ reassembler' = Complete(Evict(reassembler, v), f.key, Accept(x, f, p, now))
            BY <4>2 DEF CompleteCase
          <5>2. Accept(x, f, p, now) \in ActiveProfile
            BY <1>1, <2>2, <5>1, AcceptType DEF FillsSlot
          <5>3. v \in Key \cup {None}
            BY <1>1, <2>2, EvictionChoicesType
          <5>4. /\ Evict(reassembler, v) \in Reassembler
                /\ CompletedKeys(Evict(reassembler, v)) = CompletedKeys(reassembler)
            BY <1>1, <5>3, EvictType DEF CompletedKeys
          <5>5. QED
            BY <2>2, <5>1, <5>2, <5>4, CompleteBound DEF Bounded
        <4>3. QED
          BY <2>4, <4>1, <4>2 DEF OpenIngest
      <3>7. QED
        BY <3>5, <3>6 DEF Bounded, ActiveKeys, CompletedKeys
    <2>5. QED
      BY <2>2, <2>3, <2>4
  <1>3. CASE \E cutoff \in Time : ExpireBefore(cutoff)
    <2>1. PICK cutoff \in Time : ExpireBefore(cutoff)
      BY <1>3
    <2>2. cutoff \in Nat
      BY CallerAssumption
    <2>3. /\ \A k \in Key : reassembler'.active[k] \in {None, reassembler.active[k]}
          /\ \A k \in Key : reassembler'.completed[k] \in {reassembler.completed[k], None}
      BY <1>1, <2>1, <2>2, ExpireType DEF ExpireBefore
    <2>4. QED
      BY <2>3, BoundedShrinks
  <1>4. CASE DrainIncomplete
    BY <1>1, <1>4, DrainType, BoundedShrinks DEF DrainIncomplete
  <1>5. CASE \E k \in Key : Discard(k)
    BY <1>1, <1>5, DiscardType, BoundedShrinks DEF Discard
  <1>6. CASE \E k \in Key, duplicates, conflicts \in Count :
               RestoreReceiverCounts(k, duplicates, conflicts)
    <2>1. PICK k \in Key, m \in Count, n \in Count : RestoreReceiverCounts(k, m, n)
      BY <1>6
    <2>2. contains_active(reassembler, k)
      BY <2>1 DEF RestoreReceiverCounts
    <2>3. /\ reassembler'.completed = reassembler.completed
          /\ \A j \in Key : j # k => reassembler'.active[j] = reassembler.active[j]
      BY <1>1, <2>1, <2>2, RestoreType DEF RestoreReceiverCounts
    <2>4. QED
      BY <2>2, <2>3, BoundedShrinks DEF contains_active
  <1>7. CASE Tick \/ UNCHANGED vars
    BY <1>7, BoundedShrinks DEF Tick, vars
  <1>8. QED
    BY <1>2, <1>3, <1>4, <1>5, <1>6, <1>7 DEF Next

-----------------------------------------------------------------------------
(***************************************************************************)
(* First copy wins: an action property.                                    *)
(***************************************************************************)

\* Every step keeps the evidence of each scan that stays in the table.
LEMMA EvidenceStep ==
    TypeOK /\ [Next]_vars => \A k \in Key : EvidenceGrows(k)
  <1> SUFFICES ASSUME TypeOK, [Next]_vars, NEW k \in Key,
                      reassembler.active[k] # None, reassembler'.active[k] # None
               PROVE  LET x == reassembler.active[k]
                          y == reassembler'.active[k]
                      IN /\ y.metadata = x.metadata
                         /\ \A i \in Received(x.fragments) : y.fragments[i] = x.fragments[i]
                         /\ x.duplicates <= y.duplicates
                         /\ x.conflicts <= y.conflicts
    BY DEF EvidenceGrows
  <1> DEFINE x == reassembler.active[k]
             y == reassembler'.active[k]
             Grows == /\ y.metadata = x.metadata
                      /\ \A i \in Received(x.fragments) : y.fragments[i] = x.fragments[i]
                      /\ x.duplicates <= y.duplicates
                      /\ x.conflicts <= y.conflicts
  <1>1. reassembler \in Reassembler /\ now \in Nat
    BY DEF TypeOK
  <1>2. x \in ActiveProfile
    BY <1>1 DEF Reassembler
  <1>3. x.duplicates \in Nat /\ x.conflicts \in Nat
    BY <1>2, ReassemblyAssumption DEF ActiveProfile, Count
  <1>4. y = x => Grows
    BY <1>3
  <1>5. CASE \E f \in OwnedFragment : Ingest(f)
    <2>1. PICK f \in OwnedFragment : Ingest(f)
      BY <1>5
    <2>2. /\ f.key \in Key
          /\ arrived + 1 \in PacketId
          /\ \/ CachedIngest
             \/ \E v \in EvictionChoices(reassembler, f.key) : \E result : OpenIngest(f, v, result)
      BY <2>1, IngestStep
    <2>3. CASE CachedIngest
      BY <1>4, <2>3 DEF CachedIngest
    <2>4. ASSUME NEW v \in EvictionChoices(reassembler, f.key), NEW result,
                 OpenIngest(f, v, result)
          PROVE  Grows
      <3> DEFINE p == arrived + 1
      <3>1. CASE k # f.key
        <4>1. \E z : Table(reassembler, reassembler', f.key, v, z)
          BY <2>4 DEF OpenIngest, CountedCase, PendingCase, CompleteCase
        <4>2. y = x
          BY <3>1, <4>1 DEF Table
        <4>3. QED
          BY <1>4, <4>2
      <3>2. CASE k = f.key
        <4>1. CASE CountedCase(reassembler, reassembler', result, f, v)
          <5>1. PICK verdict : y = Counted(x, verdict)
            BY <3>2, <4>1 DEF CountedCase, Table
          <5>2. QED
            BY <1>2, <5>1, CountedType
        <4>2. CASE PendingCase(reassembler, reassembler', result, f, p, now, v)
          <5>1. x.fragments[f.fragment_index] = None /\ y = Accept(x, f, p, now)
            BY <3>2, <4>2 DEF PendingCase, Table, FillsSlot, contains_active
          <5>2. /\ y.metadata = x.metadata
                /\ y.duplicates = x.duplicates
                /\ y.conflicts = x.conflicts
            BY <1>1, <1>2, <2>2, <5>1, AcceptType
          <5>3. \A i \in Index : i # f.fragment_index => y.fragments[i] = x.fragments[i]
            <6>1. p \in PacketId
              BY <2>2
            <6> HIDE DEF x, y, p
            <6>2. LET fragments == Accept(x, f, p, now).fragments
                  IN /\ Received(fragments) = Received(x.fragments) \cup {f.fragment_index}
                     /\ fragments[f.fragment_index] = [fragment |-> f, packet |-> p]
                     /\ \A i \in Index : i # f.fragment_index => fragments[i] = x.fragments[i]
              BY <1>1, <1>2, <6>1, ReceivedAccept
            <6>3. QED
              BY <5>1, <6>2
          <5>4. \A i \in Received(x.fragments) : i \in Index /\ i # f.fragment_index
            BY <5>1 DEF Received
          <5>5. QED
            BY <1>3, <5>2, <5>3, <5>4
        <4>3. CASE CompleteCase(reassembler, reassembler', result, f, p, now, v)
          BY <3>2, <4>3 DEF CompleteCase, Table
        <4>4. QED
          BY <2>4, <4>1, <4>2, <4>3 DEF OpenIngest
      <3>3. QED
        BY <3>1, <3>2
    <2>5. QED
      BY <2>2, <2>3, <2>4
  <1>6. CASE \E cutoff \in Time : ExpireBefore(cutoff)
    <2>1. PICK cutoff \in Time : ExpireBefore(cutoff)
      BY <1>6
    <2>2. cutoff \in Nat
      BY CallerAssumption
    <2>3. y = x
      BY <1>1, <2>1, <2>2, ExpireType DEF ExpireBefore
    <2>4. QED
      BY <1>4, <2>3
  <1>7. CASE DrainIncomplete
    BY <1>1, <1>7, DrainType DEF DrainIncomplete
  <1>8. CASE \E j \in Key : Discard(j)
    <2>1. y = x
      BY <1>1, <1>8, DiscardType DEF Discard
    <2>2. QED
      BY <1>4, <2>1
  <1>9. CASE \E j \in Key, duplicates, conflicts \in Count :
               RestoreReceiverCounts(j, duplicates, conflicts)
    <2>1. PICK j \in Key, m \in Count, n \in Count : RestoreReceiverCounts(j, m, n)
      BY <1>9
    <2>2. contains_active(reassembler, j)
      BY <2>1 DEF RestoreReceiverCounts
    <2>3. CASE j # k
      <3>1. y = x
        BY <1>1, <2>1, <2>2, <2>3, RestoreType DEF RestoreReceiverCounts
      <3>2. QED
        BY <1>4, <3>1
    <2>4. CASE j = k
      BY <1>1, <2>1, <2>2, <2>4, RestoreType DEF RestoreReceiverCounts
    <2>5. QED
      BY <2>3, <2>4
  <1>10. CASE Tick \/ UNCHANGED vars
    <2>1. y = x
      BY <1>10 DEF Tick, vars
    <2>2. QED
      BY <1>4, <2>1
  <1>11. QED
    BY <1>5, <1>6, <1>7, <1>8, <1>9, <1>10 DEF Next

\* reassembly.rs:243-278: the first copy of a fragment wins.  No call replaces or
\* empties a filled slot of a scan that stays in the table, or lowers its taint.
THEOREM FirstCopy == Spec => FirstCopyWins
  <1>1. TypeOK /\ [Next]_vars => [\A k \in Key : EvidenceGrows(k)]_vars
    BY EvidenceStep
  <1>2. QED
    BY <1>1, TypeCorrect, PTL DEF Spec, FirstCopyWins

-----------------------------------------------------------------------------
(***************************************************************************)
(* No packet is lost: the books that NothingLost keeps, as a ledger of the *)
(* packets each place in the table holds, of those accepted and of those   *)
(* released, after n packets.  A packet is entered once and moves once.    *)
(***************************************************************************)
HeldBy(r) ==
    [k \in Key |-> IF r.active[k] = None THEN {} ELSE Packets(r.active[k].fragments)]

Ledger(h, acc, rel, n) ==
    /\ acc \subseteq 1 .. n
    /\ \A q : q \in acc <=> (q \in rel \/ \E k \in Key : q \in h[k])
    /\ \A k \in Key : \A q \in h[k] : q \notin rel
    /\ \A k, j \in Key : k # j => \A q \in h[k] : q \notin h[j]

\* NothingLost is the ledger of the state.
LEMMA LedgerIff ==
    NothingLost <=> Ledger(HeldBy(reassembler), accepted, released, arrived)
  <1> DEFINE h == HeldBy(reassembler)
  <1>1. \A k \in Key : h[k] = IF k \in ActiveKeys(reassembler)
                              THEN Packets(reassembler.active[k].fragments) ELSE {}
    BY DEF HeldBy, ActiveKeys
  <1>2. \A q : q \in Held <=> \E k \in ActiveKeys(reassembler) :
                                 q \in Packets(reassembler.active[k].fragments)
    BY DEF Held
  <1>3. ActiveKeys(reassembler) \subseteq Key
    BY DEF ActiveKeys
  <1> HIDE DEF h
  <1>4. \A q : q \in Held <=> \E k \in Key : q \in h[k]
    BY <1>1, <1>2, <1>3
  <1>5. (accepted = Held \cup released) <=>
           \A q : q \in accepted <=> (q \in released \/ \E k \in Key : q \in h[k])
    BY <1>4
  <1>6. (Held \cap released = {}) <=> \A k \in Key : \A q \in h[k] : q \notin released
    BY <1>4
  <1>7. (\A k, j \in ActiveKeys(reassembler) : k # j =>
            Packets(reassembler.active[k].fragments)
               \cap Packets(reassembler.active[j].fragments) = {})
        <=> \A k, j \in Key : k # j => \A q \in h[k] : q \notin h[j]
    BY <1>1, <1>3
  <1>8. QED
    BY <1>5, <1>6, <1>7 DEF NothingLost, Ledger, h

\* The same of the state after a step.
LEMMA LedgerIffNext ==
    NothingLost' <=> Ledger(HeldBy(reassembler'), accepted', released', arrived')
  <1> DEFINE h == HeldBy(reassembler')
  <1>1. \A k \in Key : h[k] = IF k \in ActiveKeys(reassembler')
                              THEN Packets(reassembler'.active[k].fragments) ELSE {}
    BY DEF HeldBy, ActiveKeys
  <1>2. \A q : q \in Held' <=> \E k \in ActiveKeys(reassembler') :
                                 q \in Packets(reassembler'.active[k].fragments)
    BY DEF Held, ActiveKeys, Packets, Received
  <1>3. ActiveKeys(reassembler') \subseteq Key
    BY DEF ActiveKeys
  <1> HIDE DEF h
  <1>4. \A q : q \in Held' <=> \E k \in Key : q \in h[k]
    BY <1>1, <1>2, <1>3
  <1>5. (accepted' = Held' \cup released') <=>
           \A q : q \in accepted' <=> (q \in released' \/ \E k \in Key : q \in h[k])
    BY <1>4
  <1>6. (Held' \cap released' = {}) <=> \A k \in Key : \A q \in h[k] : q \notin released'
    BY <1>4
  <1>7. (\A k, j \in ActiveKeys(reassembler') : k # j =>
            Packets(reassembler'.active[k].fragments)
               \cap Packets(reassembler'.active[j].fragments) = {})
        <=> \A k, j \in Key : k # j => \A q \in h[k] : q \notin h[j]
    BY <1>1, <1>3
  <1>8. NothingLost' <=>
           /\ accepted' \subseteq 1 .. arrived'
           /\ accepted' = Held' \cup released'
           /\ Held' \cap released' = {}
           /\ \A k, j \in ActiveKeys(reassembler') : k # j =>
                 Packets(reassembler'.active[k].fragments)
                    \cap Packets(reassembler'.active[j].fragments) = {}
    BY DEF NothingLost, ActiveKeys, Packets, Received
  <1>9. QED
    BY <1>5, <1>6, <1>7, <1>8 DEF Ledger, h

\* A packet arrives and is not accepted.
LEMMA LedgerArrive ==
    ASSUME NEW h, NEW acc, NEW rel, NEW n \in Nat, Ledger(h, acc, rel, n)
    PROVE  Ledger(h, acc, rel, n + 1)
  <1>1. acc \subseteq 1 .. n + 1
    BY DEF Ledger
  <1>2. QED
    BY <1>1 DEF Ledger

\* A packet arrives and fills a slot of scan k.
LEMMA LedgerAccept ==
    ASSUME NEW h, NEW acc, NEW rel, NEW n \in Nat, Ledger(h, acc, rel, n),
           NEW k \in Key, NEW g,
           \A j \in Key : g[j] = IF j = k THEN h[j] \cup {n + 1} ELSE h[j]
    PROVE  Ledger(g, acc \cup {n + 1}, rel, n + 1)
  <1> DEFINE p == n + 1
  <1>1. p \notin acc
    BY DEF Ledger
  <1>2. acc \cup {p} \subseteq 1 .. p
    BY DEF Ledger
  <1>3. p \notin rel /\ \A j \in Key : p \notin h[j]
    BY <1>1 DEF Ledger
  <1> HIDE DEF p
  <1>4. \A j \in Key : g[j] = IF j = k THEN h[j] \cup {p} ELSE h[j]
    BY DEF p
  <1>5. \A q : q \in acc \cup {p} <=> (q \in rel \/ \E j \in Key : q \in g[j])
    BY <1>4 DEF Ledger
  <1>6. \A j \in Key : \A q \in g[j] : q \notin rel
    BY <1>3, <1>4 DEF Ledger
  <1>7. \A i, j \in Key : i # j => \A q \in g[i] : q \notin g[j]
    <2> SUFFICES ASSUME NEW i \in Key, NEW j \in Key, i # j, NEW q \in g[i]
                 PROVE  q \notin g[j]
      OBVIOUS
    <2>1. q \in h[i] => q \notin h[j]
      BY DEF Ledger
    <2>2. CASE i = k
      <3>1. g[j] = h[j] /\ q \in h[i] \cup {p}
        BY <1>4, <2>2
      <3>2. QED
        BY <1>3, <2>1, <3>1
    <2>3. CASE i # k
      <3>1. q \in h[i] /\ g[j] \subseteq h[j] \cup {p}
        BY <1>4, <2>3
      <3>2. QED
        BY <1>3, <2>1, <3>1
    <2>4. QED
      BY <2>2, <2>3
  <1>8. QED
    BY <1>2, <1>5, <1>6, <1>7 DEF Ledger, p

\* The scans of a set of keys leave the table and their packets are released.
LEMMA LedgerRelease ==
    ASSUME NEW h, NEW acc, NEW rel, NEW n, Ledger(h, acc, rel, n),
           NEW G \in SUBSET Key, NEW g, NEW new,
           \A j \in Key : g[j] = IF j \in G THEN {} ELSE h[j],
           \A q : q \in new <=> (q \in rel \/ \E j \in G : q \in h[j])
    PROVE  Ledger(g, acc, new, n)
  <1>1. \A q : q \in acc <=> (q \in new \/ \E j \in Key : q \in g[j])
    BY DEF Ledger
  <1>2. \A j \in Key : \A q \in g[j] : q \notin new
    BY DEF Ledger
  <1>3. \A i, j \in Key : i # j => \A q \in g[i] : q \notin g[j]
    BY DEF Ledger
  <1>4. QED
    BY <1>1, <1>2, <1>3 DEF Ledger

\* The packets handed back with a set of scans taken from the table.
LEMMA FinishAllPackets ==
    ASSUME NEW r \in Reassembler, NEW keys \in SUBSET ActiveKeys(r)
    PROVE  \A q : q \in PacketsOf(FinishAll(r, keys)) <=> \E k \in keys : q \in HeldBy(r)[k]
  <1>1. \A k \in keys : /\ k \in Key
                         /\ r.active[k] # None
                         /\ r.active[k] \in ActiveProfile
    BY DEF ActiveKeys, Reassembler
  <1>2. \A k \in keys : HeldBy(r)[k] = Packets(finish(k, r.active[k]).fragments)
    BY <1>1, FinishType DEF HeldBy
  <1>3. \A q : q \in PacketsOf(FinishAll(r, keys)) <=>
                 \E k \in keys : q \in Packets(finish(k, r.active[k]).fragments)
    BY DEF PacketsOf, FinishAll
  <1>4. QED
    BY <1>2, <1>3

\* The packets of the scan evicted by an ingest, if any.
LEMMA EvictedPackets ==
    ASSUME NEW r \in Reassembler, NEW k \in Key, NEW v \in EvictionChoices(r, k)
    PROVE  \A q : q \in PacketsOf({Evicted(r, v)} \ {None}) <=>
                   v \in Key /\ q \in HeldBy(r)[v]
  <1>1. \/ v = None /\ Evicted(r, v) = None
        \/ /\ v \in Key
           /\ r.active[v] # None
           /\ Evicted(r, v) # None
           /\ Evicted(r, v).fragments = r.active[v].fragments
    BY EvictedType DEF ActiveKeys
  <1>2. CASE v = None /\ Evicted(r, v) = None
    BY <1>2, ReassemblyAssumption DEF PacketsOf
  <1>3. CASE /\ v \in Key
             /\ r.active[v] # None
             /\ Evicted(r, v) # None
             /\ Evicted(r, v).fragments = r.active[v].fragments
    <2>1. HeldBy(r)[v] = Packets(r.active[v].fragments)
      BY <1>3 DEF HeldBy
    <2>2. PacketsOf({Evicted(r, v)} \ {None}) = Packets(Evicted(r, v).fragments)
      BY <1>3 DEF PacketsOf
    <2>3. QED
      BY <1>3, <2>1, <2>2
  <1>4. QED
    BY <1>1, <1>2, <1>3

\* An ingest keeps the ledger: it releases the victim's packets, and enters its own
\* packet if that filled a slot.
LEMMA IngestLedger ==
    ASSUME TypeOK, NothingLost, NEW f \in OwnedFragment, Ingest(f)
    PROVE  NothingLost'
  <1> DEFINE p == arrived + 1
             h == HeldBy(reassembler)
             g == HeldBy(reassembler')
  <1>1. reassembler \in Reassembler /\ now \in Nat /\ arrived \in Nat
    BY DEF TypeOK
  <1>2. /\ f.key \in Key
        /\ p \in PacketId
        /\ arrived' = p
        /\ reassembler' \in Reassembler
        /\ \/ CachedIngest
           \/ \E v \in EvictionChoices(reassembler, f.key) : \E result : OpenIngest(f, v, result)
    BY IngestStep
  <1>3. Ledger(h, accepted, released, arrived)
    BY LedgerIff
  <1>4. SUFFICES Ledger(g, accepted', released', p)
    BY <1>2, LedgerIffNext
  <1>5. CASE CachedIngest
    <2>1. Ledger(h, accepted, released, p)
      BY <1>1, <1>3, LedgerArrive
    <2>2. QED
      BY <1>5, <2>1 DEF CachedIngest
  <1>6. ASSUME NEW v \in EvictionChoices(reassembler, f.key), NEW result,
               OpenIngest(f, v, result)
        PROVE  Ledger(g, accepted', released', p)
    <2> DEFINE G   == {v} \cap Key
               mid == [j \in Key |-> IF j \in G THEN {} ELSE h[j]]
               rel == released \cup PacketsOf({result.evicted} \ {None})
    <2>1. \/ v = None
          \/ v \in Key /\ v # f.key /\ ~ contains_active(reassembler, f.key)
      BY <1>1, <1>2, EvictedType
    <2>2. v # f.key
      BY <1>2, <2>1, ReassemblyAssumption
    <2>3. \A q : q \in rel <=> (q \in released \/ \E j \in G : q \in h[j])
      <3>1. \A q : q \in PacketsOf({result.evicted} \ {None}) <=> v \in Key /\ q \in h[v]
        BY <1>1, <1>2, <1>6, EvictedPackets DEF OpenIngest
      <3> HIDE DEF h
      <3>2. QED
        BY <3>1
    <2>4. Ledger(mid, accepted, rel, arrived)
      <3> HIDE DEF h, rel
      <3>1. \A j \in Key : mid[j] = IF j \in G THEN {} ELSE h[j]
        OBVIOUS
      <3>2. G \in SUBSET Key
        OBVIOUS
      <3> HIDE DEF mid, G
      <3>3. QED
        BY <1>3, <2>3, <3>1, <3>2, LedgerRelease
    <2>5. ASSUME NEW x, Table(reassembler, reassembler', f.key, v, x)
          PROVE  /\ \A j \in Key : j # f.key => g[j] = mid[j]
                 /\ g[f.key] = IF x = None THEN {} ELSE Packets(x.fragments)
      BY <1>2, <2>2, <2>5 DEF Table, HeldBy
    <2>6. mid[f.key] = h[f.key]
      BY <1>2, <2>2
    <2>7. CASE CountedCase(reassembler, reassembler', result, f, v)
      <3>1. PICK verdict : Table(reassembler, reassembler', f.key, v,
                                 Counted(reassembler.active[f.key], verdict))
        BY <2>7 DEF CountedCase
      <3> DEFINE x == Counted(reassembler.active[f.key], verdict)
      <3>2. /\ reassembler.active[f.key] # None
            /\ reassembler.active[f.key] \in ActiveProfile
        BY <1>1, <1>2, <2>7 DEF CountedCase, contains_active, Reassembler
      <3>3. x \in ActiveProfile /\ x.fragments = reassembler.active[f.key].fragments
        BY <3>2, CountedType
      <3>4. x # None
        BY <3>3, NoneAssumption
      <3>5. h[f.key] = Packets(x.fragments)
        BY <1>2, <3>2, <3>3 DEF HeldBy
      <3> HIDE DEF x
      <3>6. Table(reassembler, reassembler', f.key, v, x)
        BY <3>1 DEF x
      <3>7. g[f.key] = h[f.key]
        BY <2>5, <3>4, <3>5, <3>6
      <3>8. \A j \in Key : g[j] = mid[j]
        BY <2>5, <2>6, <3>6, <3>7
      <3>9. g = mid
        BY <3>8 DEF HeldBy
      <3>10. accepted' = accepted /\ released' = rel
        BY <1>6, <2>7 DEF OpenIngest, CountedCase, Returned
      <3> HIDE DEF g, mid, rel
      <3>11. QED
        BY <1>1, <2>4, <3>9, <3>10, LedgerArrive
    <2>8. ASSUME NEW x, FillsSlot(reassembler, f, now, x)
          PROVE  /\ Packets(Accept(x, f, p, now).fragments) = h[f.key] \cup {p}
                 /\ Accept(x, f, p, now) \in ActiveProfile
                 /\ Accept(x, f, p, now) # None
      <3>1. /\ x \in ActiveProfile
            /\ x.fragments[f.fragment_index] = None
        BY <2>8 DEF FillsSlot
      <3>2. Packets(Accept(x, f, p, now).fragments) = Packets(x.fragments) \cup {p}
        BY <1>1, <1>2, <3>1, PacketsAccept
      <3>3. Packets(x.fragments) = h[f.key]
        <4>1. CASE contains_active(reassembler, f.key)
          BY <1>2, <2>8, <4>1 DEF FillsSlot, contains_active, HeldBy
        <4>2. CASE ~ contains_active(reassembler, f.key)
          <5>1. Received(x.fragments) = {}
            BY <1>1, <2>8, <4>2, NewActiveType DEF FillsSlot
          <5>2. Packets(x.fragments) = {}
            BY <5>1 DEF Packets
          <5>3. h[f.key] = {}
            BY <1>2, <4>2 DEF contains_active, HeldBy
          <5>4. QED
            BY <5>2, <5>3
        <4>3. QED
          BY <4>1, <4>2
      <3>4. Accept(x, f, p, now) \in ActiveProfile
        BY <1>1, <1>2, <3>1, AcceptType
      <3>5. QED
        BY <3>2, <3>3, <3>4, NoneAssumption
    <2>9. CASE PendingCase(reassembler, reassembler', result, f, p, now, v)
      <3>1. PICK x : /\ FillsSlot(reassembler, f, now, x)
                     /\ Table(reassembler, reassembler', f.key, v, Accept(x, f, p, now))
        BY <2>9 DEF PendingCase
      <3>2. g[f.key] = h[f.key] \cup {p}
        BY <2>5, <2>8, <3>1
      <3>3. \A j \in Key : g[j] = IF j = f.key THEN mid[j] \cup {arrived + 1} ELSE mid[j]
        BY <2>5, <2>6, <3>1, <3>2
      <3>4. accepted' = accepted \cup {arrived + 1} /\ released' = rel
        BY <1>6, <2>9 DEF OpenIngest, PendingCase, Returned
      <3> HIDE DEF g, mid, rel
      <3>5. QED
        BY <1>1, <1>2, <2>4, <3>3, <3>4, LedgerAccept
    <2>10. CASE CompleteCase(reassembler, reassembler', result, f, p, now, v)
      <3>1. PICK x : /\ FillsSlot(reassembler, f, now, x)
                     /\ result.profile = finish(f.key, Accept(x, f, p, now))
                     /\ Table(reassembler, reassembler', f.key, v, None)
        BY <2>10 DEF CompleteCase
      <3> DEFINE full == [mid EXCEPT ![f.key] = mid[f.key] \cup {arrived + 1}]
      <3>2. \A j \in Key : full[j] = IF j = f.key THEN mid[j] \cup {arrived + 1} ELSE mid[j]
        OBVIOUS
      <3>3. Ledger(full, accepted \cup {arrived + 1}, rel, arrived + 1)
        <4> HIDE DEF full, mid, rel
        <4>1. QED
          BY <1>1, <1>2, <2>4, <3>2, LedgerAccept
      <3>4. \A j \in Key : g[j] = IF j \in {f.key} THEN {} ELSE full[j]
        BY <2>5, <3>1, <3>2
      <3>5. full[f.key] = h[f.key] \cup {p}
        BY <1>2, <2>6, <3>2
      <3>6. /\ result.profile # None
            /\ Packets(result.profile.fragments) = full[f.key]
        <4> DEFINE y == Accept(x, f, p, now)
        <4>1. y \in ActiveProfile /\ Packets(y.fragments) = h[f.key] \cup {p}
          BY <2>8, <3>1
        <4>2. result.profile = finish(f.key, y)
          BY <3>1
        <4> HIDE DEF y, full, h
        <4>3. finish(f.key, y) # None /\ finish(f.key, y).fragments = y.fragments
          BY <1>2, <4>1, FinishType
        <4>4. QED
          BY <3>5, <4>1, <4>2, <4>3
      <3>7. PacketsOf(Returned(result)) =
               Packets(result.profile.fragments) \cup PacketsOf({result.evicted} \ {None})
        BY <3>6 DEF PacketsOf, Returned
      <3>8. released' = rel \cup full[f.key]
        BY <1>6, <3>6, <3>7 DEF OpenIngest
      <3>9. accepted' = accepted \cup {arrived + 1}
        BY <1>6, <2>10 DEF OpenIngest, CompleteCase
      <3> HIDE DEF full, g, mid, rel
      <3>10. \A q : q \in released' <=> (q \in rel \/ \E j \in {f.key} : q \in full[j])
        BY <3>8
      <3>11. {f.key} \in SUBSET Key
        BY <1>2
      <3>12. Ledger(g, accepted \cup {arrived + 1}, released', arrived + 1)
        BY <3>3, <3>4, <3>10, <3>11, LedgerRelease
      <3>13. QED
        BY <3>9, <3>12
    <2>11. QED
      BY <1>6, <2>7, <2>9, <2>10 DEF OpenIngest
  <1>7. QED
    BY <1>2, <1>5, <1>6

\* Every step keeps the ledger.
LEMMA LostStep ==
    TypeOK /\ NothingLost /\ [Next]_vars => NothingLost'
  <1> SUFFICES ASSUME TypeOK, NothingLost, [Next]_vars
               PROVE  NothingLost'
    OBVIOUS
  <1> DEFINE h == HeldBy(reassembler)
             g == HeldBy(reassembler')
  <1>1. reassembler \in Reassembler
    BY DEF TypeOK
  <1>2. Ledger(h, accepted, released, arrived)
    BY LedgerIff
  <1>3. ASSUME NEW G \in SUBSET Key,
               accepted' = accepted, arrived' = arrived,
               \A j \in Key : reassembler'.active[j] =
                               IF j \in G THEN None ELSE reassembler.active[j],
               \A q : q \in released' <=> (q \in released \/ \E j \in G : q \in h[j])
        PROVE  NothingLost'
    <2>1. \A j \in Key : g[j] = IF j \in G THEN {} ELSE h[j]
      BY <1>3 DEF HeldBy
    <2> HIDE DEF g, h
    <2>2. Ledger(g, accepted, released', arrived)
      BY <1>2, <1>3, <2>1, LedgerRelease
    <2>3. QED
      BY <1>3, <2>2, LedgerIffNext DEF g
  <1>4. CASE \E f \in OwnedFragment : Ingest(f)
    BY <1>4, IngestLedger
  <1>5. CASE \E cutoff \in Time : ExpireBefore(cutoff)
    <2>1. PICK cutoff \in Time : ExpireBefore(cutoff)
      BY <1>5
    <2> DEFINE G == ExpiredKeys(reassembler, cutoff)
    <2>2. cutoff \in Nat
      BY CallerAssumption
    <2>3. /\ G \subseteq ActiveKeys(reassembler)
          /\ G \in SUBSET Key
          /\ \A j \in Key : reassembler'.active[j] =
                              IF j \in G THEN None ELSE reassembler.active[j]
      BY <1>1, <2>1, <2>2, ExpireType DEF ExpireBefore, ExpiredKeys, ActiveKeys
    <2>4. \A q : q \in PacketsOf(FinishAll(reassembler, G)) <=> \E k \in G : q \in h[k]
      BY <1>1, <2>3, FinishAllPackets
    <2>5. /\ released' = released \cup PacketsOf(FinishAll(reassembler, G))
          /\ accepted' = accepted
          /\ arrived' = arrived
      BY <2>1 DEF ExpireBefore
    <2> HIDE DEF G, h
    <2>6. \A q : q \in released' <=> (q \in released \/ \E j \in G : q \in h[j])
      BY <2>4, <2>5
    <2>7. QED
      BY <1>3, <2>3, <2>5, <2>6
  <1>6. CASE DrainIncomplete
    <2> DEFINE G == ActiveKeys(reassembler)
    <2>1. /\ G \in SUBSET Key
          /\ \A j \in Key : reassembler'.active[j] =
                              IF j \in G THEN None ELSE reassembler.active[j]
      BY <1>1, <1>6, DrainType DEF DrainIncomplete, ActiveKeys
    <2>2. \A q : q \in PacketsOf(FinishAll(reassembler, G)) <=> \E k \in G : q \in h[k]
      BY <1>1, FinishAllPackets
    <2>3. /\ released' = released \cup PacketsOf(FinishAll(reassembler, G))
          /\ accepted' = accepted
          /\ arrived' = arrived
      BY <1>6 DEF DrainIncomplete
    <2> HIDE DEF G, h
    <2>4. \A q : q \in released' <=> (q \in released \/ \E j \in G : q \in h[j])
      BY <2>2, <2>3
    <2>5. QED
      BY <1>3, <2>1, <2>3, <2>4
  <1>7. CASE \E k \in Key : Discard(k)
    <2>1. PICK k \in Key : Discard(k)
      BY <1>7
    <2>2. \A j \in Key : reassembler'.active[j] =
                          IF j \in {k} THEN None ELSE reassembler.active[j]
      BY <1>1, <2>1, DiscardType DEF Discard
    <2>3. /\ released' = released \cup h[k]
          /\ accepted' = accepted
          /\ arrived' = arrived
      BY <2>1 DEF Discard, contains_active, HeldBy
    <2> HIDE DEF h
    <2>4. \A q : q \in released' <=> (q \in released \/ \E j \in {k} : q \in h[j])
      BY <2>3
    <2>5. QED
      BY <1>3, <2>2, <2>3, <2>4
  <1>8. CASE \E k \in Key, duplicates, conflicts \in Count :
               RestoreReceiverCounts(k, duplicates, conflicts)
    <2>1. PICK k \in Key, m \in Count, n \in Count : RestoreReceiverCounts(k, m, n)
      BY <1>8
    <2>2. contains_active(reassembler, k)
      BY <2>1 DEF RestoreReceiverCounts
    <2>3. /\ \A j \in Key : j # k => reassembler'.active[j] = reassembler.active[j]
          /\ reassembler'.active[k] \in ActiveProfile
          /\ reassembler'.active[k].fragments = reassembler.active[k].fragments
      BY <1>1, <2>1, <2>2, RestoreType DEF RestoreReceiverCounts
    <2>4. reassembler'.active[k] # None /\ reassembler.active[k] # None
      BY <2>2, <2>3, NoneAssumption DEF contains_active
    <2>5. \A j \in Key : g[j] = h[j]
      BY <2>3, <2>4 DEF HeldBy
    <2>6. g = h
      BY <2>5 DEF HeldBy
    <2>7. accepted' = accepted /\ released' = released /\ arrived' = arrived
      BY <2>1 DEF RestoreReceiverCounts
    <2> HIDE DEF g, h
    <2>8. QED
      BY <1>2, <2>6, <2>7, LedgerIffNext DEF g
  <1>9. CASE Tick \/ UNCHANGED vars
    <2>1. /\ reassembler' = reassembler
          /\ accepted' = accepted /\ released' = released /\ arrived' = arrived
      BY <1>9 DEF Tick, vars
    <2>2. QED
      BY <1>2, <2>1, LedgerIffNext
  <1>10. QED
    BY <1>4, <1>5, <1>6, <1>7, <1>8, <1>9 DEF Next

-----------------------------------------------------------------------------
(***************************************************************************)
(* The inductive invariant and the safety theorems.                        *)
(***************************************************************************)
IInv ==
    /\ TypeOK
    /\ Bounded
    /\ ActivePartial
    /\ CacheExclusive
    /\ HandedConsistent
    /\ NothingLost

\* The invariant holds of the reassembler that with_capacity makes.
LEMMA InitIInv == Init => IInv
  <1> SUFFICES ASSUME Init
               PROVE  IInv
    OBVIOUS
  <1>1. ActiveKeys(reassembler) = {} /\ CompletedKeys(reassembler) = {}
    BY DEF Init, EmptyReassembler, ActiveKeys, CompletedKeys
  <1>2. TypeOK
    BY ReassemblyAssumption DEF Init, TypeOK, EmptyReassembler, Reassembler
  <1>3. Bounded
    BY <1>1, FS_EmptySet, ReassemblyAssumption DEF Bounded
  <1>4. ActivePartial /\ CacheExclusive
    BY <1>1 DEF ActivePartial, CacheExclusive
  <1>5. HandedConsistent
    BY DEF Init, HandedConsistent
  <1>6. NothingLost
    BY <1>1 DEF Init, NothingLost, Held
  <1>7. QED
    BY <1>2, <1>3, <1>4, <1>5, <1>6 DEF IInv

\* The invariant is inductive.
LEMMA NextIInv == IInv /\ [Next]_vars => IInv'
  BY TypeStep, BoundedStep, PartialStep, CacheStep, LostStep DEF IInv

\* The invariant holds in every state.
THEOREM Safety == Spec => []IInv
  BY InitIInv, NextIInv, PTL DEF Spec

\* reassembly.rs:155, 226-237: never more than MaxActive scans in the table, nor
\* more than MaxActive in the duplicate cache, whatever arrives.
THEOREM MemoryBounded == Spec => []Bounded
  <1>1. IInv => Bounded
    BY DEF IInv
  <1>2. QED
    BY <1>1, Safety, PTL

\* reassembly.rs:243-305: a scan in the table is never empty, whole, or mixed with
\* another.
THEOREM ScansNeverMix == Spec => []ActivePartial
  <1>1. IInv => ActivePartial
    BY DEF IInv
  <1>2. QED
    BY <1>1, Safety, PTL

\* reassembly.rs:208-224: a scan the cache remembers is not reassembled again.
THEOREM CacheStaysExclusive == Spec => []CacheExclusive
  <1>1. IInv => CacheExclusive
    BY DEF IInv
  <1>2. QED
    BY <1>1, Safety, PTL

\* reassembly.rs:486-525: what a caller is handed has at least one source and only
\* fragments of its own scan.
THEOREM HandedSound == Spec => []HandedConsistent
  <1>1. IInv => HandedConsistent
    BY DEF IInv
  <1>2. QED
    BY <1>1, Safety, PTL

\* No accepted packet is lost or reported twice, through any order of eviction,
\* expiry, completion, draining and discarding.
THEOREM NoPacketLost == Spec => []NothingLost
  <1>1. IInv => NothingLost
    BY DEF IInv
  <1>2. QED
    BY <1>1, Safety, PTL

=============================================================================
