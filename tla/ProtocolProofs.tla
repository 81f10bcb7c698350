--------------------------- MODULE ProtocolProofs ---------------------------
(***************************************************************************)
(* Proofs about the codec of ProtocolV2 and the two specifications over    *)
(* it: WireV2, for any records, any alterations and any number of them,    *)
(* and AnalysisGate, for any scans and configurations of a node; and about *)
(* TemporalFeatures, for any set of series and boots and any width of the  *)
(* sequence number.                                                        *)
(***************************************************************************)
EXTENDS WireV2, AnalysisGate, TemporalFeatures, FiniteSetTheorems, SequenceTheorems, TLAPS

-----------------------------------------------------------------------------
(***************************************************************************)
(* InOrder.                                                                *)
(***************************************************************************)
Rank(S, s) == Cardinality({t \in S : t < s})

\* A step has fewer steps before it than there are, and fewer than a later one.
LEMMA RankBounds ==
    ASSUME NEW S \in SUBSET Nat, IsFiniteSet(S), NEW s \in S
    PROVE  /\ Rank(S, s) \in 0 .. Cardinality(S) - 1
           /\ \A t \in S : s < t => Rank(S, s) < Rank(S, t)
<1> DEFINE Below(t) == {u \in S : u < t}
<1>1. \A t \in S : /\ IsFiniteSet(Below(t)) /\ Cardinality(Below(t)) \in Nat
                   /\ Rank(S, t) = Cardinality(Below(t))
    <2> SUFFICES ASSUME NEW t \in S
                 PROVE  /\ IsFiniteSet(Below(t)) /\ Cardinality(Below(t)) \in Nat
                        /\ Rank(S, t) = Cardinality(Below(t))
        OBVIOUS
    <2>1. Below(t) \in SUBSET S
        OBVIOUS
    <2>2. QED BY <2>1, FS_Subset, FS_CardinalityType DEF Rank
<1>2. Cardinality(S) \in Nat
    BY FS_CardinalityType
<1>3. Cardinality(Below(s)) < Cardinality(S)
    <2>1. /\ Below(s) \in SUBSET S /\ s \notin Below(s)
        OBVIOUS
    <2>2. /\ Cardinality(Below(s)) <= Cardinality(S)
          /\ Cardinality(S) = Cardinality(Below(s)) => S = Below(s)
        BY <2>1, FS_Subset
    <2>3. QED BY <2>1, <2>2, <1>1, <1>2
<1>4. ASSUME NEW t \in S, s < t
      PROVE  Cardinality(Below(s)) < Cardinality(Below(t))
    <2>0. \A u \in S : u \in Nat
        OBVIOUS
    <2>1. /\ \A u \in S : u < s => u < t
          /\ ~ s < s
        BY <1>4, <2>0
    <2>2. /\ Below(s) \in SUBSET Below(t)
          /\ s \in Below(t) /\ s \notin Below(s)
        BY <2>1, <1>4
    <2>3. /\ Cardinality(Below(s)) <= Cardinality(Below(t))
          /\ Cardinality(Below(t)) = Cardinality(Below(s)) => Below(t) = Below(s)
        BY <2>2, <1>1, FS_Subset
    <2>4. QED BY <2>2, <2>3, <1>1
<1>5. Rank(S, s) \in 0 .. Cardinality(S) - 1
    <2>1. Cardinality(Below(s)) \in Nat /\ Rank(S, s) = Cardinality(Below(s))
        BY <1>1
    <2> HIDE DEF Below
    <2>2. QED BY <2>1, <1>2, <1>3
<1>6. \A t \in S : s < t => Rank(S, s) < Rank(S, t)
    BY <1>1, <1>4
<1>7. QED BY <1>5, <1>6

\* InOrder lists the steps of S, each once, in ascending order.
LEMMA InOrderFacts ==
    ASSUME NEW S \in SUBSET Nat, IsFiniteSet(S)
    PROVE  /\ Cardinality(S) \in Nat
           /\ InOrder(S) \in Seq(S)
           /\ Len(InOrder(S)) = Cardinality(S)
           /\ DOMAIN InOrder(S) = 1 .. Cardinality(S)
           /\ \A k \in 1 .. Cardinality(S) : InOrder(S)[k] \in S
           /\ \A s \in S : \E k \in 1 .. Cardinality(S) : InOrder(S)[k] = s
           /\ \A j, k \in 1 .. Cardinality(S) : j < k => InOrder(S)[j] < InOrder(S)[k]
<1> DEFINE n == Cardinality(S)
           place == [s \in S |-> Rank(S, s) + 1]
<1>1. n \in Nat
    BY FS_CardinalityType
<1>2. place \in [S -> 1 .. n]
    BY RankBounds, <1>1
<1>3. \A s, t \in S : place[s] = place[t] => s = t
    <2> SUFFICES ASSUME NEW s \in S, NEW t \in S, place[s] = place[t]
                 PROVE  s = t
        OBVIOUS
    <2>1. s < t => Rank(S, s) < Rank(S, t)
        BY RankBounds
    <2>2. t < s => Rank(S, t) < Rank(S, s)
        BY RankBounds
    <2>3. Rank(S, s) = Rank(S, t) /\ Rank(S, s) \in Nat
        BY RankBounds, <1>1
    <2>4. s \in Nat /\ t \in Nat
        OBVIOUS
    <2>5. QED BY <2>1, <2>2, <2>3, <2>4
<1>4. place \in Injection(S, 1 .. n)
    BY <1>2, <1>3 DEF Injection, IsInjective
<1>5. IsFiniteSet(1 .. n) /\ Cardinality(1 .. n) = n
    BY <1>1, FS_Interval
<1>6. place \in Surjection(S, 1 .. n)
    BY <1>4, <1>5, FS_Injection
<1>7. \A k \in 1 .. n : \E s \in S : Rank(S, s) = k - 1
    <2> SUFFICES ASSUME NEW k \in 1 .. n
                 PROVE  \E s \in S : Rank(S, s) = k - 1
        OBVIOUS
    <2>1. PICK s \in S : place[s] = k
        BY <1>6 DEF Surjection
    <2>2. Rank(S, s) \in Nat
        BY RankBounds, <1>1
    <2>3. QED BY <2>1, <2>2, <1>1
<1>8. InOrder(S) = [k \in 1 .. n |-> CHOOSE s \in S : Rank(S, s) = k - 1]
    BY DEF InOrder, Rank
<1>9. \A k \in 1 .. n : InOrder(S)[k] \in S /\ Rank(S, InOrder(S)[k]) = k - 1
    BY <1>7, <1>8
<1>10. DOMAIN InOrder(S) = 1 .. n
    BY <1>8
<1>11. InOrder(S) \in [1 .. n -> S]
    BY <1>8, <1>9
<1>12. InOrder(S) \in Seq(S) /\ Len(InOrder(S)) = n
    BY <1>1, <1>11
<1>13. \A s \in S : \E k \in 1 .. n : InOrder(S)[k] = s
    <2> SUFFICES ASSUME NEW s \in S
                 PROVE  \E k \in 1 .. n : InOrder(S)[k] = s
        OBVIOUS
    <2>1. place[s] \in 1 .. n /\ Rank(S, s) = place[s] - 1
        BY <1>2, RankBounds, <1>1
    <2>2. /\ InOrder(S)[place[s]] \in S
          /\ Rank(S, InOrder(S)[place[s]]) = Rank(S, s)
        BY <2>1, <1>9
    <2>3. InOrder(S)[place[s]] = s
        BY <2>2, <1>3
    <2>4. QED BY <2>1, <2>3
<1>14. \A j, k \in 1 .. n : j < k => InOrder(S)[j] < InOrder(S)[k]
    <2> SUFFICES ASSUME NEW j \in 1 .. n, NEW k \in 1 .. n, j < k
                 PROVE  InOrder(S)[j] < InOrder(S)[k]
        OBVIOUS
    <2> DEFINE s == InOrder(S)[j]
               t == InOrder(S)[k]
    <2>1. s \in S /\ t \in S /\ Rank(S, s) = j - 1 /\ Rank(S, t) = k - 1
        BY <1>9
    <2> HIDE DEF s, t
    <2>2. t < s => Rank(S, t) < Rank(S, s)
        BY <2>1, RankBounds
    <2>3. s \in Nat /\ t \in Nat /\ j \in Int /\ k \in Int
        BY <2>1, <1>1
    <2>4. s < t
        BY ONLY <2>1, <2>2, <2>3, j < k
    <2>5. QED BY <2>4 DEF s, t
<1>15. \A k \in 1 .. n : InOrder(S)[k] \in S
    BY <1>9
<1>16. QED BY <1>1, <1>10, <1>12, <1>13, <1>14, <1>15, Zenon

-----------------------------------------------------------------------------
(***************************************************************************)
(* Windows and fragment counts.                                            *)
(***************************************************************************)
\* A scan of count steps has a fragment for each of them, and no more fragments than steps.
LEMMA FragmentCounts ==
    ASSUME NEW count \in Nat \ {0}
    PROVE  /\ profile_fragment_count(count) \in 1 .. count
           /\ profile_fragment_count(count) = (count + 2) \div 3
           /\ \A s \in 0 .. count - 1 : s \div 3 \in 0 .. profile_fragment_count(count) - 1
<1>1. profile_fragment_count(count) = (count + 2) \div 3
    BY DEF profile_fragment_count, STEPS_PER_FRAGMENT
<1>2. (count + 2) \div 3 \in 1 .. count
    OBVIOUS
<1>3. \A s \in 0 .. count - 1 : s \div 3 \in 0 .. ((count + 2) \div 3) - 1
    OBVIOUS
<1>4. QED BY <1>1, <1>2, <1>3

\* A step is in one window, that of its index divided by three.
LEMMA Windows ==
    ASSUME NEW i \in Nat, NEW count \in Nat
    PROVE  /\ Window(i, count) \in SUBSET Nat /\ IsFiniteSet(Window(i, count))
           /\ \A s : s \in Window(i, count) <=> s \in 0 .. count - 1 /\ s \div 3 = i
<1>1. Window(i, count) = {s \in 3 * i .. 3 * i + 2 : s < count}
    BY DEF Window, WindowStart, STEPS_PER_FRAGMENT
<1>2. Window(i, count) \in SUBSET (3 * i .. 3 * i + 2)
    BY <1>1
<1>3. IsFiniteSet(Window(i, count))
    <2>1. 3 * i \in Int /\ 3 * i + 2 \in Int
        OBVIOUS
    <2>2. IsFiniteSet(3 * i .. 3 * i + 2)
        BY <2>1, FS_Interval
    <2>3. QED BY <1>2, <2>2, FS_Subset
<1>4. Window(i, count) \in SUBSET Nat
    BY <1>2
<1>5. ASSUME NEW s
      PROVE  s \in Window(i, count) <=> s \in 0 .. count - 1 /\ s \div 3 = i
    <2>1. CASE s \in Nat
        BY <1>1, <2>1
    <2>2. CASE s \notin Nat
        BY <1>4, <2>2
    <2>3. QED BY <2>1, <2>2
<1>6. QED BY <1>3, <1>4, <1>5

\* What a fragment of metadata m has to contain.
Required(i, m) == Window(i, m.expected_step_count) \ m.missing_steps

\* The required steps of a fragment: those of its window that are not missing, ascending.
LEMMA RequiredFacts ==
    ASSUME NEW i \in Nat, NEW m, m.expected_step_count \in Nat
    PROVE  /\ RequiredSteps(i, m) = InOrder(Required(i, m))
           /\ Cardinality(Required(i, m)) \in Nat
           /\ Len(RequiredSteps(i, m)) = Cardinality(Required(i, m))
           /\ DOMAIN RequiredSteps(i, m) = 1 .. Cardinality(Required(i, m))
           /\ \A k \in 1 .. Cardinality(Required(i, m)) : RequiredSteps(i, m)[k] \in Required(i, m)
           /\ \A s \in Required(i, m) :
                 \E k \in 1 .. Cardinality(Required(i, m)) : RequiredSteps(i, m)[k] = s
           /\ \A j, k \in 1 .. Cardinality(Required(i, m)) :
                 RequiredSteps(i, m)[j] = RequiredSteps(i, m)[k] => j = k
           /\ \A s : s \in Required(i, m) <=>
                 /\ s \in 0 .. m.expected_step_count - 1 /\ s \div 3 = i
                 /\ s \notin m.missing_steps
<1>1. RequiredSteps(i, m) = InOrder(Required(i, m))
    BY DEF RequiredSteps, Required
<1>2. /\ Window(i, m.expected_step_count) \in SUBSET Nat
      /\ IsFiniteSet(Window(i, m.expected_step_count))
    BY Windows
<1>3. Required(i, m) \in SUBSET Window(i, m.expected_step_count)
    BY DEF Required
<1>4. Required(i, m) \in SUBSET Nat /\ IsFiniteSet(Required(i, m))
    BY <1>2, <1>3, FS_Subset
<1> DEFINE S == Required(i, m)
           R == InOrder(S)
<1>5. /\ Cardinality(S) \in Nat
      /\ Len(R) = Cardinality(S)
      /\ DOMAIN R = 1 .. Cardinality(S)
      /\ \A k \in 1 .. Cardinality(S) : R[k] \in S
      /\ \A s \in S : \E k \in 1 .. Cardinality(S) : R[k] = s
      /\ \A j, k \in 1 .. Cardinality(S) : j < k => R[j] < R[k]
    BY <1>4, InOrderFacts
<1>6. \A s \in S : s \in Nat
    BY <1>4
<1>7. \A s : s \in S <=> /\ s \in 0 .. m.expected_step_count - 1 /\ s \div 3 = i
                         /\ s \notin m.missing_steps
    BY Windows DEF Required
<1> HIDE DEF R, S
<1>8. ASSUME NEW j \in 1 .. Cardinality(S), NEW k \in 1 .. Cardinality(S), R[j] = R[k]
      PROVE  j = k
    <2>1. R[j] \in Nat /\ ~ R[j] < R[j]
        BY <1>5, <1>6
    <2>2. ~ j < k /\ ~ k < j
        BY <1>5, <1>8, <2>1
    <2>3. QED BY <2>2, <1>5
<1>9. QED BY <1>1, <1>5, <1>7, <1>8 DEF R, S

-----------------------------------------------------------------------------
(***************************************************************************)
(* Fragments as the receiver keeps them.                                   *)
(***************************************************************************)
\* Metadata that a decoder lets through.
GoodMeta(m) ==
    /\ m.expected_step_count \in 1 .. MaxSteps
    /\ m.missing_steps \cup m.duplicate_steps \subseteq step_mask(m.expected_step_count)
    /\ m.observed_unique_step_count = m.expected_step_count - Cardinality(m.missing_steps)
    /\ m.observed_field_count >= m.observed_unique_step_count

\* The steps are those required of fragment i.
GoodSteps(i, m, steps) ==
    /\ DOMAIN steps = 1 .. Cardinality(Required(i, m))
    /\ \A k \in DOMAIN steps :
          steps[k].step_index = RequiredSteps(i, m)[k] /\ validate_profile_step(steps[k])

\* A fragment whose frame the decoder accepted.
GoodView(g) ==
    /\ GoodMeta(g.meta)
    /\ g.expected_fragment_count = profile_fragment_count(g.meta.expected_step_count)
    /\ g.fragment_index \in 0 .. g.expected_fragment_count - 1
    /\ GoodSteps(g.fragment_index, g.meta, g.steps)

\* Fragments of one scan, one for each index.
OneScan(K) ==
    /\ \A g \in K : GoodView(g)
    /\ \A g, h \in K : /\ g.identity = h.identity /\ g.meta = h.meta
                       /\ g.expected_fragment_count = h.expected_fragment_count
                       /\ g.fragment_index = h.fragment_index => g = h

\* The steps of a fragment are required of it, each is there, and no two have one index.
LEMMA ViewSteps ==
    ASSUME NEW g, GoodView(g)
    PROVE  /\ g.fragment_index \in Nat
           /\ g.meta.expected_step_count \in Nat \ {0}
           /\ \A k \in DOMAIN g.steps :
                 /\ validate_profile_step(g.steps[k])
                 /\ g.steps[k].step_index \in 0 .. g.meta.expected_step_count - 1
                 /\ g.steps[k].step_index \div 3 = g.fragment_index
                 /\ g.steps[k].step_index \notin g.meta.missing_steps
           /\ \A j, k \in DOMAIN g.steps : g.steps[j].step_index = g.steps[k].step_index => j = k
           /\ \A s \in 0 .. g.meta.expected_step_count - 1 :
                 s \div 3 = g.fragment_index /\ s \notin g.meta.missing_steps =>
                    \E k \in DOMAIN g.steps : g.steps[k].step_index = s
<1> DEFINE i == g.fragment_index
           m == g.meta
           R == RequiredSteps(i, m)
           n == Cardinality(Required(i, m))
<1>1. m.expected_step_count \in Nat \ {0}
    BY ProtocolAssumption DEF GoodView, GoodMeta
<1>2. i \in Nat
    BY <1>1, FragmentCounts DEF GoodView
<1>3. /\ DOMAIN g.steps = 1 .. n
      /\ \A k \in 1 .. n : g.steps[k].step_index = R[k] /\ validate_profile_step(g.steps[k])
    BY DEF GoodView, GoodSteps
<1>4. /\ \A k \in 1 .. n : R[k] \in Required(i, m)
      /\ \A s \in Required(i, m) : \E k \in 1 .. n : R[k] = s
      /\ \A j, k \in 1 .. n : R[j] = R[k] => j = k
      /\ \A s : s \in Required(i, m) <=>
            s \in 0 .. m.expected_step_count - 1 /\ s \div 3 = i /\ s \notin m.missing_steps
    BY <1>1, <1>2, RequiredFacts
<1> HIDE DEF n, R, i, m
<1>5. \A k \in DOMAIN g.steps :
         /\ validate_profile_step(g.steps[k])
         /\ g.steps[k].step_index \in 0 .. m.expected_step_count - 1
         /\ g.steps[k].step_index \div 3 = i
         /\ g.steps[k].step_index \notin m.missing_steps
    BY ONLY <1>3, <1>4, Zenon
<1>6. ASSUME NEW j \in DOMAIN g.steps, NEW k \in DOMAIN g.steps,
             g.steps[j].step_index = g.steps[k].step_index
      PROVE  j = k
    <2>1. j \in 1 .. n /\ k \in 1 .. n /\ R[j] = R[k]
        BY ONLY <1>3, <1>6
    <2>2. QED BY ONLY <2>1, <1>4, Zenon
<1>7. \A s \in 0 .. m.expected_step_count - 1 :
         s \div 3 = i /\ s \notin m.missing_steps =>
            \E k \in DOMAIN g.steps : g.steps[k].step_index = s
    BY ONLY <1>3, <1>4, Zenon
<1>8. QED BY <1>1, <1>2, <1>5, <1>6, <1>7 DEF i, m

\* What finish makes of the fragments of one scan.
LEMMA FinishFacts ==
    ASSUME NEW K, OneScan(K), NEW g \in K
    PROVE  /\ finish(K).identity = g.identity
           /\ finish(K).meta = g.meta
           /\ finish(K).expected_fragment_count = g.expected_fragment_count
           /\ finish(K).received_fragments = {h.fragment_index : h \in K}
           /\ \A x : x \in DOMAIN finish(K).steps <=>
                 \E h \in K : \E k \in DOMAIN h.steps : x = <<h.fragment_index, k>>
           /\ \A h \in K : \A k \in DOMAIN h.steps :
                 finish(K).steps[<<h.fragment_index, k>>] = h.steps[k]
<1> DEFINE first == CHOOSE h \in K : TRUE
           received == {h.fragment_index : h \in K}
           steps(i) == (CHOOSE h \in K : h.fragment_index = i).steps
           all == UNION {{i} \X DOMAIN steps(i) : i \in received}
<1>1. first \in K
    OBVIOUS
<1>2. \A h \in K : steps(h.fragment_index) = h.steps
    <2> SUFFICES ASSUME NEW h \in K
                 PROVE  steps(h.fragment_index) = h.steps
        OBVIOUS
    <2> DEFINE c == CHOOSE o \in K : o.fragment_index = h.fragment_index
    <2>1. c \in K /\ c.fragment_index = h.fragment_index
        OBVIOUS
    <2> HIDE DEF c
    <2>2. c = h
        BY <2>1 DEF OneScan
    <2>3. QED BY <2>2 DEF c
<1>3. finish(K) = [identity |-> first.identity, meta |-> first.meta,
                   expected_fragment_count |-> first.expected_fragment_count,
                   received_fragments |-> received,
                   steps |-> [x \in all |-> steps(x[1])[x[2]]]]
    BY DEF finish
<1> HIDE DEF first
<1>4. /\ first.identity = g.identity /\ first.meta = g.meta
      /\ first.expected_fragment_count = g.expected_fragment_count
    BY <1>1 DEF OneScan
<1>5. \A x : x \in all <=> \E i \in received : \E k \in DOMAIN steps(i) : x = <<i, k>>
    <2> HIDE DEF steps, received
    <2>1. QED OBVIOUS
<1>6. \A x : x \in all <=> \E h \in K : \E k \in DOMAIN h.steps : x = <<h.fragment_index, k>>
    <2> HIDE DEF steps, all
    <2>1. QED BY <1>2, <1>5
<1>7. \A h \in K : \A k \in DOMAIN h.steps :
         [x \in all |-> steps(x[1])[x[2]]][<<h.fragment_index, k>>] = h.steps[k]
    <2> HIDE DEF steps, all, received
    <2> SUFFICES ASSUME NEW h \in K, NEW k \in DOMAIN h.steps
                 PROVE  [x \in all |-> steps(x[1])[x[2]]][<<h.fragment_index, k>>] = h.steps[k]
        OBVIOUS
    <2>1. <<h.fragment_index, k>> \in all
        BY <1>6
    <2>2. QED BY <2>1, <1>2
<1>8. /\ finish(K).identity = first.identity /\ finish(K).meta = first.meta
      /\ finish(K).expected_fragment_count = first.expected_fragment_count
      /\ finish(K).received_fragments = received
      /\ finish(K).steps = [x \in all |-> steps(x[1])[x[2]]]
    <2> HIDE DEF steps, all, received
    <2>1. QED BY <1>3
<1>9. DOMAIN finish(K).steps = all
    <2> HIDE DEF steps, all, received
    <2>1. QED BY <1>8
<1> HIDE DEF steps, all
<1>10. \A x : x \in DOMAIN finish(K).steps <=>
          \E h \in K : \E k \in DOMAIN h.steps : x = <<h.fragment_index, k>>
    BY ONLY <1>6, <1>9, Zenon
<1>11. \A h \in K : \A k \in DOMAIN h.steps :
          finish(K).steps[<<h.fragment_index, k>>] = h.steps[k]
    BY ONLY <1>7, <1>8, Zenon
<1>12. QED BY <1>4, <1>8, <1>10, <1>11, Zenon

\* A scan of which nothing arrived has no steps.
LEMMA EmptyRecord == DOMAIN finish({}).steps = {}
BY DEF finish

\* The steps of the record of a scan: those of its metadata that are not missing and whose window
\* has been received.  No two have one index, and each is at the position of one fragment.
LEMMA RecordSteps ==
    ASSUME NEW K, OneScan(K), NEW g \in K
    PROVE  /\ \A x \in DOMAIN finish(K).steps :
                 /\ validate_profile_step(finish(K).steps[x])
                 /\ finish(K).steps[x].step_index \in 0 .. g.meta.expected_step_count - 1
                 /\ finish(K).steps[x].step_index \notin g.meta.missing_steps
                 /\ finish(K).steps[x].step_index \div 3 \in finish(K).received_fragments
           /\ \A x, y \in DOMAIN finish(K).steps :
                 finish(K).steps[x].step_index = finish(K).steps[y].step_index => x = y
           /\ \A s \in 0 .. g.meta.expected_step_count - 1 :
                 /\ s \notin g.meta.missing_steps
                 /\ s \div 3 \in finish(K).received_fragments
                 => \E x \in DOMAIN finish(K).steps : finish(K).steps[x].step_index = s
<1> DEFINE S == finish(K).steps
           received == finish(K).received_fragments
<1>1. /\ received = {h.fragment_index : h \in K}
      /\ \A x : x \in DOMAIN S <=> \E h \in K : \E k \in DOMAIN h.steps : x = <<h.fragment_index, k>>
      /\ \A h \in K : \A k \in DOMAIN h.steps : S[<<h.fragment_index, k>>] = h.steps[k]
    BY FinishFacts
<1>2. \A h \in K : GoodView(h) /\ h.meta = g.meta
    BY DEF OneScan
<1>3. \A h \in K :
         /\ \A k \in DOMAIN h.steps :
               /\ validate_profile_step(h.steps[k])
               /\ h.steps[k].step_index \in 0 .. g.meta.expected_step_count - 1
               /\ h.steps[k].step_index \div 3 = h.fragment_index
               /\ h.steps[k].step_index \notin g.meta.missing_steps
         /\ \A j, k \in DOMAIN h.steps : h.steps[j].step_index = h.steps[k].step_index => j = k
         /\ \A s \in 0 .. g.meta.expected_step_count - 1 :
               s \div 3 = h.fragment_index /\ s \notin g.meta.missing_steps =>
                  \E k \in DOMAIN h.steps : h.steps[k].step_index = s
    <2> SUFFICES ASSUME NEW h \in K
                 PROVE  /\ \A k \in DOMAIN h.steps :
                              /\ validate_profile_step(h.steps[k])
                              /\ h.steps[k].step_index \in 0 .. h.meta.expected_step_count - 1
                              /\ h.steps[k].step_index \div 3 = h.fragment_index
                              /\ h.steps[k].step_index \notin h.meta.missing_steps
                        /\ \A j, k \in DOMAIN h.steps :
                              h.steps[j].step_index = h.steps[k].step_index => j = k
                        /\ \A s \in 0 .. h.meta.expected_step_count - 1 :
                              s \div 3 = h.fragment_index /\ s \notin h.meta.missing_steps =>
                                 \E k \in DOMAIN h.steps : h.steps[k].step_index = s
        BY <1>2, Zenon
    <2>1. GoodView(h)
        BY <1>2
    <2>2. QED BY <2>1, ViewSteps, Zenon
<1> HIDE DEF S, received
<1>4. ASSUME NEW x \in DOMAIN S
      PROVE  /\ validate_profile_step(S[x])
             /\ S[x].step_index \in 0 .. g.meta.expected_step_count - 1
             /\ S[x].step_index \notin g.meta.missing_steps
             /\ S[x].step_index \div 3 \in received
             /\ \A y \in DOMAIN S : S[x].step_index = S[y].step_index => x = y
    <2>1. PICK h \in K : \E k \in DOMAIN h.steps : x = <<h.fragment_index, k>>
        BY <1>1, Zenon
    <2>2. PICK k \in DOMAIN h.steps : x = <<h.fragment_index, k>>
        BY <2>1
    <2>3. S[x] = h.steps[k]
        BY <1>1, <2>2
    <2>4. ASSUME NEW y \in DOMAIN S, S[x].step_index = S[y].step_index
          PROVE  x = y
        <3>1. PICK o \in K : \E j \in DOMAIN o.steps : y = <<o.fragment_index, j>>
            BY <1>1, Zenon
        <3>2. PICK j \in DOMAIN o.steps : y = <<o.fragment_index, j>>
            BY <3>1
        <3>3. S[y] = o.steps[j]
            BY <1>1, <3>2
        <3>4. o.fragment_index = h.fragment_index
            BY <1>3, <2>3, <2>4, <3>3
        <3>5. o = h
            BY <3>4 DEF OneScan
        <3>6. j = k
            BY <1>3, <2>3, <2>4, <3>3, <3>5
        <3>7. QED BY <2>2, <3>2, <3>4, <3>6
    <2>5. h.steps[k].step_index \div 3 \in received
        BY <1>1, <1>3
    <2>6. QED BY <1>3, <2>3, <2>4, <2>5
<1>5. ASSUME NEW s \in 0 .. g.meta.expected_step_count - 1, s \notin g.meta.missing_steps,
             s \div 3 \in received
      PROVE  \E x \in DOMAIN S : S[x].step_index = s
    <2>1. PICK h \in K : s \div 3 = h.fragment_index
        BY <1>1, <1>5
    <2>2. PICK k \in DOMAIN h.steps : h.steps[k].step_index = s
        BY <1>3, <1>5, <2>1
    <2>3. <<h.fragment_index, k>> \in DOMAIN S /\ S[<<h.fragment_index, k>>] = h.steps[k]
        BY <1>1, Zenon
    <2>4. QED BY <2>2, <2>3
<1>6. QED BY <1>4, <1>5 DEF S, received

\* The record of a scan passes the validation of records.rs.
LEMMA RecordValid ==
    ASSUME NEW K, OneScan(K), NEW g \in K
    PROVE  /\ validate(finish(K))
           /\ is_transport_complete(finish(K)) =>
                 \A s : s \in StepsOf(finish(K)) <=>
                    s \in 0 .. g.meta.expected_step_count - 1 /\ s \notin g.meta.missing_steps
<1> DEFINE scan == finish(K)
           esc == g.meta.expected_step_count
<1>1. /\ scan.meta = g.meta
      /\ scan.expected_fragment_count = g.expected_fragment_count
      /\ scan.received_fragments = {h.fragment_index : h \in K}
    BY FinishFacts
<1>2. \A h \in K : GoodView(h) /\ h.expected_fragment_count = g.expected_fragment_count
    BY DEF OneScan
<1>3. /\ \A x \in DOMAIN scan.steps :
            /\ validate_profile_step(scan.steps[x])
            /\ scan.steps[x].step_index \in 0 .. esc - 1
            /\ scan.steps[x].step_index \notin g.meta.missing_steps
            /\ scan.steps[x].step_index \div 3 \in scan.received_fragments
      /\ \A x, y \in DOMAIN scan.steps : scan.steps[x].step_index = scan.steps[y].step_index => x = y
      /\ \A s \in 0 .. esc - 1 :
            s \notin g.meta.missing_steps /\ s \div 3 \in scan.received_fragments =>
               \E x \in DOMAIN scan.steps : scan.steps[x].step_index = s
    BY RecordSteps
<1>4. /\ GoodMeta(g.meta)
      /\ g.expected_fragment_count = profile_fragment_count(esc)
      /\ \A h \in K : h.fragment_index \in 0 .. g.expected_fragment_count - 1
    BY <1>2 DEF GoodView
<1>5. esc \in Nat \ {0}
    BY <1>4, ProtocolAssumption DEF GoodMeta
<1> HIDE DEF scan
<1>6. /\ scan.expected_fragment_count = (esc + 2) \div 3
      /\ scan.received_fragments \subseteq 0 .. scan.expected_fragment_count - 1
    BY <1>1, <1>4, <1>5, FragmentCounts
<1>7. \A s : s \in StepsOf(scan) <=> \E x \in DOMAIN scan.steps : scan.steps[x].step_index = s
    BY DEF StepsOf
<1>8. \A s \in StepsOf(scan) : s \in 0 .. esc - 1 /\ s \notin g.meta.missing_steps
    BY <1>3, <1>7
<1>9. ASSUME is_transport_complete(scan)
      PROVE  \A s : s \in StepsOf(scan) <=> s \in 0 .. esc - 1 /\ s \notin g.meta.missing_steps
    <2>1. \A s \in 0 .. esc - 1 : s \div 3 \in scan.received_fragments
        BY <1>1, <1>4, <1>5, <1>9, FragmentCounts DEF is_transport_complete
    <2>2. QED BY <2>1, <1>3, <1>7, <1>8
<1>10. is_transport_complete(scan) =>
          step_mask(esc) \ StepsOf(scan) = g.meta.missing_steps
    <2>1. g.meta.missing_steps \subseteq 0 .. esc - 1
        BY <1>4 DEF GoodMeta, step_mask
    <2>2. QED BY <2>1, <1>9 DEF step_mask
<1>11. \A x \in DOMAIN scan.steps :
          /\ scan.steps[x].step_index < esc
          /\ \A j \in DOMAIN scan.steps \ {x} : scan.steps[j].step_index # scan.steps[x].step_index
          /\ validate_profile_step(scan.steps[x])
          /\ scan.steps[x].step_index \div 3 \in scan.received_fragments
    BY <1>3, <1>5
<1>12. \A s \in step_mask(esc) :
          s \div 3 \in scan.received_fragments /\ s \notin g.meta.missing_steps => s \in StepsOf(scan)
    BY <1>3, <1>7 DEF step_mask
<1>13. validate(scan)
    BY <1>1, <1>4, <1>6, <1>10, <1>11, <1>12, Zenon DEF validate, GoodMeta
<1>14. QED BY <1>9, <1>13 DEF scan

-----------------------------------------------------------------------------
(***************************************************************************)
(* Profile frames: what the decoder lets through, and what encoders write. *)
(***************************************************************************)
\* A profile frame that can be in the air: its steps are whole, and fewer bytes than a step follow.
ProfileFrame(f) ==
    /\ f.header.frame_type = "ProfileFragment"
    /\ f.header.fragment_index \in Nat
    /\ Len(f.payload.steps) \in Nat /\ DOMAIN f.payload.steps = 1 .. Len(f.payload.steps)
    /\ f.payload.extra \in 0 .. PROFILE_STEP_LEN - 1

\* A step is as long as all steps are: the length tells how many there are and that nothing follows.
LEMMA ProfileLengths ==
    ASSUME NEW p, NEW n \in Nat, Len(p.steps) \in Nat, p.extra \in 0 .. PROFILE_STEP_LEN - 1,
           ProfilePayloadLen(p) = PROFILE_FRAGMENT_META_LEN + PROFILE_STEP_LEN * n
    PROVE  Len(p.steps) = n /\ p.extra = 0
<1> DEFINE l == Len(p.steps)
           e == p.extra
<1>1. /\ l \in Nat /\ n \in Nat /\ e \in 0 .. 46
      /\ 42 + 47 * l + e = 42 + 47 * n
    BY DEF ProfilePayloadLen, PROFILE_FRAGMENT_META_LEN, PROFILE_STEP_LEN
<1> HIDE DEF l, e
<1>2. l = n /\ e = 0
    BY ONLY <1>1
<1>3. QED BY <1>2 DEF l, e

\* The fragment of an accepted profile frame.
LEMMA DecodedProfile ==
    ASSUME NEW f, ProfileFrame(f), decode_profile_fragment(f.header, f.payload),
           f.header.fragment_index < f.header.fragment_count
    PROVE  /\ GoodView(from_view(f))
           /\ Len(f.payload.steps) = f.payload.steps_in_fragment
           /\ f.payload.extra = 0
<1> DEFINE h == f.header
           p == f.payload
           m == p.meta
           i == h.fragment_index
           n == Cardinality(Required(i, m))
<1>1. /\ m.expected_step_count \in 1 .. MaxSteps
      /\ h.fragment_count = profile_fragment_count(m.expected_step_count)
      /\ m.missing_steps \cup m.duplicate_steps \subseteq step_mask(m.expected_step_count)
      /\ m.observed_unique_step_count = m.expected_step_count - Cardinality(m.missing_steps)
      /\ m.observed_field_count >= m.observed_unique_step_count
      /\ StepsChecked(h, p)
    BY DEF decode_profile_fragment
<1>2. /\ i \in Nat /\ i < h.fragment_count
      /\ Len(p.steps) \in Nat /\ DOMAIN p.steps = 1 .. Len(p.steps)
      /\ p.extra \in 0 .. PROFILE_STEP_LEN - 1
    BY DEF ProfileFrame
<1>3. m.expected_step_count \in Nat \ {0}
    BY <1>1, ProtocolAssumption
<1>4. /\ Len(RequiredSteps(i, m)) = n
      /\ DOMAIN RequiredSteps(i, m) = 1 .. n
      /\ n \in Nat
    <2>1. i \in Nat /\ m.expected_step_count \in Nat
        BY <1>2, <1>3
    <2> HIDE DEF h, p, m, i
    <2>2. QED BY <2>1, RequiredFacts, Zenon
<1>5. /\ p.steps_in_fragment = n
      /\ ProfilePayloadLen(p) =
            PROFILE_FRAGMENT_META_LEN + PROFILE_STEP_LEN * p.steps_in_fragment
      /\ \A k \in 1 .. n : /\ p.steps[k].step_index = RequiredSteps(i, m)[k]
                           /\ validate_profile_step(p.steps[k])
    BY <1>1, <1>4, Zenon DEF StepsChecked
<1> HIDE DEF h, p, m, i, n
<1>6. Len(p.steps) = n /\ p.extra = 0
    BY <1>2, <1>4, <1>5, ProfileLengths
<1>7. h.fragment_count \in 1 .. m.expected_step_count
    BY <1>1, <1>3, FragmentCounts
<1>8. i \in 0 .. h.fragment_count - 1
    BY <1>2, <1>3, <1>7
<1>9. /\ GoodMeta(m)
      /\ GoodSteps(i, m, p.steps)
    BY <1>1, <1>2, <1>5, <1>6 DEF GoodMeta, GoodSteps, n
<1>10. /\ from_view(f).meta = m /\ from_view(f).steps = p.steps
       /\ from_view(f).expected_fragment_count = h.fragment_count
       /\ from_view(f).fragment_index = i
    BY DEF from_view, h, i, m, p
<1>11. QED BY <1>1, <1>5, <1>6, <1>8, <1>9, <1>10 DEF GoodView, p

\* The steps an encoder puts into fragment i.
FragmentSteps(i, m, steps) ==
    [k \in 1 .. Cardinality(Required(i, m)) |-> steps[RequiredSteps(i, m)[k]]]

\* Fragment i of a scan.
EncodedFrame(common, m, steps, i) ==
    LET p == ProfilePayload(m, i, FragmentSteps(i, m, steps))
    IN [header |-> Header("ProfileFragment", common, i,
                          profile_fragment_count(m.expected_step_count), ProfilePayloadLen(p)),
        payload |-> p]

\* The frames of a scan: one for each fragment index, with the required steps.
LEMMA EncodedProfile ==
    ASSUME NEW common, NEW m, NEW steps, validate_profile(m, steps)
    PROVE  /\ DOMAIN encode_profile(common, m, steps) =
                 0 .. profile_fragment_count(m.expected_step_count) - 1
           /\ \A i \in DOMAIN encode_profile(common, m, steps) :
                 encode_profile(common, m, steps)[i] = EncodedFrame(common, m, steps, i)
<1> DEFINE esc == m.expected_step_count
           count == profile_fragment_count(esc)
           frames == encode_profile(common, m, steps)
           payload(i) == ProfilePayload(m, i, FragmentSteps(i, m, steps))
           present(i) == InOrder({s \in Window(i, esc) : steps[s] # None})
           sent_payload(i) == ProfilePayload(m, i, [k \in DOMAIN present(i) |-> steps[present(i)[k]]])
           indices == {j \in 0 .. MaxSteps : EncodesFragment(m, steps, j)}
<1>1. /\ esc \in 1 .. MaxSteps
      /\ \A s \in StepIndex : steps[s] # None <=> s < esc /\ s \notin m.missing_steps
    BY DEF validate_profile
<1>2. esc \in Nat \ {0} /\ esc <= MaxSteps /\ MaxSteps \in Nat
    BY <1>1, ProtocolAssumption
<1>3. count \in 1 .. esc
    BY <1>2, FragmentCounts
<1>4. ASSUME NEW i \in Nat
      PROVE  present(i) = RequiredSteps(i, m) /\ DOMAIN present(i) = 1 .. Cardinality(Required(i, m))
    <2>1. \A s \in Window(i, esc) : s \in 0 .. esc - 1
        BY <1>2, Windows
    <2>2. \A s \in Window(i, esc) : s \in StepIndex /\ s < esc
        BY <2>1, <1>2 DEF StepIndex
    <2>3. {s \in Window(i, esc) : steps[s] # None} = Required(i, m)
        BY <1>1, <2>2 DEF Required
    <2>4. present(i) = InOrder(Required(i, m))
        BY <2>3
    <2>5. RequiredSteps(i, m) = InOrder(Required(i, m))
        BY <1>2, RequiredFacts
    <2>6. DOMAIN RequiredSteps(i, m) = 1 .. Cardinality(Required(i, m))
        BY <1>2, RequiredFacts
    <2> HIDE DEF present
    <2>7. QED BY <2>4, <2>5, <2>6
<1>5. ASSUME NEW i \in Nat
      PROVE  sent_payload(i) = payload(i)
    <2> HIDE DEF present
    <2>1. QED BY <1>4 DEF FragmentSteps
<1>6. indices = 0 .. count - 1
    BY <1>2, <1>3 DEF EncodesFragment
<1>7. frames = [i \in indices |->
                   [header |-> Header("ProfileFragment", common, i, count,
                                      ProfilePayloadLen(sent_payload(i))),
                    payload |-> sent_payload(i)]]
    BY DEF encode_profile
<1>8. DOMAIN frames = 0 .. count - 1
    <2> HIDE DEF sent_payload, indices, frames
    <2>1. QED BY <1>6, <1>7
<1>9. ASSUME NEW i \in 0 .. count - 1
      PROVE  frames[i] = [header |-> Header("ProfileFragment", common, i, count,
                                            ProfilePayloadLen(payload(i))),
                          payload |-> payload(i)]
    <2>1. i \in Nat
        BY <1>3
    <2>2. sent_payload(i) = payload(i)
        BY <2>1, <1>5
    <2> HIDE DEF sent_payload, indices, payload, frames
    <2>3. QED BY <1>6, <1>7, <2>2
<1>10. \A i : EncodedFrame(common, m, steps, i) =
                 [header |-> Header("ProfileFragment", common, i, count,
                                    ProfilePayloadLen(payload(i))),
                  payload |-> payload(i)]
    BY DEF EncodedFrame
<1> HIDE DEF payload, frames, sent_payload, indices, count
<1>11. \A i \in DOMAIN frames : frames[i] = EncodedFrame(common, m, steps, i)
    BY <1>8, <1>9, <1>10
<1>12. QED BY <1>8, <1>11 DEF frames, count

\* The header and the payload of fragment i.
LEMMA EncodedFrameFields ==
    ASSUME NEW common, NEW m, NEW steps, NEW i \in Nat, m.expected_step_count \in Nat \ {0},
           NEW f, f = EncodedFrame(common, m, steps, i)
    PROVE  /\ f.header.discriminator /\ f.header.frame_type = "ProfileFragment"
           /\ f.header.common = common
           /\ f.header.fragment_index = i
           /\ f.header.fragment_count = profile_fragment_count(m.expected_step_count)
           /\ f.header.payload_len = ProfilePayloadLen(f.payload)
           /\ f.payload.schema /\ f.payload.meta = m
           /\ f.payload.steps_in_fragment = Cardinality(Required(i, m))
           /\ f.payload.step_window_start = WindowStart(i)
           /\ f.payload.steps = FragmentSteps(i, m, steps)
           /\ f.payload.extra = 0
           /\ Cardinality(Required(i, m)) \in Nat
           /\ Len(f.payload.steps) = Cardinality(Required(i, m))
           /\ DOMAIN f.payload.steps = 1 .. Cardinality(Required(i, m))
           /\ ProfileFrame(f)
<1> DEFINE count == profile_fragment_count(m.expected_step_count)
           n == Cardinality(Required(i, m))
           p == ProfilePayload(m, i, FragmentSteps(i, m, steps))
<1>1. f = [header |-> Header("ProfileFragment", common, i, count, ProfilePayloadLen(p)), payload |-> p]
    BY DEF EncodedFrame
<1>2. n \in Nat
    BY RequiredFacts
<1>3. /\ Len(FragmentSteps(i, m, steps)) = n
      /\ DOMAIN FragmentSteps(i, m, steps) = 1 .. n
    <2> HIDE DEF n
    <2>1. FragmentSteps(i, m, steps) = [k \in 1 .. n |-> steps[RequiredSteps(i, m)[k]]]
        BY DEF FragmentSteps, n
    <2>2. QED BY <1>2, <2>1
<1>4. /\ p.schema = TRUE /\ p.meta = m
      /\ p.steps_in_fragment = n
      /\ p.step_window_start = WindowStart(i)
      /\ p.steps = FragmentSteps(i, m, steps)
      /\ p.extra = 0
    <2> HIDE DEF n
    <2>1. QED BY <1>3 DEF ProfilePayload
<1> HIDE DEF count, n
<1>5. f.header = Header("ProfileFragment", common, i, count, ProfilePayloadLen(f.payload))
      /\ f.payload = p /\ f = [header |-> f.header, payload |-> f.payload]
    <2> HIDE DEF p
    <2>1. QED BY <1>1
<1> HIDE DEF p
<1>6. /\ f.header.discriminator /\ f.header.frame_type = "ProfileFragment"
      /\ f.header.common = common
      /\ f.header.fragment_index = i /\ f.header.fragment_count = count
      /\ f.header.payload_len = ProfilePayloadLen(f.payload)
    BY <1>5 DEF Header
<1>7. ProfileFrame(f)
    BY <1>2, <1>3, <1>4, <1>5, <1>6 DEF ProfileFrame, PROFILE_STEP_LEN
<1>8. QED BY <1>2, <1>3, <1>4, <1>5, <1>6, <1>7, Zenon DEF count, n, p

-----------------------------------------------------------------------------
(***************************************************************************)
(* The gate: what a usable scan is.                                        *)
(***************************************************************************)
\* What the gate asks of a scan and of the configuration, without the detour over qualities.
Ready(scan, c) ==
    /\ profile_scan_allows_analysis(scan)
    /\ \A k \in DOMAIN scan.steps : sample_quality(scan.steps[k]) = {}
    /\ configuration_resolved(scan, c)

\* Usable, without the detour over qualities.
LEMMA UsableIsReady ==
    ASSUME NEW r, NEW c
    PROVE  Usable(r, c) <=> r.fragments # {} /\ Ready(ScanOf(r), c)
<1> DEFINE scan == ScanOf(r)
           allowed == profile_scan_allows_analysis(scan)
           quality(step) ==
               sample_quality(step) \cup {"PROFILE_SCAN_UNUSABLE" : b \in {FALSE} \cap {allowed}}
           usable == allowed /\ \A k \in DOMAIN scan.steps : quality(scan.steps[k]) = {}
           resolved == configuration_resolved(scan, c)
<1>1. extract_profile_features_with_configuration(scan, c).usable_for_analysis = (usable /\ resolved)
    BY DEF extract_profile_features_with_configuration, extract_profile_features_inner
<1>2. allowed \in BOOLEAN
    BY DEF profile_scan_allows_analysis
<1> HIDE DEF allowed, scan, resolved
<1>3. ASSUME allowed
      PROVE  \A step : quality(step) = sample_quality(step)
    <2>1. allowed = TRUE
        BY <1>2, <1>3
    <2>2. {FALSE} \cap {allowed} = {}
        BY <2>1, Zenon
    <2>3. QED BY <2>2
<1> HIDE DEF quality
<1>4. (usable /\ resolved) <=>
        (allowed /\ (\A k \in DOMAIN scan.steps : sample_quality(scan.steps[k]) = {}) /\ resolved)
    BY <1>3, Zenon
<1> HIDE DEF usable
<1>5. Usable(r, c) <=> r.fragments # {} /\ (usable /\ resolved)
    BY <1>1, Zenon DEF Usable, scan
<1>6. QED BY <1>4, <1>5, Zenon DEF Ready, allowed, scan, resolved

\* The record of a scan has the fields finish gives it, with the receiver's counters.
LEMMA ScanOfFields ==
    ASSUME NEW r
    PROVE  /\ ScanOf(r).identity = finish(r.fragments).identity
           /\ ScanOf(r).meta = finish(r.fragments).meta
           /\ ScanOf(r).steps = finish(r.fragments).steps
           /\ ScanOf(r).expected_fragment_count = finish(r.fragments).expected_fragment_count
           /\ ScanOf(r).received_fragments = finish(r.fragments).received_fragments
           /\ ScanOf(r).duplicates = r.duplicates
           /\ ScanOf(r).conflicts = r.conflicts
BY Zenon DEF ScanOf

\* The checks of a scan look at no counter.
LEMMA ScanOfChecks ==
    ASSUME NEW r
    PROVE  /\ validate(ScanOf(r)) <=> validate(finish(r.fragments))
           /\ is_transport_complete(ScanOf(r)) <=> is_transport_complete(finish(r.fragments))
           /\ StepsOf(ScanOf(r)) = StepsOf(finish(r.fragments))
<1> DEFINE a == ScanOf(r)
           b == finish(r.fragments)
<1>1. /\ a.meta = b.meta /\ a.steps = b.steps
      /\ a.expected_fragment_count = b.expected_fragment_count
      /\ a.received_fragments = b.received_fragments
    BY ScanOfFields
<1> HIDE DEF a, b
<1>2. is_transport_complete(a) <=> is_transport_complete(b)
    BY <1>1 DEF is_transport_complete
<1>3. StepsOf(a) = StepsOf(b)
    BY <1>1 DEF StepsOf
<1>4. validate(a) <=> validate(b)
    BY <1>1, <1>2, <1>3, Zenon DEF validate
<1>5. QED BY <1>2, <1>3, <1>4 DEF a, b

\* Usability depends on the fragments, and on there being no conflict.
LEMMA UsableIgnoresDuplicates ==
    ASSUME NEW r, NEW q, NEW c, r.fragments = q.fragments, r.conflicts = q.conflicts, Usable(r, c)
    PROVE  Usable(q, c)
<1> DEFINE a == ScanOf(r)
           b == ScanOf(q)
<1>1. /\ a.identity = b.identity /\ a.meta = b.meta /\ a.steps = b.steps
      /\ a.conflicts = b.conflicts
    BY ScanOfFields, Zenon
<1>2. /\ validate(a) <=> validate(b)
      /\ is_transport_complete(a) <=> is_transport_complete(b)
      /\ StepsOf(a) = StepsOf(b)
    BY ScanOfChecks, Zenon
<1>3. r.fragments # {} /\ Ready(a, c)
    BY UsableIsReady
<1> HIDE DEF a, b
<1>4. profile_scan_allows_analysis(b)
    BY <1>1, <1>2, <1>3, Zenon DEF Ready, profile_scan_allows_analysis, computed_unavailable_steps
<1>5. configuration_resolved(b, c)
    BY <1>1, <1>3, Zenon DEF Ready, configuration_resolved, SettingsMatch
<1>6. Ready(b, c)
    BY <1>1, <1>3, <1>4, <1>5, Zenon DEF Ready
<1>7. QED BY <1>3, <1>6, UsableIsReady, Zenon DEF b

-----------------------------------------------------------------------------
(***************************************************************************)
(* The invariant of the gate.                                              *)
(***************************************************************************)
\* The frames of scan n, and its fragment i as the receiver keeps it.
FramesOf(n) == encode_profile(measured[n].common, measured[n].meta, measured[n].steps)
ViewOf(n, i) == from_view(FramesOf(n)[i])
KeyOfScan(n) == KeyOf(measured[n].common)

\* The node: two scans that an encoder takes, of boots that a nonce tells apart where there is one.
NodeInv ==
    /\ measured \in Histories
    /\ \A n \in 1 .. 2 : encodes_profile(measured[n].common, measured[n].meta, measured[n].steps)
    /\ "boot_id_valid" \in measured[1].common.flags /\ "boot_id_valid" \in measured[2].common.flags =>
          measured[1].common.boot_id # measured[2].common.boot_id

\* A fragment of the record of key k is one of a scan with this key.
Genuine(k, g) ==
    \E n \in 1 .. 2 : /\ KeyOfScan(n) = k
                      /\ \E i \in DOMAIN FramesOf(n) : g = ViewOf(n, i)

\* The record r of key k: the fragments of one scan as far as metadata tell; and nothing contradicts
\* a scan whose boot has a nonce.
RecordInv(k, r) ==
    /\ r = [fragments |-> r.fragments, duplicates |-> r.duplicates, conflicts |-> r.conflicts]
    /\ r.conflicts \in 0 .. MaxCount
    /\ OneScan(r.fragments)
    /\ \A g \in r.fragments : Genuine(k, g)
    /\ \A n \in 1 .. 2 :
          KeyOfScan(n) = k /\ "boot_id_valid" \in measured[n].common.flags => r.conflicts = 0

RecordsInv ==
    /\ records = [k \in Keys |-> records[k]]
    /\ \A k \in Keys : RecordInv(k, records[k])

\* A configuration record is what a node announced.
Announced(c) ==
    \E a \in Configurations :
        /\ encodes_device_config(a.common, a.config)
        /\ c = device_configuration(encode_device_config(a.common, a.config, FALSE))

GateInv == NodeInv /\ RecordsInv /\ (\A c \in known : Announced(c))

\* Two scans of one key, one of which has a nonce, are the same scan.
LEMMA NonceTellsScans ==
    ASSUME NodeInv, NEW n \in 1 .. 2, NEW o \in 1 .. 2, KeyOfScan(n) = KeyOfScan(o),
           "boot_id_valid" \in measured[n].common.flags
    PROVE  n = o
<1>1. /\ measured[n].common.boot_id = measured[o].common.boot_id
      /\ "boot_id_valid" \in measured[o].common.flags
    <2> DEFINE a == measured[n].common
               b == measured[o].common
    <2>1. /\ KeyOf(a).boot_id = KeyOf(b).boot_id
          /\ KeyOf(a).boot_id_valid = KeyOf(b).boot_id_valid
        BY Zenon DEF KeyOfScan
    <2> HIDE DEF a, b
    <2>2. /\ KeyOf(a).boot_id = a.boot_id /\ KeyOf(b).boot_id = b.boot_id
          /\ KeyOf(a).boot_id_valid = ("boot_id_valid" \in a.flags)
          /\ KeyOf(b).boot_id_valid = ("boot_id_valid" \in b.flags)
        BY Zenon DEF KeyOf
    <2>3. ("boot_id_valid" \in a.flags) = ("boot_id_valid" \in b.flags)
        BY <2>1, <2>2, Zenon
    <2>4. "boot_id_valid" \in a.flags
        BY DEF a
    <2>5. "boot_id_valid" \in b.flags /\ a.boot_id = b.boot_id
        BY <2>1, <2>2, <2>3, <2>4, Zenon
    <2>6. QED BY <2>5 DEF a, b
<1>2. \A i, j \in 1 .. 2 : i # j => {i, j} = {1, 2}
    OBVIOUS
<1>3. n # o => (n = 1 /\ o = 2) \/ (n = 2 /\ o = 1)
    OBVIOUS
<1>4. QED BY <1>1, <1>3 DEF NodeInv

\* The fragments of a scan: its identity and metadata, its index, and no other step than required.
LEMMA ViewOfFields ==
    ASSUME NodeInv, NEW n \in 1 .. 2, NEW i \in Nat, i \in DOMAIN FramesOf(n)
    PROVE  /\ ViewOf(n, i).identity = measured[n].common
           /\ ViewOf(n, i).meta = measured[n].meta
           /\ ViewOf(n, i).fragment_index = i
           /\ ViewOf(n, i).steps = FragmentSteps(i, measured[n].meta, measured[n].steps)
           /\ DOMAIN FramesOf(n) =
                 0 .. profile_fragment_count(measured[n].meta.expected_step_count) - 1
           /\ decode(FramesOf(n)[i]) => GoodView(ViewOf(n, i))
<1> DEFINE common == measured[n].common
           m == measured[n].meta
           steps == measured[n].steps
           count == profile_fragment_count(m.expected_step_count)
           f == FramesOf(n)[i]
<1>1. validate_profile(m, steps)
    BY DEF NodeInv, encodes_profile
<1>2. m.expected_step_count \in Nat \ {0}
    BY <1>1, ProtocolAssumption DEF validate_profile
<1> HIDE DEF common, m, steps
<1>3. FramesOf(n) = encode_profile(common, m, steps)
    BY DEF FramesOf, common, m, steps
<1>4. DOMAIN FramesOf(n) = 0 .. count - 1 /\ f = EncodedFrame(common, m, steps, i)
    BY <1>1, <1>3, EncodedProfile, Zenon
<1>5. i \in Nat
    BY <1>2, <1>4, FragmentCounts
<1>6. /\ f.header.frame_type = "ProfileFragment" /\ f.header.common = common
      /\ f.header.fragment_index = i /\ f.payload.meta = m
      /\ f.payload.steps = FragmentSteps(i, m, steps)
      /\ ProfileFrame(f)
    <2> HIDE DEF f, count
    <2>1. f = EncodedFrame(common, m, steps, i)
        BY <1>4
    <2>2. QED BY <1>2, <1>5, <2>1, EncodedFrameFields
<1> HIDE DEF f, count
<1>7. decode(f) => GoodView(from_view(f))
    <2> SUFFICES ASSUME decode(f)
                 PROVE  GoodView(from_view(f))
        OBVIOUS
    <2>1. decode_profile_fragment(f.header, f.payload)
        BY <1>6 DEF decode
    <2>2. f.header.fragment_index < f.header.fragment_count
        BY DEF decode, decode_header
    <2>3. QED BY <1>6, <2>1, <2>2, DecodedProfile
<1>8. /\ from_view(f).identity = common /\ from_view(f).meta = m
      /\ from_view(f).fragment_index = i
      /\ from_view(f).steps = FragmentSteps(i, m, steps)
    BY <1>6, Zenon DEF from_view
<1>9. ViewOf(n, i) = from_view(f)
    BY DEF ViewOf, f
<1>10. QED BY <1>4, <1>7, <1>8, <1>9 DEF common, m, steps, f, count

\* Fragment indices are natural numbers.
LEMMA FramesIndexed ==
    ASSUME NodeInv, NEW n \in 1 .. 2
    PROVE  DOMAIN FramesOf(n) \subseteq Nat
<1> DEFINE m == measured[n].meta
           steps == measured[n].steps
<1>1. validate_profile(m, steps)
    BY DEF NodeInv, encodes_profile
<1>2. m.expected_step_count \in Nat \ {0}
    BY <1>1, ProtocolAssumption DEF validate_profile
<1>3. profile_fragment_count(m.expected_step_count) \in Nat
    BY <1>2, FragmentCounts
<1> HIDE DEF m, steps
<1>4. FramesOf(n) = encode_profile(measured[n].common, m, steps)
    BY DEF FramesOf, m, steps
<1>5. DOMAIN FramesOf(n) = 0 .. profile_fragment_count(m.expected_step_count) - 1
    BY <1>1, <1>4, EncodedProfile
<1>6. QED BY <1>3, <1>5

\* The fragment may join: nothing in the record contradicts it, and its index is free.
MayJoin(r, g) ==
    \A o \in r.fragments : /\ o.identity = g.identity /\ o.meta = g.meta
                           /\ o.fragment_index # g.fragment_index

\* Ingest, case by case.
LEMMA IngestCases ==
    ASSUME NEW r, NEW g,
           r = [fragments |-> r.fragments, duplicates |-> r.duplicates, conflicts |-> r.conflicts]
    PROVE  \/ /\ MayJoin(r, g)
              /\ Ingest(r, g) = [fragments |-> r.fragments \cup {g}, duplicates |-> r.duplicates,
                                 conflicts |-> r.conflicts]
           \/ /\ ~ MayJoin(r, g) /\ g \in r.fragments
              /\ Ingest(r, g) = [fragments |-> r.fragments, duplicates |-> Bump(r.duplicates),
                                 conflicts |-> r.conflicts]
           \/ /\ ~ MayJoin(r, g) /\ g \notin r.fragments
              /\ Ingest(r, g) = [fragments |-> r.fragments, duplicates |-> r.duplicates,
                                 conflicts |-> Bump(r.conflicts)]
<1> DEFINE F == r.fragments
           D == r.duplicates
           C == r.conflicts
<1>1. /\ [r EXCEPT !.fragments = @ \cup {g}] =
            [fragments |-> F \cup {g}, duplicates |-> D, conflicts |-> C]
      /\ [r EXCEPT !.duplicates = Bump(@)] = [fragments |-> F, duplicates |-> Bump(D), conflicts |-> C]
      /\ [r EXCEPT !.conflicts = Bump(@)] = [fragments |-> F, duplicates |-> D, conflicts |-> Bump(C)]
    OBVIOUS
<1>2. g \in F => ~ MayJoin(r, g)
    BY DEF MayJoin
<1>3. Ingest(r, g) =
         CASE MayJoin(r, g)    -> [r EXCEPT !.fragments = @ \cup {g}]
           [] g \in r.fragments -> [r EXCEPT !.duplicates = Bump(@)]
           [] OTHER            -> [r EXCEPT !.conflicts = Bump(@)]
    BY DEF Ingest, MayJoin
<1>4. QED BY <1>1, <1>2, <1>3

\* A fragment leaves the record of its key as the invariant has it.
LEMMA IngestInv ==
    ASSUME NodeInv, NEW k, NEW r, RecordInv(k, r), NEW n \in 1 .. 2, KeyOfScan(n) = k,
           NEW i \in Nat, i \in DOMAIN FramesOf(n), decode(FramesOf(n)[i])
    PROVE  RecordInv(k, Ingest(r, ViewOf(n, i)))
<1> DEFINE g == ViewOf(n, i)
           q == Ingest(r, g)
<1>1. /\ GoodView(g) /\ g.identity = measured[n].common /\ g.meta = measured[n].meta
      /\ g.fragment_index = i
    BY ViewOfFields
<1>2. Genuine(k, g)
    BY DEF Genuine
<1>3. /\ r = [fragments |-> r.fragments, duplicates |-> r.duplicates, conflicts |-> r.conflicts]
      /\ r.conflicts \in 0 .. MaxCount
      /\ OneScan(r.fragments)
      /\ \A h \in r.fragments : Genuine(k, h)
      /\ \A o \in 1 .. 2 :
            KeyOfScan(o) = k /\ "boot_id_valid" \in measured[o].common.flags => r.conflicts = 0
    BY DEF RecordInv
<1> HIDE DEF g
<1>4. CASE MayJoin(r, g) /\ q = [fragments |-> r.fragments \cup {g}, duplicates |-> r.duplicates,
                                 conflicts |-> r.conflicts]
    <2> HIDE DEF q
    <2>1. q.fragments = r.fragments \cup {g} /\ q.conflicts = r.conflicts
          /\ q = [fragments |-> q.fragments, duplicates |-> q.duplicates, conflicts |-> q.conflicts]
        BY <1>4
    <2>2. \A h \in r.fragments : /\ h.identity = g.identity /\ h.meta = g.meta
                                 /\ h.fragment_index # g.fragment_index
        BY <1>4 DEF MayJoin
    <2>3. \A h \in r.fragments : h.expected_fragment_count = g.expected_fragment_count
        BY <1>1, <1>3, <2>2 DEF OneScan, GoodView
    <2>4. OneScan(r.fragments \cup {g})
        BY <1>1, <1>3, <2>2, <2>3 DEF OneScan
    <2>5. \A h \in q.fragments : Genuine(k, h)
        BY <1>2, <1>3, <2>1
    <2>6. QED BY <1>3, <2>1, <2>4, <2>5, Zenon DEF RecordInv, q, g
<1>5. CASE g \in r.fragments /\ q = [fragments |-> r.fragments, duplicates |-> Bump(r.duplicates),
                                     conflicts |-> r.conflicts]
    <2> HIDE DEF q
    <2>1. q.fragments = r.fragments /\ q.conflicts = r.conflicts
          /\ q = [fragments |-> q.fragments, duplicates |-> q.duplicates, conflicts |-> q.conflicts]
        BY <1>5
    <2>2. QED BY <1>3, <2>1, Zenon DEF RecordInv, q, g
<1>6. CASE /\ ~ MayJoin(r, g) /\ g \notin r.fragments
           /\ q = [fragments |-> r.fragments, duplicates |-> r.duplicates,
                   conflicts |-> Bump(r.conflicts)]
    <2> HIDE DEF q
    <2>1. q.fragments = r.fragments /\ q.conflicts = Bump(r.conflicts)
          /\ q = [fragments |-> q.fragments, duplicates |-> q.duplicates, conflicts |-> q.conflicts]
        BY <1>6
    <2>2. PICK h \in r.fragments : ~ /\ h.identity = g.identity /\ h.meta = g.meta
                                     /\ h.fragment_index # g.fragment_index
        BY <1>6 DEF MayJoin
    <2>3. PICK o \in 1 .. 2 : KeyOfScan(o) = k /\ \E j \in DOMAIN FramesOf(o) : h = ViewOf(o, j)
        BY <1>3 DEF Genuine
    <2>4. PICK j \in DOMAIN FramesOf(o) : h = ViewOf(o, j)
        BY <2>3
    <2>5. j \in Nat
        BY FramesIndexed
    <2>6. h.identity = measured[o].common /\ h.meta = measured[o].meta /\ h.fragment_index = j
        BY <2>4, <2>5, ViewOfFields
    <2>7. o # n
        BY <1>1, <1>6, <2>2, <2>4, <2>6 DEF g
    <2>8. ASSUME NEW u \in 1 .. 2, KeyOfScan(u) = k, "boot_id_valid" \in measured[u].common.flags
          PROVE  FALSE
        <3>1. u = n
            BY <2>8, NonceTellsScans
        <3>2. u = o
            BY <2>3, <2>8, NonceTellsScans
        <3>3. QED BY <3>1, <3>2, <2>7
    <2>9. Bump(r.conflicts) \in 0 .. MaxCount
        BY <1>3, GateAssumption DEF Bump
    <2>10. QED BY <1>3, <2>1, <2>8, <2>9, Zenon DEF RecordInv, q, g
<1>7. QED BY <1>3, <1>4, <1>5, <1>6, IngestCases

\* The invariant holds at the start.
LEMMA GateStart == GateInit => GateInv
<1> SUFFICES ASSUME GateInit
             PROVE  GateInv
    OBVIOUS
<1>1. NodeInv
    BY Zenon DEF GateInit, NodeInv
<1>2. records = [k \in Keys |-> Empty]
    BY DEF GateInit
<1>3. Empty.fragments = {} /\ Empty.duplicates = 0 /\ Empty.conflicts = 0
    BY DEF Empty
<1>4. Empty = [fragments |-> Empty.fragments, duplicates |-> Empty.duplicates,
               conflicts |-> Empty.conflicts]
    BY DEF Empty
<1>5. OneScan(Empty.fragments)
    BY <1>3 DEF OneScan
<1>6. ASSUME NEW k
      PROVE  RecordInv(k, Empty)
    <2>1. Empty.conflicts \in 0 .. MaxCount
        BY <1>3, GateAssumption
    <2> HIDE DEF Empty
    <2>2. QED BY <1>3, <1>4, <1>5, <2>1 DEF RecordInv
<1>7. RecordsInv
    <2> HIDE DEF Empty
    <2>1. \A k \in Keys : records[k] = Empty
        BY <1>2
    <2>2. records = [k \in Keys |-> records[k]]
        BY <1>2
    <2>3. QED BY <1>6, <2>1, <2>2 DEF RecordsInv
<1>8. known = {}
    BY DEF GateInit
<1>9. QED BY <1>1, <1>7, <1>8 DEF GateInv

\* What a fragment does to the records.
LEMMA ReceiveFragmentStep ==
    ASSUME GateInv, NEW n \in 1 .. 2, NEW i \in 0 .. MAX_PROFILE_FRAGMENTS - 1, ReceiveFragment(n, i)
    PROVE  /\ i \in Nat /\ i \in DOMAIN FramesOf(n) /\ decode(FramesOf(n)[i])
           /\ KeyOfScan(n) \in Keys
           /\ \A k \in Keys :
                 records'[k] = IF k = KeyOfScan(n) THEN Ingest(records[k], ViewOf(n, i)) ELSE records[k]
           /\ records' = [k \in Keys |-> records'[k]]
           /\ measured' = measured /\ known' = known
<1>1. /\ i \in DOMAIN FramesOf(n) /\ decode(FramesOf(n)[i])
      /\ records' = [records EXCEPT ![KeyOfScan(n)] =
                        Ingest(records[KeyOfScan(n)], ViewOf(n, i))]
      /\ measured' = measured /\ known' = known
    BY DEF ReceiveFragment, FramesOf, ViewOf, KeyOfScan
<1>2. KeyOfScan(n) \in Keys
    BY DEF Keys, KeyOfScan
<1>3. records = [k \in Keys |-> records[k]]
    BY DEF GateInv, RecordsInv
<1>4. i \in Nat
    BY DEF MAX_PROFILE_FRAGMENTS
<1>5. DOMAIN records = Keys
    BY <1>3
<1>6. records' = [k \in Keys |->
                    IF k = KeyOfScan(n) THEN Ingest(records[KeyOfScan(n)], ViewOf(n, i)) ELSE records[k]]
    BY <1>1, <1>2, <1>5
<1>7. QED BY <1>1, <1>2, <1>4, <1>6

\* The definitions over the measured scans do not change when they do not.
LEMMA GateUnchanged ==
    ASSUME measured' = measured
    PROVE  /\ Keys' = Keys
           /\ NodeInv => NodeInv'
           /\ \A k, r : RecordInv(k, r) => RecordInv(k, r)'
<1>1. Keys' = Keys
    BY DEF Keys
<1>2. NodeInv => NodeInv'
    BY DEF NodeInv
<1>3. /\ \A n : KeyOfScan(n)' = KeyOfScan(n) /\ FramesOf(n)' = FramesOf(n)
      /\ \A n, i : ViewOf(n, i)' = ViewOf(n, i)
    BY DEF KeyOfScan, FramesOf, ViewOf
<1>4. \A k, g : Genuine(k, g)' <=> Genuine(k, g)
    BY DEF Genuine, KeyOfScan, FramesOf, ViewOf
<1>5. ASSUME NEW k, NEW r, RecordInv(k, r)
      PROVE  RecordInv(k, r)'
    BY <1>5, <1>4 DEF RecordInv, KeyOfScan
<1>6. QED BY <1>1, <1>2, <1>5

\* ... nor by a step.
LEMMA GateStep == GateInv /\ [GateNext]_GateVars => GateInv'
<1> SUFFICES ASSUME GateInv, [GateNext]_GateVars
             PROVE  GateInv'
    OBVIOUS
<1>1. NodeInv /\ RecordsInv /\ (\A c \in known : Announced(c))
    BY DEF GateInv
<1>2. ASSUME NEW n \in 1 .. 2, NEW i \in 0 .. MAX_PROFILE_FRAGMENTS - 1, ReceiveFragment(n, i)
      PROVE  GateInv'
    <2>1. /\ i \in Nat /\ i \in DOMAIN FramesOf(n) /\ decode(FramesOf(n)[i])
          /\ KeyOfScan(n) \in Keys
          /\ \A k \in Keys : records'[k] =
                IF k = KeyOfScan(n) THEN Ingest(records[k], ViewOf(n, i)) ELSE records[k]
          /\ records' = [k \in Keys |-> records'[k]]
          /\ measured' = measured /\ known' = known
        BY <1>2, ReceiveFragmentStep
    <2>2. \A k \in Keys : RecordInv(k, records[k])
        BY <1>1 DEF RecordsInv
    <2>3. ASSUME NEW k \in Keys
          PROVE  RecordInv(k, records'[k])
        <3>1. CASE k = KeyOfScan(n)
            <4>1. RecordInv(k, Ingest(records[k], ViewOf(n, i)))
                BY <1>1, <2>1, <2>2, <3>1, IngestInv
            <4>2. records'[k] = Ingest(records[k], ViewOf(n, i))
                BY <2>1, <3>1
            <4>3. QED BY <4>1, <4>2
        <3>2. CASE k # KeyOfScan(n)
            BY <2>1, <2>2, <3>2
        <3>3. QED BY <3>1, <3>2
    <2>4. Keys' = Keys /\ NodeInv' /\ \A k, r : RecordInv(k, r) => RecordInv(k, r)'
        BY <1>1, <2>1, GateUnchanged
    <2>5. \A k \in Keys' : RecordInv(k, records[k])'
        <3> SUFFICES ASSUME NEW k \in Keys'
                     PROVE  RecordInv(k, records[k])'
            OBVIOUS
        <3>1. RecordInv(k, records'[k])
            BY <2>3, <2>4
        <3>2. \A r : RecordInv(k, r) => RecordInv(k, r)'
            BY <2>4
        <3>3. QED BY <3>1, <3>2 DEF RecordInv, Genuine, KeyOfScan, FramesOf, ViewOf
    <2>6. RecordsInv'
        BY <2>1, <2>4, <2>5 DEF RecordsInv
    <2>7. \A c \in known' : Announced(c)
        BY <1>1, <2>1
    <2>8. QED BY <2>4, <2>6, <2>7 DEF GateInv
<1>3. ASSUME measured' = measured, records' = records, \A c \in known' : Announced(c)
      PROVE  GateInv'
    <2>1. NodeInv'
        BY <1>1, <1>3, GateUnchanged
    <2>2. RecordsInv'
        BY <1>1, <1>3 DEF RecordsInv, RecordInv, Genuine, Keys, KeyOfScan, FramesOf, ViewOf
    <2>3. QED BY <1>3, <2>1, <2>2 DEF GateInv
<1>4. ASSUME NEW c \in Configurations, ReceiveConfiguration(c)
      PROVE  GateInv'
    <2>1. /\ encodes_device_config(c.common, c.config)
          /\ known' = known \cup {device_configuration(encode_device_config(c.common, c.config, FALSE))}
          /\ measured' = measured /\ records' = records
        BY <1>4 DEF ReceiveConfiguration
    <2>2. \A d \in known' : Announced(d)
        BY <1>1, <2>1 DEF Announced
    <2>3. QED BY <1>3, <2>1, <2>2
<1>5. CASE UNCHANGED GateVars
    BY <1>1, <1>3, <1>5 DEF GateVars
<1>6. QED BY <1>2, <1>4, <1>5 DEF GateNext

\* Only fragments of one scan, and none that contradicts it, make up a record that a nonce
\* identifies (reassembly.rs, database.rs), for any node that restarts between two scans.
THEOREM GateInvariant == GateSpec => []GateInv
<1>1. GateInit => GateInv
    BY GateStart
<1>2. GateInv /\ [GateNext]_GateVars => GateInv'
    BY GateStep
<1>3. QED BY <1>1, <1>2, PTL DEF GateSpec

-----------------------------------------------------------------------------
(***************************************************************************)
(* The properties of the gate.                                             *)
(***************************************************************************)
\* A record is ready only when it was never contradicted and has all its fragments.
LEMMA UsableComplete ==
    ASSUME NEW r, NEW c, OneScan(r.fragments), Usable(r, c)
    PROVE  /\ r.conflicts = 0
           /\ \A g \in r.fragments : /\ "boot_id_valid" \in g.identity.flags
                                     /\ 0 .. g.expected_fragment_count - 1 \subseteq
                                           {h.fragment_index : h \in r.fragments}
                                     /\ StepsOf(finish(r.fragments)) =
                                           step_mask(g.meta.expected_step_count)
<1> DEFINE a == ScanOf(r)
           b == finish(r.fragments)
<1>1. Ready(a, c)
    BY UsableIsReady
<1>2. /\ a.identity = b.identity /\ a.meta = b.meta
      /\ a.conflicts = r.conflicts
    BY ScanOfFields, Zenon
<1>3. /\ is_transport_complete(a) <=> is_transport_complete(b)
      /\ validate(a) <=> validate(b)
      /\ StepsOf(a) = StepsOf(b)
    BY ScanOfChecks, Zenon
<1> HIDE DEF a
<1>4. /\ "boot_id_valid" \in b.identity.flags
      /\ is_transport_complete(b)
      /\ computed_unavailable_steps(a) = {}
      /\ r.conflicts = 0
    BY <1>1, <1>2, <1>3, Zenon DEF Ready, profile_scan_allows_analysis
<1>5. ASSUME NEW g \in r.fragments
      PROVE  /\ "boot_id_valid" \in g.identity.flags
             /\ 0 .. g.expected_fragment_count - 1 \subseteq {h.fragment_index : h \in r.fragments}
             /\ StepsOf(b) = step_mask(g.meta.expected_step_count)
    <2>1. /\ b.identity = g.identity /\ b.meta = g.meta
          /\ b.expected_fragment_count = g.expected_fragment_count
          /\ b.received_fragments = {h.fragment_index : h \in r.fragments}
        BY FinishFacts
    <2>2. \A s : s \in StepsOf(b) =>
             s \in 0 .. g.meta.expected_step_count - 1 /\ s \notin g.meta.missing_steps
        BY <1>4, RecordValid
    <2>3. step_mask(g.meta.expected_step_count) \subseteq StepsOf(b)
        BY <1>2, <1>3, <1>4, <2>1 DEF computed_unavailable_steps
    <2> HIDE DEF b
    <2>4. StepsOf(b) = step_mask(g.meta.expected_step_count)
        BY <2>2, <2>3 DEF step_mask
    <2>5. QED BY <1>4, <2>1, <2>4 DEF is_transport_complete
<1>6. QED BY <1>4, <1>5

\* What a fragment does to a usable record: nothing that matters, or a conflict.
LEMMA UsableStays ==
    ASSUME NEW r, NEW c, NEW g, OneScan(r.fragments), GoodView(g),
           r = [fragments |-> r.fragments, duplicates |-> r.duplicates, conflicts |-> r.conflicts],
           r.conflicts \in 0 .. MaxCount
    PROVE  /\ Usable(r, c) /\ ~ Usable(Ingest(r, g), c) => Ingest(r, g).conflicts > 0
           /\ r.conflicts > 0 => Ingest(r, g).conflicts > 0
<1> DEFINE q == Ingest(r, g)
<1>1. /\ r.conflicts \in Nat /\ Bump(r.conflicts) \in Nat /\ Bump(r.conflicts) > 0
    BY GateAssumption DEF Bump
<1>2. \/ /\ MayJoin(r, g)
         /\ q = [fragments |-> r.fragments \cup {g}, duplicates |-> r.duplicates,
                 conflicts |-> r.conflicts]
      \/ q = [fragments |-> r.fragments, duplicates |-> Bump(r.duplicates), conflicts |-> r.conflicts]
      \/ q = [fragments |-> r.fragments, duplicates |-> r.duplicates, conflicts |-> Bump(r.conflicts)]
    BY IngestCases
<1> HIDE DEF q
<1>3. q.conflicts = r.conflicts \/ q.conflicts = Bump(r.conflicts)
    BY <1>2
<1>4. ASSUME Usable(r, c)
      PROVE  ~ MayJoin(r, g)
    <2>1. r.fragments # {}
        BY <1>4, UsableIsReady
    <2>2. PICK o \in r.fragments : TRUE
        BY <2>1
    <2>3. 0 .. o.expected_fragment_count - 1 \subseteq {h.fragment_index : h \in r.fragments}
        BY <1>4, UsableComplete
    <2>4. SUFFICES ASSUME MayJoin(r, g)
                   PROVE  FALSE
        OBVIOUS
    <2>5. g.meta = o.meta
        BY <2>4 DEF MayJoin
    <2>6. g.fragment_index \in 0 .. o.expected_fragment_count - 1
        BY <2>5 DEF OneScan, GoodView
    <2>7. PICK h \in r.fragments : h.fragment_index = g.fragment_index
        BY <2>3, <2>6
    <2>8. QED BY <2>4, <2>7 DEF MayJoin
<1>5. ASSUME Usable(r, c), q.conflicts = r.conflicts
      PROVE  Usable(q, c)
    <2>1. r.conflicts = 0
        BY <1>5, UsableComplete
    <2>2. q.conflicts # Bump(r.conflicts)
        BY <1>1, <1>5, <2>1
    <2>3. q = [fragments |-> r.fragments, duplicates |-> Bump(r.duplicates), conflicts |-> r.conflicts]
        BY <1>2, <1>4, <1>5, <2>2
    <2>4. q.fragments = r.fragments
        BY <2>3
    <2>5. QED BY <1>5, <2>4, UsableIgnoresDuplicates
<1>6. QED BY <1>1, <1>3, <1>5 DEF q

\* A scan that was ready for analysis stays so when fragments are repeated and configurations
\* arrive; a conflict, and nothing else, takes it back, and for good (analysis.rs,
\* reassembly.rs): for any scans, configurations and bound of the counters.
THEOREM ConflictsWithdraw == GateSpec => OnlyConflictsWithdraw
<1> DEFINE OneMatch ==
        \A k \in Keys, c \in known :
            /\ Usable(records[k], c) /\ ~ Usable(records'[k], c) => records'[k].conflicts > 0
            /\ records[k].conflicts > 0 => ~ Usable(records'[k], c)
<1>1. GateInv /\ GateInv' /\ [GateNext]_GateVars => [OneMatch]_GateVars
    <2> SUFFICES ASSUME GateInv, GateInv', GateNext, NEW k \in Keys, NEW c \in known
                 PROVE  /\ Usable(records[k], c) /\ ~ Usable(records'[k], c) =>
                              records'[k].conflicts > 0
                        /\ records[k].conflicts > 0 => ~ Usable(records'[k], c)
        BY DEF GateVars
    <2>1. /\ NodeInv
          /\ RecordInv(k, records[k])
        BY DEF GateInv, RecordsInv
    <2>2. /\ OneScan(records[k].fragments)
          /\ records[k] = [fragments |-> records[k].fragments, duplicates |-> records[k].duplicates,
                           conflicts |-> records[k].conflicts]
          /\ records[k].conflicts \in 0 .. MaxCount
        BY <2>1 DEF RecordInv
    <2>3. ASSUME NEW n \in 1 .. 2, NEW i \in 0 .. MAX_PROFILE_FRAGMENTS - 1, ReceiveFragment(n, i)
          PROVE  /\ measured' = measured
                 /\ \/ records'[k] = records[k]
                    \/ \E g : GoodView(g) /\ records'[k] = Ingest(records[k], g)
        <3>1. /\ i \in Nat /\ i \in DOMAIN FramesOf(n) /\ decode(FramesOf(n)[i])
              /\ records'[k] =
                    IF k = KeyOfScan(n) THEN Ingest(records[k], ViewOf(n, i)) ELSE records[k]
              /\ measured' = measured
            BY <2>3, ReceiveFragmentStep
        <3>2. GoodView(ViewOf(n, i))
            BY <2>1, <3>1, ViewOfFields
        <3>3. QED BY <3>1, <3>2
    <2>4. ASSUME NEW a \in Configurations, ReceiveConfiguration(a)
          PROVE  measured' = measured /\ records'[k] = records[k]
        BY <2>4 DEF ReceiveConfiguration
    <2>5. /\ measured' = measured
          /\ \/ records'[k] = records[k]
             \/ \E g : GoodView(g) /\ records'[k] = Ingest(records[k], g)
        BY <2>3, <2>4 DEF GateNext
    <2>6. /\ Usable(records[k], c) /\ ~ Usable(records'[k], c) => records'[k].conflicts > 0
          /\ records[k].conflicts > 0 => records'[k].conflicts > 0
        <3>1. CASE records'[k] = records[k]
            BY <3>1
        <3>2. ASSUME NEW g, GoodView(g), records'[k] = Ingest(records[k], g)
              PROVE  /\ Usable(records[k], c) /\ ~ Usable(records'[k], c) => records'[k].conflicts > 0
                     /\ records[k].conflicts > 0 => records'[k].conflicts > 0
            <4> DEFINE r == records[k]
            <4>1. /\ Usable(r, c) /\ ~ Usable(Ingest(r, g), c) => Ingest(r, g).conflicts > 0
                  /\ r.conflicts > 0 => Ingest(r, g).conflicts > 0
                BY <2>2, <3>2, UsableStays
            <4>2. QED BY <3>2, <4>1
        <3>3. QED BY <2>5, <3>1, <3>2
    <2>7. Keys' = Keys
        BY <2>5, GateUnchanged
    <2>8. RecordInv(k, records[k])'
        BY <2>7 DEF GateInv, RecordsInv
    <2>9. OneScan(records'[k].fragments)
        BY <2>8 DEF RecordInv
    <2>10. Usable(records'[k], c) => records'[k].conflicts = 0
        BY <2>9, UsableComplete
    <2>11. records[k].conflicts > 0 => ~ Usable(records'[k], c)
        BY <2>6, <2>10
    <2>12. QED BY <2>6, <2>11
<1>2. GateSpec => [][OneMatch]_GateVars
    BY <1>1, GateInvariant, PTL DEF GateSpec
<1>3. QED BY <1>2 DEF OnlyConflictsWithdraw

\* A configuration with other steps.
LEMMA OtherSteps ==
    ASSUME NEW c, ConfigFields \subseteq DOMAIN c, NEW v, NEW d, d = [c EXCEPT !.steps = v]
    PROVE  /\ ConfigFields \subseteq DOMAIN d
           /\ d.flags = c.flags /\ d.expected_step_count = c.expected_step_count
           /\ d.readback_valid = c.readback_valid /\ d.profile = c.profile
           /\ d.settings = c.settings /\ d.steps = v
BY DEF ConfigFields

\* The record the receiver keeps of an announced configuration: what the node announced, under
\* the hash of it.
LEMMA AnnouncedFields ==
    ASSUME NEW a \in Configurations, encodes_device_config(a.common, a.config), NEW c,
           c = device_configuration(encode_device_config(a.common, a.config, FALSE))
    PROVE  /\ c.identity.config_id = fnv1a64(write_config_payload(a.config))
           /\ c.config.flags = a.config.flags
           /\ c.config.expected_step_count = a.config.expected_step_count
           /\ c.config.readback_valid = a.config.readback_valid
           /\ c.config.profile = a.config.profile
           /\ c.config.settings = a.config.settings
           /\ Len(c.config.steps) = c.config.expected_step_count
           /\ c.config.expected_step_count \in 1 .. MaxSteps
           /\ validate_configuration(c)
<1> DEFINE k == a.config
           p == write_config_payload(k)
           f == encode_device_config(a.common, k, FALSE)
           esc == k.expected_step_count
           d == ConfigOf(p)
<1>1. a.common \in Common /\ ConfigFields \subseteq DOMAIN k
    BY ConfigurationsAssumption
<1>2. validate_config(k)
    BY DEF encodes_device_config
<1>3. esc \in 1 .. MaxSteps /\ k.readback_valid \subseteq step_mask(esc) /\ esc \in Nat
    BY <1>2, ProtocolAssumption DEF validate_config
<1>4. /\ f.payload = p
      /\ f.header.common = [a.common EXCEPT !.config_id = fnv1a64(p), !.flags = a.common.flags \cup {}]
    BY DEF encode_device_config, Header
<1>5. f.header.common.config_id = fnv1a64(p)
    <2> HIDE DEF p, f
    <2>1. QED BY <1>1, <1>4 DEF Common
<1>6. p.base = [k EXCEPT !.steps = None]
    BY DEF write_config_payload
<1> HIDE DEF p, k, f
<1>7. d = [p.base EXCEPT !.steps = [s \in StepIndex |-> IF s < Len(p.steps) THEN p.steps[s + 1] ELSE 0]]
    BY DEF ConfigOf
<1> HIDE DEF d
<1>8. /\ ConfigFields \subseteq DOMAIN p.base
      /\ p.base.flags = k.flags /\ p.base.expected_step_count = esc
      /\ p.base.readback_valid = k.readback_valid /\ p.base.profile = k.profile
      /\ p.base.settings = k.settings
    BY <1>1, <1>6, OtherSteps
<1>9. /\ ConfigFields \subseteq DOMAIN d
      /\ d.flags = k.flags /\ d.expected_step_count = esc
      /\ d.readback_valid = k.readback_valid /\ d.profile = k.profile
      /\ d.settings = k.settings
    BY <1>7, <1>8, OtherSteps
<1>10. /\ c.identity = f.header.common
       /\ c.config = [d EXCEPT !.steps = [j \in 1 .. d.expected_step_count |-> d.steps[j - 1]]]
    BY <1>4 DEF device_configuration, d, f, k
<1>11. /\ c.config.flags = k.flags /\ c.config.expected_step_count = esc
       /\ c.config.readback_valid = k.readback_valid /\ c.config.profile = k.profile
       /\ c.config.settings = k.settings
       /\ c.config.steps = [j \in 1 .. d.expected_step_count |-> d.steps[j - 1]]
    <2> DEFINE z == [j \in 1 .. d.expected_step_count |-> d.steps[j - 1]]
               e == c.config
    <2>1. e = [d EXCEPT !.steps = z]
        BY <1>10
    <2> HIDE DEF z, e
    <2>2. /\ e.flags = d.flags /\ e.expected_step_count = d.expected_step_count
          /\ e.readback_valid = d.readback_valid /\ e.profile = d.profile
          /\ e.settings = d.settings /\ e.steps = z
        BY <1>9, <2>1, OtherSteps
    <2>3. QED BY <1>9, <2>2 DEF e, z
<1>12. Len(c.config.steps) = esc
    <2>1. c.config.steps = [j \in 1 .. esc |-> d.steps[j - 1]]
        BY <1>9, <1>11
    <2> DEFINE z == [j \in 1 .. esc |-> d.steps[j - 1]]
    <2> HIDE DEF esc
    <2>2. Len(z) = esc
        BY <1>3
    <2> HIDE DEF z
    <2>3. QED BY <2>1, <2>2 DEF z
<1>13. validate_configuration(c)
    BY <1>3, <1>11, <1>12 DEF validate_configuration
<1>14. QED BY <1>3, <1>5, <1>10, <1>11, <1>12, <1>13 DEF k, p

\* The hash tells configurations apart as far as analysis relies on it: two with one hash are of one
\* profile, and both or none of them were read back in full.
ReadBackInFull(config) == step_mask(config.expected_step_count) \subseteq config.readback_valid

HashTells ==
    \A m \in Histories, n \in 1 .. 2, a \in Configurations :
        fnv1a64(write_config_payload(a.config)) = fnv1a64(write_config_payload(m[n].config)) =>
            /\ a.config.profile = m[n].config.profile
            /\ ReadBackInFull(a.config) => ReadBackInFull(m[n].config)

\* What the assumptions say of the two scans.
LEMMA NodeScans ==
    ASSUME NodeInv, NEW n \in 1 .. 2
    PROVE  /\ NodeScan(measured[n])
           /\ validate_profile(measured[n].meta, measured[n].steps)
           /\ validate_profile_config_identity(measured[n].common, measured[n].meta)
<1>1. n = 1 \/ n = 2
    OBVIOUS
<1>2. NodeScan(measured[1]) /\ NodeScan(measured[2])
    BY HistoriesAssumption DEF NodeInv
<1>3. encodes_profile(measured[n].common, measured[n].meta, measured[n].steps)
    BY DEF NodeInv
<1>4. QED BY <1>1, <1>2, <1>3, Zenon DEF encodes_profile

\* The steps of a record of a scan with a nonce are those of the scan.
LEMMA GenuineSteps ==
    ASSUME NodeInv, NEW k, NEW r, RecordInv(k, r), NEW n \in 1 .. 2, KeyOfScan(n) = k,
           "boot_id_valid" \in measured[n].common.flags
    PROVE  /\ \A g \in r.fragments : /\ g.meta = measured[n].meta /\ g.identity = measured[n].common
                                     /\ g = ViewOf(n, g.fragment_index)
                                     /\ g.fragment_index \in DOMAIN FramesOf(n)
           /\ \A x \in DOMAIN finish(r.fragments).steps :
                 finish(r.fragments).steps[x] =
                    measured[n].steps[finish(r.fragments).steps[x].step_index]
<1> DEFINE K == r.fragments
           m == measured[n].meta
           steps == measured[n].steps
<1>1. OneScan(K) /\ \A g \in K : Genuine(k, g)
    BY DEF RecordInv
<1>2. ASSUME NEW g \in K
      PROVE  /\ g.meta = m /\ g.identity = measured[n].common
             /\ g = ViewOf(n, g.fragment_index)
             /\ g.fragment_index \in DOMAIN FramesOf(n)
             /\ g.steps = FragmentSteps(g.fragment_index, m, steps)
    <2>1. PICK o \in 1 .. 2 : KeyOfScan(o) = k /\ \E i \in DOMAIN FramesOf(o) : g = ViewOf(o, i)
        BY <1>1 DEF Genuine
    <2>2. o = n
        BY <2>1, NonceTellsScans
    <2>3. PICK i \in DOMAIN FramesOf(n) : g = ViewOf(n, i)
        BY <2>1, <2>2
    <2>4. i \in Nat
        BY FramesIndexed
    <2>5. /\ g.meta = m /\ g.identity = measured[n].common /\ g.fragment_index = i
          /\ g.steps = FragmentSteps(i, m, steps)
        BY <2>3, <2>4, ViewOfFields
    <2>6. QED BY <2>3, <2>5
<1>3. m.expected_step_count \in Nat \ {0}
    BY NodeScans, ProtocolAssumption DEF validate_profile
<1>4. ASSUME NEW x \in DOMAIN finish(K).steps
      PROVE  finish(K).steps[x] = steps[finish(K).steps[x].step_index]
    <2>1. K # {}
        <3>1. SUFFICES ASSUME K = {}
                       PROVE  FALSE
            OBVIOUS
        <3>2. DOMAIN finish(K).steps = {}
            BY <3>1, EmptyRecord
        <3>3. QED BY <3>2
    <2>2. PICK o \in K : TRUE
        BY <2>1
    <2>3. /\ \E h \in K : \E j \in DOMAIN h.steps : x = <<h.fragment_index, j>>
          /\ \A h \in K : \A j \in DOMAIN h.steps : finish(K).steps[<<h.fragment_index, j>>] = h.steps[j]
        BY <1>1, <2>2, FinishFacts
    <2>4. PICK h \in K : \E j \in DOMAIN h.steps : x = <<h.fragment_index, j>>
        BY <2>3
    <2>5. PICK j \in DOMAIN h.steps : x = <<h.fragment_index, j>>
        BY <2>4
    <2>6. finish(K).steps[x] = h.steps[j]
        BY <2>3, <2>5
    <2>7. h.steps = FragmentSteps(h.fragment_index, m, steps) /\ h.meta = m
        BY <1>2
    <2>8. GoodView(h)
        BY <1>1 DEF OneScan
    <2>9. /\ DOMAIN h.steps = 1 .. Cardinality(Required(h.fragment_index, m))
          /\ h.steps[j].step_index = RequiredSteps(h.fragment_index, m)[j]
        BY <2>7, <2>8 DEF GoodView, GoodSteps
    <2>10. h.steps[j] = steps[RequiredSteps(h.fragment_index, m)[j]]
        BY <2>7, <2>9 DEF FragmentSteps
    <2>11. QED BY <2>6, <2>9, <2>10
<1>5. QED BY <1>2, <1>4

\* A usable record holds the steps of one scan, under the configuration it was taken with.
LEMMA UsableOne ==
    ASSUME GateInv, HashTells, NEW k \in Keys, NEW c \in known, Usable(records[k], c)
    PROVE  \E n \in 1 .. 2 :
               LET steps  == ScanOf(records[k]).steps
                   config == measured[n].config
               IN /\ KeyOf(measured[n].common) = k
                  /\ \A s \in step_mask(measured[n].meta.expected_step_count) :
                        \E j \in DOMAIN steps : steps[j] = measured[n].steps[s]
                  /\ c.identity.origin = measured[n].common.origin
                  /\ config.settings = c.config.settings
                  /\ \A s \in step_mask(config.expected_step_count) :
                        s \in config.readback_valid /\ config.steps[s] = 2
<1> DEFINE r == records[k]
           K == r.fragments
           S == finish(K).steps
           a == ScanOf(r)
<1>1. NodeInv /\ RecordInv(k, r) /\ Announced(c)
    BY DEF GateInv, RecordsInv
<1>2. OneScan(K) /\ \A g \in K : Genuine(k, g)
    BY <1>1 DEF RecordInv
<1>3. Ready(a, c) /\ K # {}
    BY UsableIsReady
<1>4. PICK g \in K : TRUE
    BY <1>3
<1>5. /\ "boot_id_valid" \in g.identity.flags
      /\ StepsOf(finish(K)) = step_mask(g.meta.expected_step_count)
    BY <1>2, <1>4, UsableComplete
<1>6. PICK n \in 1 .. 2 : KeyOfScan(n) = k /\ \E i \in DOMAIN FramesOf(n) : g = ViewOf(n, i)
    BY <1>2 DEF Genuine
<1>7. "boot_id_valid" \in measured[n].common.flags
    <2>1. PICK i \in DOMAIN FramesOf(n) : g = ViewOf(n, i)
        BY <1>6
    <2>2. i \in Nat
        BY <1>1, FramesIndexed
    <2>3. g.identity = measured[n].common
        BY <1>1, <2>1, <2>2, ViewOfFields
    <2>4. QED BY <1>5, <2>3
<1> DEFINE m == measured[n].meta
           own == measured[n].config
           steps == measured[n].steps
<1>8. /\ g.meta = m /\ g.identity = measured[n].common
      /\ \A x \in DOMAIN S : S[x] = steps[S[x].step_index]
    BY <1>1, <1>4, <1>6, <1>7, GenuineSteps
<1>9. /\ a.identity = measured[n].common /\ a.meta = m /\ a.steps = S
    <2>1. finish(K).identity = g.identity /\ finish(K).meta = g.meta
        BY <1>2, <1>4, FinishFacts
    <2>2. a.identity = finish(K).identity /\ a.meta = finish(K).meta /\ a.steps = S
        BY ScanOfFields, Zenon
    <2>3. QED BY <1>8, <2>1, <2>2
<1>10. NodeScan(measured[n]) /\ validate_profile(m, steps)
    BY <1>1, NodeScans
<1>11. /\ SettingsPerStep(own)
       /\ own.expected_step_count = m.expected_step_count
       /\ measured[n].common.config_id \in {0, fnv1a64(write_config_payload(own))}
       /\ \A s \in StepIndex : steps[s] # None => steps[s].settings = own.settings[s]
       /\ \A s \in own.readback_valid : own.steps[s] = 2
    BY <1>10 DEF NodeScan
<1>12. m.expected_step_count \in 1 .. MaxSteps /\ \A s \in StepIndex :
          s < m.expected_step_count /\ s \notin m.missing_steps => steps[s] # None
    BY <1>10 DEF validate_profile
<1>13. /\ "read_back" \in c.config.flags
       /\ c.config.readback_valid = step_mask(c.config.expected_step_count)
       /\ c.identity.origin = a.identity.origin
       /\ c.identity.config_id = a.identity.config_id
       /\ c.config.expected_step_count = a.meta.expected_step_count
       /\ SettingsMatch(a, c)
    BY <1>3 DEF Ready, configuration_resolved
<1>14. PICK b \in Configurations :
          /\ encodes_device_config(b.common, b.config)
          /\ c = device_configuration(encode_device_config(b.common, b.config, FALSE))
    BY <1>1 DEF Announced
<1>15. /\ c.identity.config_id = fnv1a64(write_config_payload(b.config))
       /\ c.config.expected_step_count = b.config.expected_step_count
       /\ c.config.readback_valid = b.config.readback_valid
       /\ c.config.settings = b.config.settings
    BY <1>14, AnnouncedFields
<1>16. /\ SettingsPerStep(b.config) /\ fnv1a64(write_config_payload(b.config)) # 0
    BY <1>14, ConfigurationsAssumption DEF encodes_device_config, device_config_id
<1> HIDE DEF a, S, m, own, steps
<1>17. \A s \in step_mask(m.expected_step_count) :
          \E x \in DOMAIN S : S[x].step_index = s /\ S[x] = steps[s]
    <2>1. \A s \in StepsOf(finish(K)) : \E x \in DOMAIN S : S[x].step_index = s
        BY DEF StepsOf, S
    <2>2. QED BY <1>5, <1>8, <2>1
<1>18. \A s \in step_mask(m.expected_step_count) :
          c.config.settings[s] = own.settings[s]
    <2> SUFFICES ASSUME NEW s \in step_mask(m.expected_step_count)
                 PROVE  c.config.settings[s] = own.settings[s]
        OBVIOUS
    <2>1. PICK x \in DOMAIN S : S[x].step_index = s /\ S[x] = steps[s]
        BY <1>17
    <2>2. c.config.settings[s] = S[x].settings
        BY <1>9, <1>13, <2>1 DEF SettingsMatch
    <2>3. s \in StepIndex /\ s < m.expected_step_count
        BY <1>12, ProtocolAssumption DEF step_mask, StepIndex
    <2>4. s \notin m.missing_steps
        <3>1. \A y \in DOMAIN S : S[y].step_index \notin g.meta.missing_steps
            BY <1>2, <1>4, RecordSteps DEF S
        <3>2. QED BY <1>8, <2>1, <3>1
    <2>5. steps[s].settings = own.settings[s]
        BY <1>11, <1>12, <2>3, <2>4
    <2>6. QED BY <2>1, <2>2, <2>5
<1>19. own.settings = c.config.settings
    <2>1. /\ b.config.expected_step_count = m.expected_step_count
          /\ own.expected_step_count = m.expected_step_count
        BY <1>9, <1>11, <1>13, <1>15
    <2>2. /\ b.config.settings =
                [s \in step_mask(b.config.expected_step_count) |-> b.config.settings[s]]
          /\ own.settings = [s \in step_mask(own.expected_step_count) |-> own.settings[s]]
        BY <1>11, <1>16 DEF SettingsPerStep
    <2> DEFINE M == step_mask(m.expected_step_count)
    <2>3. /\ b.config.settings = [s \in M |-> b.config.settings[s]]
          /\ own.settings = [s \in M |-> own.settings[s]]
        BY <2>1, <2>2
    <2> HIDE DEF M
    <2>4. \A s \in M : b.config.settings[s] = own.settings[s]
        BY <1>15, <1>18 DEF M
    <2>5. [s \in M |-> b.config.settings[s]] = [s \in M |-> own.settings[s]]
        BY <2>4
    <2>6. QED BY <1>15, <2>3, <2>5
<1>20. \A s \in step_mask(own.expected_step_count) : s \in own.readback_valid /\ own.steps[s] = 2
    <2>1. fnv1a64(write_config_payload(b.config)) = fnv1a64(write_config_payload(own))
        BY <1>9, <1>11, <1>13, <1>15, <1>16
    <2>2. ReadBackInFull(b.config)
        BY <1>13, <1>15 DEF ReadBackInFull
    <2>3. measured \in Histories
        BY <1>1 DEF NodeInv
    <2>4. ReadBackInFull(own)
        BY <2>1, <2>2, <2>3 DEF HashTells, own
    <2>5. QED BY <1>11, <2>4 DEF ReadBackInFull
<1>21. /\ KeyOf(measured[n].common) = k
       /\ c.identity.origin = measured[n].common.origin
    BY <1>6, <1>9, <1>13 DEF KeyOfScan
<1>22. \A s \in step_mask(measured[n].meta.expected_step_count) :
          \E j \in DOMAIN ScanOf(records[k]).steps :
             ScanOf(records[k]).steps[j] = measured[n].steps[s]
    BY <1>9, <1>17 DEF a, m, steps
<1>23. QED BY <1>19, <1>20, <1>21, <1>22 DEF own

\* docs/server-analysis.md:103-125 for any scans, settings and configurations: a usable scan is one
\* scan of the node, taken with the settings of the configuration in force, all read back.
THEOREM UsableScansAreOne == ASSUME HashTells PROVE GateSpec => []UsableIsOneScan
<1>1. GateInv => UsableIsOneScan
    BY UsableOne DEF UsableIsOneScan
<1>2. QED BY <1>1, GateInvariant, PTL

\* As many fragments as a scan has indices are all its fragments.
LEMMA AllIndices ==
    ASSUME NEW K, OneScan(K), NEW count \in Nat, Cardinality(K) = count,
           \A g \in K : g.fragment_index \in 0 .. count - 1
    PROVE  0 .. count - 1 \subseteq {g.fragment_index : g \in K}
<1> DEFINE f == [g \in K |-> g.fragment_index]
           I == 0 .. count - 1
<1>1. f \in Injection(K, I)
    <2>1. f \in [K -> I]
        OBVIOUS
    <2>2. \A g, h \in K : f[g] = f[h] => g = h
        BY DEF OneScan
    <2>3. QED BY <2>1, <2>2 DEF Injection, IsInjective
<1>2. IsFiniteSet(I) /\ Cardinality(I) = count
    BY FS_Interval
<1> HIDE DEF I
<1>3. f \in Surjection(K, I)
    BY <1>1, <1>2, FS_Injection
<1>4. \A i \in I : \E g \in K : f[g] = i
    BY <1>3 DEF Surjection
<1>5. \A i \in I : \E g \in K : g.fragment_index = i
    BY <1>4
<1>6. QED BY <1>5 DEF I

\* Intervals from 0 tell their ends.
LEMMA MasksTell ==
    ASSUME NEW a \in Nat \ {0}, NEW b \in Nat \ {0}, step_mask(a) = step_mask(b)
    PROVE  a = b
<1>1. a - 1 \in 0 .. a - 1 /\ b - 1 \in 0 .. b - 1
    OBVIOUS
<1>2. a - 1 \in 0 .. b - 1 /\ b - 1 \in 0 .. a - 1
    BY <1>1 DEF step_mask
<1>3. QED BY <1>2

\* A scan without faults is ready when all has arrived.
LEMMA CleanOne ==
    ASSUME GateInv, HashTells, NEW n \in 1 .. 2, NEW c \in known, Clean(n),
           Cardinality(records[KeyOfScan(n)].fragments) =
              profile_fragment_count(measured[n].config.expected_step_count),
           c.identity.origin = measured[n].common.origin,
           c.config.settings = measured[n].config.settings,
           c.identity.config_id = measured[n].common.config_id,
           "read_back" \in c.config.flags,
           c.config.readback_valid = step_mask(c.config.expected_step_count)
    PROVE  Usable(records[KeyOfScan(n)], c)
<1> DEFINE k == KeyOfScan(n)
           r == records[k]
           K == r.fragments
           S == finish(K).steps
           a == ScanOf(r)
           m == measured[n].meta
           own == measured[n].config
           steps == measured[n].steps
           count == profile_fragment_count(m.expected_step_count)
<1>1. NodeInv /\ RecordInv(k, r) /\ Announced(c)
    <2>1. k \in Keys
        BY DEF Keys, KeyOfScan
    <2>2. QED BY <2>1 DEF GateInv, RecordsInv
<1>2. /\ "boot_id_valid" \in measured[n].common.flags
      /\ m.finish_reason = "complete" /\ m.missing_steps = {} /\ m.anomalies = 0
      /\ m.collection_flags \subseteq ANALYSIS_ALLOWED_COLLECTION_FLAGS
      /\ \A s \in step_mask(m.expected_step_count) :
            /\ steps[s].status_bits = {"new_data", "gas_valid", "heater_stable"}
            /\ steps[s].out_of_range = {} /\ ~ steps[s].gas_zero
    BY DEF Clean, ANALYSIS_ALLOWED_COLLECTION_FLAGS
<1>3. /\ OneScan(K) /\ r.conflicts = 0
    BY <1>1, <1>2 DEF RecordInv
<1>4. /\ \A g \in K : /\ g.meta = m /\ g.identity = measured[n].common
                      /\ g.fragment_index \in DOMAIN FramesOf(n)
      /\ \A x \in DOMAIN S : S[x] = steps[S[x].step_index]
    <2>1. KeyOfScan(n) = k
        OBVIOUS
    <2> HIDE DEF k, r
    <2>2. QED BY <1>1, <1>2, <2>1, GenuineSteps
<1>5. NodeScan(measured[n]) /\ validate_profile(m, steps)
    BY <1>1, NodeScans
<1>6. /\ SettingsPerStep(own)
      /\ own.expected_step_count = m.expected_step_count /\ own.profile = m.profile
      /\ measured[n].common.config_id \in {0, fnv1a64(write_config_payload(own))}
      /\ \A s \in StepIndex : steps[s] # None => steps[s].settings = own.settings[s]
    BY <1>5 DEF NodeScan
<1>7. /\ m.expected_step_count \in 1 .. MaxSteps
      /\ \A s \in StepIndex :
            s < m.expected_step_count /\ s \notin m.missing_steps => steps[s] # None
    BY <1>5 DEF validate_profile
<1>8. m.expected_step_count \in Nat \ {0} /\ count \in Nat \ {0}
    BY <1>7, ProtocolAssumption, FragmentCounts
<1>9. K # {} /\ Cardinality(K) = count
    BY <1>6, <1>8, FS_EmptySet
<1>10. \A g \in K : /\ g.expected_fragment_count = count
                    /\ g.fragment_index \in 0 .. count - 1
    BY <1>3, <1>4 DEF OneScan, GoodView
<1>11. 0 .. count - 1 \subseteq {g.fragment_index : g \in K}
    BY <1>3, <1>8, <1>9, <1>10, AllIndices
<1>12. PICK g \in K : TRUE
    BY <1>9
<1>13. /\ finish(K).identity = measured[n].common /\ finish(K).meta = m
       /\ is_transport_complete(finish(K))
    BY <1>3, <1>4, <1>10, <1>11, <1>12, FinishFacts DEF is_transport_complete
<1>14. /\ validate(finish(K))
       /\ \A s : s \in StepsOf(finish(K)) <=> s \in 0 .. m.expected_step_count - 1
    BY <1>2, <1>3, <1>4, <1>12, <1>13, RecordValid
<1>15. /\ a.identity = measured[n].common /\ a.meta = m /\ a.steps = S /\ a.conflicts = 0
       /\ validate(a) /\ is_transport_complete(a) /\ StepsOf(a) = StepsOf(finish(K))
    BY <1>3, <1>13, <1>14, ScanOfFields, ScanOfChecks, Zenon
<1>16. \A x \in DOMAIN S : /\ S[x].step_index \in 0 .. m.expected_step_count - 1
                           /\ S[x] = steps[S[x].step_index]
    BY <1>3, <1>4, <1>12, RecordSteps
<1> HIDE DEF a, S, m, own, steps, count, k
<1>17. profile_scan_allows_analysis(a)
    <2>1. computed_unavailable_steps(a) = {}
        BY <1>14, <1>15 DEF computed_unavailable_steps, step_mask
    <2>2. QED BY <1>2, <1>15, <2>1 DEF profile_scan_allows_analysis
<1>18. \A x \in DOMAIN a.steps : sample_quality(a.steps[x]) = {}
    <2> SUFFICES ASSUME NEW x \in DOMAIN S
                 PROVE  sample_quality(S[x]) = {}
        BY <1>15
    <2>1. /\ S[x].status_bits = {"new_data", "gas_valid", "heater_stable"}
          /\ S[x].out_of_range = {} /\ ~ S[x].gas_zero
        BY <1>2, <1>16 DEF step_mask
    <2>2. {TRUE} \cap {S[x].gas_zero} = {}
        BY <2>1, Zenon
    <2>3. QED BY <2>1, <2>2 DEF sample_quality
<1>19. PICK b \in Configurations :
          /\ encodes_device_config(b.common, b.config)
          /\ c = device_configuration(encode_device_config(b.common, b.config, FALSE))
    BY <1>1 DEF Announced
<1>20. /\ c.identity.config_id = fnv1a64(write_config_payload(b.config))
       /\ c.config.expected_step_count = b.config.expected_step_count
       /\ c.config.profile = b.config.profile
       /\ c.config.settings = b.config.settings
       /\ Len(c.config.steps) = c.config.expected_step_count
       /\ c.config.expected_step_count \in 1 .. MaxSteps
       /\ validate_configuration(c)
    BY <1>19, AnnouncedFields
<1>21. /\ SettingsPerStep(b.config) /\ fnv1a64(write_config_payload(b.config)) # 0
    BY <1>19, ConfigurationsAssumption DEF encodes_device_config, device_config_id
<1>22. c.config.profile = m.profile
    <2>1. fnv1a64(write_config_payload(b.config)) = fnv1a64(write_config_payload(own))
        BY <1>6, <1>20, <1>21
    <2>2. measured \in Histories
        BY <1>1 DEF NodeInv
    <2>3. b.config.profile = own.profile
        BY <2>1, <2>2 DEF HashTells, own
    <2>4. QED BY <1>6, <1>20, <2>3
<1>23. c.config.expected_step_count = m.expected_step_count
    <2>1. /\ DOMAIN b.config.settings = step_mask(b.config.expected_step_count)
          /\ DOMAIN own.settings = step_mask(own.expected_step_count)
        BY <1>6, <1>21 DEF SettingsPerStep
    <2>2. b.config.settings = own.settings
        BY <1>20 DEF own
    <2>3. step_mask(b.config.expected_step_count) = step_mask(m.expected_step_count)
        BY <1>6, <2>1, <2>2
    <2>4. b.config.expected_step_count \in Nat \ {0}
        BY <1>20, ProtocolAssumption
    <2>5. QED BY <1>8, <1>20, <2>3, <2>4, MasksTell
<1>24. SettingsMatch(a, c)
    <2> SUFFICES ASSUME NEW x \in DOMAIN S
                 PROVE  /\ S[x].step_index < Len(c.config.steps)
                        /\ c.config.settings[S[x].step_index] = S[x].settings
        BY <1>15 DEF SettingsMatch
    <2> DEFINE s == S[x].step_index
    <2>1. s \in 0 .. m.expected_step_count - 1 /\ S[x] = steps[s]
        BY <1>16
    <2> HIDE DEF s
    <2>2. s \in StepIndex /\ s < m.expected_step_count /\ s \notin m.missing_steps
        BY <1>2, <1>7, <2>1, ProtocolAssumption DEF StepIndex
    <2>3. S[x].settings = own.settings[s]
        BY <1>6, <1>7, <2>1, <2>2
    <2>4. s < Len(c.config.steps)
        BY <1>20, <1>23, <2>2
    <2>5. QED BY <2>3, <2>4 DEF s, own
<1>25. configuration_resolved(a, c)
    BY <1>15, <1>20, <1>22, <1>23, <1>24 DEF configuration_resolved
<1>26. Ready(a, c)
    BY <1>17, <1>18, <1>25 DEF Ready
<1>27. QED BY <1>9, <1>26, UsableIsReady DEF a, k

\* docs/server-analysis.md:120-140 for any scans and configurations: the gate is not too strict, a
\* scan without faults is usable once its fragments and its configuration have arrived.
THEOREM CleanScansBecomeUsable == ASSUME HashTells PROVE GateSpec => []CleanBecomesUsable
<1>1. GateInv => CleanBecomesUsable
    BY CleanOne DEF CleanBecomesUsable, KeyOfScan
<1>2. QED BY <1>1, GateInvariant, PTL

-----------------------------------------------------------------------------
(***************************************************************************)
(* The frames encoders write are frames decoders accept.                   *)
(***************************************************************************)
\* The decoder takes f, fragment i of n, which fits the longest frame that is announced.
Sound(f, i, n) ==
    LET h == f.header
    IN /\ decode(f)
       /\ encode_header(h.common, h.fragment_index, h.fragment_count, h.payload_len)
       /\ HEADER_LEN + h.payload_len <= MAX_V2_FRAME_LEN
       /\ h.fragment_index = i
       /\ h.fragment_count = n

\* A fragment has at most three steps, and a scan at most four fragments.
LEMMA FragmentBounds ==
    ASSUME NEW i \in Nat, NEW m, m.expected_step_count \in 1 .. MaxSteps
    PROVE  /\ Cardinality(Required(i, m)) \in 0 .. 3
           /\ profile_fragment_count(m.expected_step_count) \in 1 .. MAX_PROFILE_FRAGMENTS
           /\ m.expected_step_count \in Nat \ {0}
<1>1. m.expected_step_count \in 1 .. 10
    BY ProtocolAssumption
<1>2. profile_fragment_count(m.expected_step_count) \in 1 .. MAX_PROFILE_FRAGMENTS
    BY <1>1 DEF profile_fragment_count, STEPS_PER_FRAGMENT, MAX_PROFILE_FRAGMENTS
<1>3. Required(i, m) \subseteq 3 * i .. 3 * i + 2
    BY <1>1 DEF Required, Window, WindowStart, STEPS_PER_FRAGMENT
<1>4. IsFiniteSet(3 * i .. 3 * i + 2) /\ Cardinality(3 * i .. 3 * i + 2) = 3
    BY FS_Interval
<1>5. IsFiniteSet(Required(i, m)) /\ Cardinality(Required(i, m)) <= 3
    BY <1>3, <1>4, FS_Subset
<1>6. Cardinality(Required(i, m)) \in Nat
    BY <1>5, FS_CardinalityType
<1>7. QED BY <1>1, <1>2, <1>5, <1>6

\* Every fragment of a scan that the encoder takes is accepted.
LEMMA ScanFramesSound ==
    ASSUME NEW common, NEW m, NEW steps, encodes_profile(common, m, steps),
           NEW i, i \in DOMAIN encode_profile(common, m, steps)
    PROVE  Sound(encode_profile(common, m, steps)[i], i,
                 profile_fragment_count(m.expected_step_count))
<1> DEFINE f == EncodedFrame(common, m, steps, i)
           esc == m.expected_step_count
           count == profile_fragment_count(esc)
           n == Cardinality(Required(i, m))
<1>1. /\ validate_profile(m, steps) /\ validate_profile_config_identity(common, m)
      /\ ValidCommon(common)
    BY DEF encodes_profile
<1>2. i \in 0 .. count - 1 /\ encode_profile(common, m, steps)[i] = f
    BY <1>1, EncodedProfile
<1>3. esc \in 1 .. MaxSteps
    BY <1>1 DEF validate_profile
<1>4. i \in Nat /\ n \in 0 .. 3 /\ count \in 1 .. MAX_PROFILE_FRAGMENTS /\ esc \in Nat \ {0}
    <2>1. i \in Nat
        BY <1>2
    <2>2. QED BY <1>3, <2>1, FragmentBounds
<1>5. \A k \in 1 .. n : /\ RequiredSteps(i, m)[k] \in 0 .. esc - 1
                        /\ RequiredSteps(i, m)[k] \notin m.missing_steps
    BY <1>4, RequiredFacts
<1>6. DOMAIN RequiredSteps(i, m) = 1 .. n /\ Len(RequiredSteps(i, m)) = n
    BY <1>4, RequiredFacts
<1>7. \A k \in 1 .. n : FragmentSteps(i, m, steps)[k] = steps[RequiredSteps(i, m)[k]]
    BY DEF FragmentSteps
<1>8. \A k \in 1 .. n :
          /\ FragmentSteps(i, m, steps)[k].step_index = RequiredSteps(i, m)[k]
          /\ validate_profile_step(FragmentSteps(i, m, steps)[k])
    <2> HIDE DEF n, esc
    <2>1. \A s \in 0 .. esc - 1 : s \notin m.missing_steps =>
             steps[s].step_index = s /\ validate_profile_step(steps[s])
        BY <1>1, <1>3, ProtocolAssumption DEF validate_profile, StepIndex, esc
    <2>2. QED BY <1>5, <1>7, <2>1
<1>9. /\ f.header.discriminator /\ f.header.frame_type = "ProfileFragment"
      /\ f.header.common = common
      /\ f.header.fragment_index = i
      /\ f.header.fragment_count = count
      /\ f.header.payload_len = ProfilePayloadLen(f.payload)
      /\ f.payload.schema /\ f.payload.meta = m
      /\ f.payload.steps_in_fragment = n
      /\ f.payload.step_window_start = WindowStart(i)
      /\ f.payload.steps = FragmentSteps(i, m, steps)
      /\ f.payload.extra = 0
      /\ Len(f.payload.steps) = n
    BY <1>4, EncodedFrameFields
<1> HIDE DEF f, n, count, esc
<1>10. ProfilePayloadLen(f.payload) = 42 + 47 * n
    BY <1>4, <1>9 DEF ProfilePayloadLen, PROFILE_FRAGMENT_META_LEN, PROFILE_STEP_LEN
<1>11. StepsChecked(f.header, f.payload)
    BY <1>4, <1>6, <1>8, <1>9, <1>10 DEF StepsChecked, PROFILE_FRAGMENT_META_LEN, PROFILE_STEP_LEN
<1>12. WindowChecked(f.header, f.payload)
    BY <1>9 DEF WindowChecked
<1>13. decode_profile_fragment(f.header, f.payload)
    <2>1. /\ m.profile_identity
          /\ ensure_known(m.collection_flags)
          /\ m.finish_reason # "unknown"
          /\ "stale_pre_scan_fields" \in m.collection_flags => m.intermediate_field_count # 0
          /\ m.missing_steps \cup m.duplicate_steps \subseteq step_mask(m.expected_step_count)
          /\ m.observed_unique_step_count = m.expected_step_count - Cardinality(m.missing_steps)
          /\ m.observed_field_count >= m.observed_unique_step_count
        BY <1>1 DEF validate_profile
    <2>2. m.expected_step_count \in 1 .. MaxSteps
          /\ f.header.fragment_count = profile_fragment_count(m.expected_step_count)
        BY <1>3, <1>9 DEF esc, count
    <2>3. validate_profile_config_identity(f.header.common, m) /\ f.payload.meta = m
          /\ f.payload.schema
        BY <1>1, <1>9
    <2>4. QED BY <1>11, <1>12, <2>1, <2>2, <2>3, Zenon DEF decode_profile_fragment
<1>14. PayloadLen(f) = ProfilePayloadLen(f.payload)
    BY <1>9 DEF PayloadLen
<1>15. decode_header(f.header, HEADER_LEN + PayloadLen(f))
    <2>1. /\ f.header.payload_len = ProfilePayloadLen(f.payload)
          /\ PayloadLen(f) = 42 + 47 * n
          /\ f.header.discriminator /\ f.header.common = common
          /\ f.header.fragment_index = i /\ f.header.fragment_count = count
        BY <1>9, <1>10, <1>14, Zenon
    <2>2. f.header.fragment_index < f.header.fragment_count
        BY <1>2, <1>4, <2>1
    <2>3. HEADER_LEN + PayloadLen(f) >= HEADER_LEN
        BY <1>4, <2>1 DEF HEADER_LEN
    <2>4. f.header.payload_len = PayloadLen(f)
        BY <1>14, <2>1, Zenon
    <2>5. QED BY <1>1, <2>1, <2>2, <2>3, <2>4, Zenon DEF decode_header
<1>16. decode(f)
    BY <1>9, <1>13, <1>15 DEF decode
<1>17. /\ encode_header(f.header.common, f.header.fragment_index, f.header.fragment_count,
                        f.header.payload_len)
       /\ HEADER_LEN + f.header.payload_len <= MAX_V2_FRAME_LEN
    <2>1. f.header.payload_len \in 0 .. 183
        <3> DEFINE length == f.header.payload_len
        <3>1. length = 42 + 47 * n
            BY <1>9, <1>10, Zenon
        <3> HIDE DEF length
        <3>2. length \in 0 .. 183
            BY <1>4, <3>1
        <3>3. QED BY <3>2 DEF length
    <2>2. f.header.fragment_index < f.header.fragment_count
        BY <1>2, <1>4, <1>9
    <2>3. ValidCommon(f.header.common)
        BY <1>1, <1>9, Zenon
    <2>4. /\ HEADER_LEN + f.header.payload_len <= MAX_PHY_FRAME_LEN
          /\ HEADER_LEN + f.header.payload_len <= MAX_V2_FRAME_LEN
        BY <2>1 DEF HEADER_LEN, MAX_V2_FRAME_LEN, MAX_PHY_FRAME_LEN,
                    PROFILE_FRAGMENT_META_LEN, PROFILE_STEP_LEN, STEPS_PER_FRAGMENT
    <2>5. QED BY <2>2, <2>3, <2>4, Zenon DEF encode_header
<1>18. Sound(f, i, count)
    BY <1>9, <1>16, <1>17 DEF Sound
<1>19. QED BY <1>2, <1>18 DEF count, esc

\* A function is what its values say.
Fcn(c) == c = [x \in DOMAIN c |-> c[x]]

\* What a configuration record is a function of.
ConfigRecordFields ==
    {"flags", "build_flags", "build_id", "output_routes", "profile_identity", "in_range",
     "expected_step_count", "readback_valid", "hash_algorithm", "calibration_hash", "steps"}

\* A configuration record is a function of its fields.
LEMMA ConfigRecordShape ==
    ASSUME NEW c \in ConfigRecord
    PROVE  /\ Fcn(c) /\ DOMAIN c = ConfigRecordFields
           /\ c.steps \in [StepIndex -> 0 .. 2]
           /\ c.expected_step_count \in Nat
<1>1. QED BY DEF ConfigRecord, Fcn, ConfigRecordFields

\* A configuration payload that can be in the air: any base without steps, and whole steps.
AirConfig(p) ==
    /\ p = [schema |-> p.schema, base |-> p.base, steps |-> p.steps, extra |-> p.extra]
    /\ p.schema \in BOOLEAN
    /\ Fcn(p.base) /\ DOMAIN p.base = ConfigRecordFields /\ p.base.steps = None
    /\ p.steps \in Seq(0 .. 2)
    /\ p.extra \in 0 .. 1

\* What the receiver reads is what the node wrote.
LEMMA ConfigReads ==
    ASSUME NEW c \in ConfigRecord, validate_config(c), NEW p, p = write_config_payload(c)
    PROVE  /\ AirConfig(p)
           /\ p.schema /\ p.extra = 0
           /\ p.base.expected_step_count = c.expected_step_count
           /\ Len(p.steps) = c.expected_step_count
           /\ c.expected_step_count \in 1 .. MaxSteps
           /\ ConfigOf(p) = c
<1> DEFINE esc == c.expected_step_count
           read == [s \in StepIndex |-> IF s < Len(p.steps) THEN p.steps[s + 1] ELSE 0]
<1>1. Fcn(c) /\ DOMAIN c = ConfigRecordFields /\ c.steps \in [StepIndex -> 0 .. 2]
    BY ConfigRecordShape
<1>2. /\ esc \in 1 .. MaxSteps /\ MaxSteps \in Nat
      /\ \A s \in StepIndex : s >= esc => c.steps[s] = 0
    BY ProtocolAssumption DEF validate_config
<1>3. /\ p.schema = TRUE /\ p.base = [c EXCEPT !.steps = None]
      /\ p.steps = [k \in 1 .. esc |-> c.steps[k - 1]] /\ p.extra = 0
      /\ p = [schema |-> p.schema, base |-> p.base, steps |-> p.steps, extra |-> p.extra]
    BY DEF write_config_payload
<1> HIDE DEF esc
<1>4. Len(p.steps) = esc
    BY <1>2, <1>3
<1>5. p.steps \in Seq(0 .. 2)
    <2>1. \A k \in 1 .. esc : c.steps[k - 1] \in 0 .. 2
        BY <1>1, <1>2 DEF StepIndex
    <2>2. QED BY <1>2, <1>3, <2>1
<1>6. /\ Fcn(p.base) /\ DOMAIN p.base = ConfigRecordFields /\ p.base.steps = None
      /\ p.base.expected_step_count = esc
    BY <1>1, <1>3 DEF Fcn, ConfigRecordFields, esc
<1>7. AirConfig(p)
    <2>1. p.schema \in BOOLEAN
        BY <1>3, Zenon
    <2>2. p.extra \in 0 .. 1
        BY <1>3
    <2>3. QED BY <1>3, <1>5, <1>6, <2>1, <2>2, Zenon DEF AirConfig
<1>8. read = c.steps
    <2>1. \A s \in StepIndex : read[s] = c.steps[s]
        <3> SUFFICES ASSUME NEW s \in StepIndex PROVE read[s] = c.steps[s]
            OBVIOUS
        <3>1. CASE s < esc
            <4>1. s + 1 \in 1 .. esc /\ (s + 1) - 1 = s
                BY <1>2, <3>1 DEF StepIndex
            <4>2. p.steps[s + 1] = c.steps[s]
                BY <1>3, <4>1
            <4>3. QED BY <1>4, <3>1, <4>2
        <3>2. CASE ~ (s < esc)
            BY <1>2, <1>4, <3>2 DEF StepIndex
        <3>3. QED BY <3>1, <3>2
    <2>2. QED BY <1>1, <2>1
<1>9. ConfigOf(p) = [p.base EXCEPT !.steps = read]
    BY DEF ConfigOf
<1> HIDE DEF read
<1>10. ConfigOf(p) = c
    BY <1>1, <1>3, <1>6, <1>8, <1>9 DEF Fcn, ConfigRecordFields
<1>11. QED BY <1>2, <1>3, <1>4, <1>6, <1>7, <1>10 DEF esc

\* The header fields of a frame that an encoder writes.
LEMMA HeaderFields ==
    ASSUME NEW type, NEW common, NEW i, NEW n, NEW len, NEW payload, NEW f,
           f = [header |-> Header(type, common, i, n, len), payload |-> payload]
    PROVE  /\ f.header.discriminator /\ f.header.frame_type = type
           /\ f.header.common = common
           /\ f.header.fragment_index = i /\ f.header.fragment_count = n
           /\ f.header.payload_len = len
           /\ f.payload = payload
<1>1. QED BY DEF Header

\* The frame of a configuration that the encoder takes is accepted.
LEMMA ConfigFrameSound ==
    ASSUME NEW common \in Common, NEW c \in ConfigRecord, encodes_device_config(common, c),
           NEW repeated \in BOOLEAN, NEW f, f = encode_device_config(common, c, repeated)
    PROVE  /\ Sound(f, 0, 1)
           /\ f.header.frame_type = "DeviceConfig"
           /\ f.payload = write_config_payload(c)
           /\ AirConfig(f.payload)
           /\ f.header.common.config_id = fnv1a64(f.payload)
           /\ repeated => "config_repeat" \in f.header.common.flags
<1> DEFINE p == write_config_payload(c)
           flags == common.flags \cup (IF repeated THEN {"config_repeat"} ELSE {})
           own == [common EXCEPT !.config_id = fnv1a64(p), !.flags = flags]
           esc == c.expected_step_count
<1>1. validate_config(c) /\ device_config_id(c) /\ ValidCommon(common)
    BY DEF encodes_device_config
<1>2. /\ AirConfig(p)
      /\ p.schema /\ p.extra = 0
      /\ p.base.expected_step_count = esc
      /\ Len(p.steps) = esc
      /\ esc \in 1 .. MaxSteps
      /\ ConfigOf(p) = c
    BY <1>1, ConfigReads
<1>3. /\ own.config_id = fnv1a64(p)
      /\ repeated => "config_repeat" \in own.flags
      /\ ValidCommon(own)
    <2> DEFINE id == fnv1a64(p)
    <2>1. /\ own = [common EXCEPT !.config_id = id, !.flags = flags]
          /\ flags = common.flags \cup (IF repeated THEN {"config_repeat"} ELSE {})
        OBVIOUS
    <2> HIDE DEF own, flags, id
    <2>2. /\ own.config_id = id /\ own.flags = flags /\ own.boot_id = common.boot_id
          /\ own.reset_cause_flags = common.reset_cause_flags
        BY <2>1 DEF Common
    <2>3. \A g : g # "config_repeat" => (g \in own.flags <=> g \in common.flags)
        BY <2>1, <2>2
    <2>4. ValidCommon(own)
        BY <1>1, <2>2, <2>3 DEF ValidCommon, ensure_known
    <2>5. repeated => "config_repeat" \in own.flags
        BY <2>1, <2>2
    <2>6. QED BY <2>2, <2>4, <2>5 DEF id
<1>4. fnv1a64(p) # 0
    BY <1>1 DEF device_config_id
<1>5. f = [header |-> Header("DeviceConfig", own, 0, 1, ConfigPayloadLen(p)), payload |-> p]
    BY DEF encode_device_config
<1> HIDE DEF own, p, esc
<1>6. /\ f.header.discriminator /\ f.header.frame_type = "DeviceConfig"
      /\ f.header.common = own
      /\ f.header.fragment_index = 0 /\ f.header.fragment_count = 1
      /\ f.header.payload_len = ConfigPayloadLen(p)
      /\ f.payload = p
    BY <1>5, HeaderFields
<1>7. /\ ConfigPayloadLen(p) = CONFIG_BASE_LEN + CONFIG_STEP_LEN * esc
      /\ ConfigPayloadLen(p) \in 0 .. 183
    BY <1>2, ProtocolAssumption DEF ConfigPayloadLen, CONFIG_BASE_LEN, CONFIG_STEP_LEN
<1>8. decode_device_config(f.header, f.payload)
    BY <1>1, <1>2, <1>3, <1>4, <1>6, <1>7
       DEF decode_device_config, validate_decoded_config, ConfigIdChecked
<1>9. PayloadLen(f) = ConfigPayloadLen(p)
    BY <1>6 DEF PayloadLen
<1>10. decode(f)
    <2>1. decode_header(f.header, HEADER_LEN + PayloadLen(f))
        BY <1>3, <1>6, <1>7, <1>9 DEF decode_header, HEADER_LEN
    <2>2. QED BY <1>6, <1>8, <2>1 DEF decode
<1>11. /\ HEADER_LEN + f.header.payload_len <= MAX_PHY_FRAME_LEN
       /\ HEADER_LEN + f.header.payload_len <= MAX_V2_FRAME_LEN
    BY <1>6, <1>7 DEF HEADER_LEN, MAX_V2_FRAME_LEN, MAX_PHY_FRAME_LEN,
                      PROFILE_FRAGMENT_META_LEN, PROFILE_STEP_LEN, STEPS_PER_FRAGMENT
<1>12. encode_header(f.header.common, f.header.fragment_index, f.header.fragment_count,
                     f.header.payload_len)
    BY <1>3, <1>6, <1>11 DEF encode_header
<1>13. Sound(f, 0, 1)
    BY <1>6, <1>10, <1>11, <1>12, Zenon DEF Sound
<1>14. QED BY <1>2, <1>3, <1>6, <1>13, Zenon DEF p

\* What the receiver reads is written as it arrived.
LEMMA ConfigWrites ==
    ASSUME NEW p, AirConfig(p), p.schema,
           p.base.expected_step_count \in 1 .. MaxSteps,
           ConfigPayloadLen(p) = CONFIG_BASE_LEN + CONFIG_STEP_LEN * p.base.expected_step_count
    PROVE  /\ write_config_payload(ConfigOf(p)) = p
           /\ Len(p.steps) = p.base.expected_step_count
<1> DEFINE esc == p.base.expected_step_count
           read == [s \in StepIndex |-> IF s < Len(p.steps) THEN p.steps[s + 1] ELSE 0]
           c == ConfigOf(p)
           written == [k \in 1 .. esc |-> c.steps[k - 1]]
<1>1. /\ p = [schema |-> p.schema, base |-> p.base, steps |-> p.steps, extra |-> p.extra]
      /\ p.schema \in BOOLEAN
      /\ Fcn(p.base) /\ DOMAIN p.base = ConfigRecordFields /\ p.base.steps = None
      /\ p.steps \in Seq(0 .. 2)
      /\ p.extra \in 0 .. 1
    BY DEF AirConfig
<1>2. esc \in 1 .. MaxSteps /\ esc \in Nat /\ MaxSteps \in Nat
    BY ProtocolAssumption
<1>3. Len(p.steps) = esc /\ p.extra = 0
    <2>1. Len(p.steps) \in Nat
        BY <1>1
    <2> HIDE DEF esc
    <2>2. CONFIG_BASE_LEN + CONFIG_STEP_LEN * Len(p.steps) + p.extra = CONFIG_BASE_LEN + CONFIG_STEP_LEN * esc
        BY DEF ConfigPayloadLen, esc
    <2>3. QED BY <1>1, <1>2, <2>1, <2>2 DEF CONFIG_BASE_LEN, CONFIG_STEP_LEN
<1>4. c = [p.base EXCEPT !.steps = read]
    BY DEF ConfigOf
<1> HIDE DEF c, read, esc
<1>5. c.expected_step_count = esc /\ c.steps = read /\ [c EXCEPT !.steps = None] = p.base
    BY <1>1, <1>4 DEF Fcn, ConfigRecordFields, esc
<1>6. \A k \in 1 .. esc : read[k - 1] = p.steps[k]
    <2> SUFFICES ASSUME NEW k \in 1 .. esc PROVE read[k - 1] = p.steps[k]
        OBVIOUS
    <2>1. k - 1 \in StepIndex /\ k - 1 < esc /\ (k - 1) + 1 = k
        BY <1>2 DEF StepIndex
    <2>2. read[k - 1] = p.steps[(k - 1) + 1]
        BY <1>3, <2>1 DEF read
    <2>3. QED BY <2>1, <2>2
<1>7. p.steps = [k \in 1 .. esc |-> p.steps[k]]
    BY <1>1, <1>3
<1>8. written = p.steps
    BY <1>5, <1>6, <1>7
<1>9. write_config_payload(c) =
          [schema |-> TRUE, base |-> [c EXCEPT !.steps = None],
           steps |-> [k \in 1 .. c.expected_step_count |-> c.steps[k - 1]], extra |-> 0]
    BY DEF write_config_payload
<1>10. (p.schema) = TRUE
    BY <1>1, Zenon
<1>11. write_config_payload(c) = p
    <2>1. write_config_payload(c) =
              [schema |-> p.schema, base |-> p.base, steps |-> p.steps, extra |-> p.extra]
        BY <1>3, <1>5, <1>8, <1>9, <1>10, Zenon
    <2>2. QED BY <1>1, <2>1, Zenon
<1>12. QED BY <1>3, <1>11 DEF c, esc

\* A TLV, and the TLVs of a record with the optional values v and w.
Tlv == [kind : Nat, len : Nat, value : Nat]

TlvsOf(v, w) ==
    (IF v = None THEN <<>> ELSE <<[kind |-> 1, len |-> 2, value |-> v]>>)
    \o (IF w = None THEN <<>> ELSE <<[kind |-> 2, len |-> 2, value |-> w]>>)

\* What the decoder asks of the TLVs.
TlvsGood(tlvs) ==
    /\ tlvs \in Seq(Tlv)
    /\ TlvsOrdered(tlvs)
    /\ \A i \in DOMAIN tlvs : tlvs[i].kind \in {1, 2} /\ tlvs[i].len = 2

\* TLVs of two bytes each take four, as long as there are at most two.
LEMMA TlvLengths ==
    ASSUME NEW tlvs, Len(tlvs) \in 0 .. 2, \A i \in 1 .. Len(tlvs) : tlvs[i].len = 2
    PROVE  TlvBytes(tlvs) = 4 * Len(tlvs)
<1> DEFINE n == Len(tlvs)
           Adds(f) == f = [k \in 0 .. n |-> IF k = 0 THEN 0 ELSE f[k - 1] + 2 + tlvs[k].len]
           bytes == CHOOSE f : Adds(f)
           fours == [k \in 0 .. n |-> 4 * k]
<1>1. TlvBytes(tlvs) = bytes[n]
    BY DEF TlvBytes
<1>2. n \in 0 .. 2 /\ \A i \in 1 .. n : tlvs[i].len = 2
    OBVIOUS
<1> HIDE DEF n
<1>3. Adds(fours)
    <2>1. \A k \in 0 .. n : k # 0 => fours[k - 1] = 4 * (k - 1) /\ tlvs[k].len = 2
        BY <1>2
    <2>2. \A k \in 0 .. n : 4 * k = IF k = 0 THEN 0 ELSE fours[k - 1] + 2 + tlvs[k].len
        BY <1>2, <2>1
    <2>3. QED BY <2>2
<1>4. Adds(bytes)
    BY <1>3
<1> HIDE DEF bytes
<1>5. \A k \in 0 .. n : bytes[k] = IF k = 0 THEN 0 ELSE bytes[k - 1] + 2 + tlvs[k].len
    BY <1>4
<1>6. bytes[n] = 4 * n
    <2>1. bytes[0] = 0
        BY <1>2, <1>5
    <2>2. n >= 1 => bytes[1] = 4
        BY <1>2, <1>5, <2>1
    <2>3. n = 2 => bytes[2] = 8
        <3> SUFFICES ASSUME n = 2 PROVE bytes[2] = 8
            OBVIOUS
        <3>1. bytes[2] = bytes[2 - 1] + 2 + tlvs[2].len /\ 2 - 1 = 1
            BY <1>5
        <3>2. QED BY <1>2, <2>2, <3>1
    <2>4. QED BY <1>2, <2>1, <2>2, <2>3
<1>7. QED BY <1>1, <1>6 DEF n

\* A sequence of two.
LEMMA PairSequence ==
    ASSUME NEW a, NEW b, NEW t, t = <<a>> \o <<b>>
    PROVE  /\ t \in Seq({a, b}) /\ Len(t) = 2 /\ DOMAIN t = {1, 2}
           /\ t[1] = a /\ t[2] = b
<1> DEFINE x == <<a>>
           y == <<b>>
<1>1. x \in Seq({a, b}) /\ y \in Seq({a, b}) /\ Len(x) = 1 /\ Len(y) = 1 /\ x[1] = a /\ y[1] = b
    OBVIOUS
<1> HIDE DEF x, y
<1>2. /\ x \o y \in Seq({a, b})
      /\ Len(x \o y) = Len(x) + Len(y)
      /\ \A i \in 1 .. Len(x) + Len(y) : (x \o y)[i] = IF i <= Len(x) THEN x[i] ELSE y[i - Len(x)]
    BY <1>1, ConcatProperties
<1>3. t = x \o y
    BY DEF x, y
<1>4. t \in Seq({a, b}) /\ Len(t) = 2
    BY <1>1, <1>2, <1>3
<1>5. DOMAIN t = {1, 2}
    BY <1>4
<1>6. t[1] = a /\ t[2] = b
    <2> DEFINE z == x \o y
    <2>1. \A i \in 1 .. 2 : z[i] = IF i <= 1 THEN x[i] ELSE y[i - 1]
        BY <1>1, <1>2
    <2> HIDE DEF z
    <2>2. z[1] = x[1] /\ z[2] = y[1]
        BY <2>1
    <2>3. QED BY <1>1, <1>3, <2>2 DEF z
<1>7. QED BY <1>4, <1>5, <1>6

\* The TLVs a node writes have the values it wrote, and are what a decoder asks for.
LEMMA TlvsWritten ==
    ASSUME NEW v \in Nat \cup {None}, NEW w \in Nat \cup {None}
    PROVE  /\ TlvsGood(TlvsOf(v, w))
           /\ TlvValue(TlvsOf(v, w), 1) = v
           /\ TlvValue(TlvsOf(v, w), 2) = w
           /\ Len(TlvsOf(v, w)) \in 0 .. 2
<1> DEFINE t == TlvsOf(v, w)
           one == [kind |-> 1, len |-> 2, value |-> v]
           two == [kind |-> 2, len |-> 2, value |-> w]
<1>1. \A kind : TlvValue(t, kind) =
          IF \E i \in DOMAIN t : t[i].kind = kind
          THEN t[CHOOSE i \in DOMAIN t : /\ t[i].kind = kind
                                         /\ \A j \in i + 1 .. Len(t) : t[j].kind # kind].value
          ELSE None
    BY DEF TlvValue
<1>2. None \notin Nat
    BY NoneAssumption
<1>3. CASE v = None /\ w = None
    <2>1. t = << >>
        BY <1>3 DEF TlvsOf
    <2> HIDE DEF t
    <2>2. DOMAIN t = {} /\ Len(t) = 0
        BY <2>1
    <2>3. TlvsGood(t)
        BY <2>1 DEF TlvsGood, TlvsOrdered
    <2>4. TlvValue(t, 1) = None /\ TlvValue(t, 2) = None
        BY <1>1, <2>2, Zenon
    <2>5. QED BY <1>3, <2>2, <2>3, <2>4 DEF t
<1>4. CASE v # None /\ w = None
    <2>1. t = <<one>> /\ v \in Nat
        BY <1>4 DEF TlvsOf
    <2> HIDE DEF t
    <2>2. DOMAIN t = {1} /\ Len(t) = 1 /\ t[1] = one
        BY <2>1
    <2>3. TlvsGood(t)
        BY <2>1, <2>2 DEF TlvsGood, TlvsOrdered, Tlv
    <2>4. TlvValue(t, 1) = v
        BY <1>1, <2>1, <2>2
    <2>5. TlvValue(t, 2) = None
        BY <1>1, <2>1, <2>2
    <2>6. QED BY <1>4, <2>2, <2>3, <2>4, <2>5 DEF t
<1>5. CASE v = None /\ w # None
    <2>1. t = <<two>> /\ w \in Nat
        BY <1>5 DEF TlvsOf
    <2> HIDE DEF t
    <2>2. DOMAIN t = {1} /\ Len(t) = 1 /\ t[1] = two
        BY <2>1
    <2>3. TlvsGood(t)
        BY <2>1, <2>2 DEF TlvsGood, TlvsOrdered, Tlv
    <2>4. TlvValue(t, 1) = None
        BY <1>1, <2>1, <2>2
    <2>5. TlvValue(t, 2) = w
        BY <1>1, <2>1, <2>2
    <2>6. QED BY <1>5, <2>2, <2>3, <2>4, <2>5 DEF t
<1>6. CASE v # None /\ w # None
    <2>1. t = <<one>> \o <<two>> /\ v \in Nat /\ w \in Nat
        <3>1. t = <<one>> \o <<two>>
            BY <1>6, Zenon DEF TlvsOf
        <3>2. v \in Nat /\ w \in Nat
            BY <1>6
        <3>3. QED BY <3>1, <3>2, Zenon
    <2> HIDE DEF t
    <2>2. /\ DOMAIN t = {1, 2} /\ Len(t) = 2 /\ t[1] = one /\ t[2] = two
          /\ t \in Seq({one, two})
        <3> HIDE DEF one, two
        <3>1. QED BY <2>1, PairSequence
    <2>3. TlvsGood(t)
        BY <2>1, <2>2 DEF TlvsGood, TlvsOrdered, Tlv
    <2>4. TlvValue(t, 1) = v
        BY <1>1, <2>1, <2>2
    <2>5. TlvValue(t, 2) = w
        <3>1. t[1].kind = 1 /\ t[2].kind = 2 /\ t[2].value = w
            BY <2>2
        <3>2. (CHOOSE i \in DOMAIN t : /\ t[i].kind = 2
                                       /\ \A j \in i + 1 .. Len(t) : t[j].kind # 2) = 2
            <4> HIDE DEF one, two
            <4>1. QED BY <2>2, <3>1
        <3>3. \E i \in DOMAIN t : t[i].kind = 2
            BY <2>2, <3>1
        <3>4. QED BY <1>1, <3>1, <3>2, <3>3, Zenon
    <2>6. QED BY <1>6, <2>2, <2>3, <2>4, <2>5 DEF t
<1>7. QED BY <1>3, <1>4, <1>5, <1>6, Zenon

\* TLVs that a decoder takes are those of two values.
LEMMA TlvsRead ==
    ASSUME NEW t, TlvsGood(t)
    PROVE  \E v, w \in Nat \cup {None} : t = TlvsOf(v, w)
<1>1. /\ t \in Seq(Tlv) /\ Len(t) \in Nat /\ DOMAIN t = 1 .. Len(t)
      /\ \A i \in 1 .. Len(t) : t[i] \in Tlv /\ t[i].kind \in {1, 2} /\ t[i].len = 2
      /\ \A i, j \in 1 .. Len(t) : i < j => t[i].kind < t[j].kind
    BY DEF TlvsGood, TlvsOrdered
<1>2. Len(t) <= 2
    <2> SUFFICES ASSUME Len(t) >= 3 PROVE FALSE
        BY <1>1
    <2>1. 1 \in 1 .. Len(t) /\ 2 \in 1 .. Len(t) /\ 3 \in 1 .. Len(t)
        BY <1>1
    <2>2. t[1].kind < t[2].kind /\ t[2].kind < t[3].kind
        BY <1>1, <2>1
    <2>3. QED BY <1>1, <2>1, <2>2
<1>3. \A i \in 1 .. Len(t) :
          /\ t[i].value \in Nat /\ t[i].value # None
          /\ t[i] = [kind |-> t[i].kind, len |-> 2, value |-> t[i].value]
    BY <1>1, NoneAssumption DEF Tlv
<1>4. CASE Len(t) = 0
    <2>1. t = TlvsOf(None, None)
        BY <1>1, <1>4 DEF TlvsOf
    <2>2. QED BY <2>1
<1>5. CASE Len(t) = 1
    <2>1. t = <<t[1]>>
        BY <1>1, <1>5
    <2>2. CASE t[1].kind = 1
        <3>1. t = TlvsOf(t[1].value, None)
            BY <1>3, <1>5, <2>1, <2>2 DEF TlvsOf
        <3>2. t[1].value \in Nat \cup {None} /\ None \in Nat \cup {None}
            BY <1>3, <1>5
        <3>3. QED BY <3>1, <3>2, Zenon
    <2>3. CASE t[1].kind = 2
        <3>1. t = TlvsOf(None, t[1].value)
            BY <1>3, <1>5, <2>1, <2>3 DEF TlvsOf
        <3>2. t[1].value \in Nat \cup {None} /\ None \in Nat \cup {None}
            BY <1>3, <1>5
        <3>3. QED BY <3>1, <3>2, Zenon
    <2>4. t[1].kind = 1 \/ t[1].kind = 2
        <3>1. 1 \in 1 .. Len(t)
            BY <1>5
        <3>2. QED BY <1>1, <3>1, Zenon
    <2>5. QED BY <2>2, <2>3, <2>4, Zenon
<1>6. CASE Len(t) = 2
    <2>1. t = <<t[1]>> \o <<t[2]>>
        BY <1>1, <1>6
    <2>2. t[1].kind = 1 /\ t[2].kind = 2
        BY <1>1, <1>6
    <2>3. /\ t[1] = [kind |-> 1, len |-> 2, value |-> t[1].value]
          /\ t[2] = [kind |-> 2, len |-> 2, value |-> t[2].value]
          /\ t[1].value \in Nat /\ t[2].value \in Nat /\ t[1].value # None /\ t[2].value # None
        BY <1>3, <1>6, <2>2
    <2>4. TlvsOf(t[1].value, t[2].value) =
              <<[kind |-> 1, len |-> 2, value |-> t[1].value]>>
              \o <<[kind |-> 2, len |-> 2, value |-> t[2].value]>>
        BY <2>3, Zenon DEF TlvsOf
    <2>5. t = TlvsOf(t[1].value, t[2].value)
        BY <2>1, <2>3, <2>4, Zenon
    <2>6. t[1].value \in Nat \cup {None} /\ t[2].value \in Nat \cup {None}
        BY <2>3, Zenon
    <2> DEFINE a == t[1].value
               b == t[2].value
    <2>7. a \in Nat \cup {None} /\ b \in Nat \cup {None} /\ t = TlvsOf(a, b)
        BY <2>5, <2>6, Zenon
    <2> HIDE DEF a, b
    <2>8. QED BY <2>7, Zenon
<1>7. Len(t) = 0 \/ Len(t) = 1 \/ Len(t) = 2
    <2> DEFINE n == Len(t)
    <2>1. n \in Nat /\ n <= 2
        BY <1>1, <1>2
    <2> HIDE DEF n
    <2>2. n = 0 \/ n = 1 \/ n = 2
        BY <2>1
    <2>3. QED BY <2>2 DEF n
<1>8. QED BY <1>4, <1>5, <1>6, <1>7, Zenon

\* What a health record is a function of.
HealthFields == {"flags", "profile_id", "profile_version", "mcu_temperature", "vdd"}

\* A health payload that can be in the air.
AirHealth(p) ==
    /\ p = [schema |-> p.schema, base |-> p.base, extension_len |-> p.extension_len,
            tlvs |-> p.tlvs, extra |-> p.extra]
    /\ p.schema \in BOOLEAN
    /\ Fcn(p.base) /\ DOMAIN p.base = HealthFields
    /\ p.base.mcu_temperature = None /\ p.base.vdd = None
    /\ p.extension_len \in Nat
    /\ p.tlvs \in Seq(Tlv)
    /\ p.extra \in 0 .. 1

\* The frame of a health record that the encoder takes is accepted, and read as it was written.
LEMMA HealthFrameSound ==
    ASSUME NEW common \in Common, NEW x \in HealthRecord, encodes_device_health(common, x),
           NEW f, f = encode_device_health(common, x)
    PROVE  /\ Sound(f, 0, 1)
           /\ f.header.frame_type = "DeviceHealth"
           /\ AirHealth(f.payload)
           /\ HealthOf(f.payload) = x
           /\ f.header.payload_len \in Nat
<1> DEFINE t == Tlvs(x)
           base == [x EXCEPT !.mcu_temperature = None, !.vdd = None]
           p == [schema |-> TRUE, base |-> base, extension_len |-> TlvBytes(t), tlvs |-> t, extra |-> 0]
<1>1. f = [header |-> Header("DeviceHealth", common, 0, 1, HealthPayloadLen(p)), payload |-> p]
    BY DEF encode_device_health
<1>2. /\ x.mcu_temperature \in Nat \cup {None} /\ x.vdd \in Nat \cup {None}
      /\ Fcn(x) /\ DOMAIN x = HealthFields
    BY DEF HealthRecord, Fcn, HealthFields
<1>3. t = TlvsOf(x.mcu_temperature, x.vdd)
    BY DEF Tlvs, TlvsOf
<1> HIDE DEF t
<1>4. /\ TlvsGood(t) /\ TlvValue(t, 1) = x.mcu_temperature /\ TlvValue(t, 2) = x.vdd
      /\ Len(t) \in 0 .. 2
    BY <1>2, <1>3, TlvsWritten
<1>5. TlvBytes(t) \in 0 .. 8
    <2>1. t \in Seq(Tlv) /\ \A i \in DOMAIN t : t[i].len = 2
        BY <1>4 DEF TlvsGood
    <2>2. \A i \in 1 .. Len(t) : t[i].len = 2
        BY <2>1
    <2>3. TlvBytes(t) = 4 * Len(t)
        BY <1>4, <2>2, TlvLengths
    <2>4. QED
        <3> DEFINE n == Len(t)
        <3>1. n \in 0 .. 2 /\ TlvBytes(t) = 4 * n
            BY <1>4, <2>3
        <3> HIDE DEF n
        <3>2. QED BY <3>1
<1>6. /\ base.flags = x.flags /\ base.mcu_temperature = None /\ base.vdd = None
      /\ Fcn(base) /\ DOMAIN base = HealthFields
      /\ [base EXCEPT !.mcu_temperature = x.mcu_temperature, !.vdd = x.vdd] = x
    BY <1>2 DEF Fcn, HealthFields
<1> HIDE DEF base
<1>7. /\ p.schema = TRUE /\ p.base = base /\ p.extension_len = TlvBytes(t)
      /\ p.tlvs = t /\ p.extra = 0
      /\ p = [schema |-> p.schema, base |-> p.base, extension_len |-> p.extension_len,
              tlvs |-> p.tlvs, extra |-> p.extra]
    OBVIOUS
<1> HIDE DEF p
<1>8. HealthOf(p) = x
    BY <1>4, <1>6, <1>7, Zenon DEF HealthOf
<1>9. AirHealth(p)
    <2>1. p.schema \in BOOLEAN
        BY <1>7, Zenon
    <2>2. p.extra \in 0 .. 1 /\ p.extension_len \in Nat
        BY <1>5, <1>7
    <2>3. p.tlvs \in Seq(Tlv)
        BY <1>4, <1>7 DEF TlvsGood
    <2>4. QED BY <1>6, <1>7, <2>1, <2>2, <2>3, Zenon DEF AirHealth
<1>10. /\ f.header.discriminator /\ f.header.frame_type = "DeviceHealth"
       /\ f.header.common = common
       /\ f.header.fragment_index = 0 /\ f.header.fragment_count = 1
       /\ f.header.payload_len = HealthPayloadLen(p)
       /\ f.payload = p
    BY <1>1, HeaderFields
<1>11. /\ HealthPayloadLen(p) = HEALTH_BASE_LEN + p.extension_len
       /\ HealthPayloadLen(p) \in 0 .. 62
    BY <1>5, <1>7 DEF HealthPayloadLen, HEALTH_BASE_LEN
<1>12. /\ validate_health_flags(common, x.flags) /\ validate_health_config_identity(common, x)
       /\ ValidCommon(common)
    BY DEF encodes_device_health
<1>13. /\ TlvsOrdered(p.tlvs)
       /\ \A i \in DOMAIN p.tlvs : p.tlvs[i].kind \in {1, 2} /\ p.tlvs[i].len = 2
    BY <1>4, <1>7 DEF TlvsGood
<1>14. decode_device_health(f.header, f.payload)
    <2>1. validate_decoded_health(f.header, f.payload)
        BY <1>6, <1>7, <1>10, <1>11, <1>12, <1>13, Zenon DEF validate_decoded_health
    <2>2. QED BY <1>8, <1>10, <1>12, <2>1, Zenon DEF decode_device_health
<1>15. PayloadLen(f) = HealthPayloadLen(p)
    BY <1>10 DEF PayloadLen
<1>16. decode(f)
    <2>1. decode_header(f.header, HEADER_LEN + PayloadLen(f))
        BY <1>10, <1>11, <1>12, <1>15 DEF decode_header, HEADER_LEN
    <2>2. QED BY <1>10, <1>14, <2>1 DEF decode
<1>17. /\ HEADER_LEN + f.header.payload_len <= MAX_PHY_FRAME_LEN
       /\ HEADER_LEN + f.header.payload_len <= MAX_V2_FRAME_LEN
    BY <1>10, <1>11 DEF HEADER_LEN, MAX_V2_FRAME_LEN, MAX_PHY_FRAME_LEN,
                        PROFILE_FRAGMENT_META_LEN, PROFILE_STEP_LEN, STEPS_PER_FRAGMENT
<1>18. encode_header(f.header.common, f.header.fragment_index, f.header.fragment_count,
                     f.header.payload_len)
    BY <1>10, <1>12, <1>17 DEF encode_header
<1>19. Sound(f, 0, 1)
    BY <1>10, <1>16, <1>17, <1>18, Zenon DEF Sound
<1>20. f.header.payload_len \in Nat
    BY <1>10, <1>11
<1>21. QED BY <1>8, <1>9, <1>10, <1>19, <1>20, Zenon

-----------------------------------------------------------------------------
(***************************************************************************)
(* Frames in the air.                                                      *)
(***************************************************************************)
CommonFields == {"flags", "origin", "boot_id", "config_id", "reset_cause_flags"}

\* A header that can be in the air: any common fields.
AirHeader(h) ==
    /\ h = [discriminator |-> h.discriminator, frame_type |-> h.frame_type, common |-> h.common,
            fragment_index |-> h.fragment_index, fragment_count |-> h.fragment_count,
            payload_len |-> h.payload_len]
    /\ h.discriminator \in BOOLEAN
    /\ h.fragment_index \in Nat /\ h.payload_len \in Nat
    /\ Fcn(h.common) /\ DOMAIN h.common = CommonFields

\* A profile payload that can be in the air: whole steps, and perhaps a byte after them.
AirProfile(p) ==
    /\ p = [schema |-> p.schema, meta |-> p.meta, steps_in_fragment |-> p.steps_in_fragment,
            step_window_start |-> p.step_window_start, steps |-> p.steps, extra |-> p.extra]
    /\ p.schema \in BOOLEAN
    /\ p.steps \in Seq(ProfileStep)
    /\ p.extra \in 0 .. 1

FrameType(kind) ==
    CASE kind = "scan" -> "ProfileFragment" [] kind = "config" -> "DeviceConfig"
      [] kind = "health" -> "DeviceHealth"

AirFrame(f, kind) ==
    /\ f = [header |-> f.header, payload |-> f.payload]
    /\ AirHeader(f.header)
    /\ f.header.frame_type = FrameType(kind)
    /\ \/ kind = "scan" /\ AirProfile(f.payload)
       \/ kind = "config" /\ AirConfig(f.payload)
       \/ kind = "health" /\ AirHealth(f.payload)

\* The common fields of a node are fields of a header.
LEMMA CommonShape ==
    ASSUME NEW c \in Common
    PROVE  Fcn(c) /\ DOMAIN c = CommonFields
<1>1. QED BY DEF Common, Fcn, CommonFields

\* A header that an encoder writes.
LEMMA AirHeaders ==
    ASSUME NEW type, NEW common, Fcn(common), DOMAIN common = CommonFields,
           NEW i \in Nat, NEW n, NEW len \in Nat, NEW payload, NEW f,
           f = [header |-> Header(type, common, i, n, len), payload |-> payload]
    PROVE  /\ AirHeader(f.header)
           /\ f = [header |-> f.header, payload |-> f.payload]
           /\ f.payload = payload /\ f.header.frame_type = type
<1> DEFINE h == [discriminator |-> TRUE, frame_type |-> type, common |-> common,
                 fragment_index |-> i, fragment_count |-> n, payload_len |-> len]
<1>1. /\ f.header = h /\ f.payload = payload
      /\ f = [header |-> f.header, payload |-> f.payload]
    BY DEF Header
<1>2. /\ h.common = common /\ h.fragment_index = i /\ h.payload_len = len
      /\ h.discriminator = TRUE /\ h.frame_type = type
      /\ h = [discriminator |-> h.discriminator, frame_type |-> h.frame_type, common |-> h.common,
              fragment_index |-> h.fragment_index, fragment_count |-> h.fragment_count,
              payload_len |-> h.payload_len]
    OBVIOUS
<1> HIDE DEF h
<1>3. h.discriminator \in BOOLEAN /\ h.fragment_index \in Nat /\ h.payload_len \in Nat
    BY <1>2, Zenon
<1>4. AirHeader(h)
    BY <1>2, <1>3, Zenon DEF AirHeader
<1>5. QED BY <1>1, <1>2, <1>4, Zenon

\* A fragment of a sound scan contains steps, and none that is missing.
LEMMA FragmentOfSteps ==
    ASSUME NEW m, NEW steps \in [StepIndex -> ProfileStep \cup {None}], validate_profile(m, steps),
           NEW i \in Nat
    PROVE  FragmentSteps(i, m, steps) \in Seq(ProfileStep)
<1> DEFINE n == Cardinality(Required(i, m))
           esc == m.expected_step_count
<1>1. esc \in 1 .. MaxSteps /\ MaxSteps \in Nat /\ esc \in Nat
    BY ProtocolAssumption DEF validate_profile
<1>2. /\ n \in Nat
      /\ \A k \in 1 .. n : /\ RequiredSteps(i, m)[k] \in 0 .. esc - 1
                           /\ RequiredSteps(i, m)[k] \notin m.missing_steps
    BY <1>1, RequiredFacts
<1>3. \A s \in 0 .. esc - 1 : s \notin m.missing_steps => steps[s] \in ProfileStep
    <2> SUFFICES ASSUME NEW s \in 0 .. esc - 1, s \notin m.missing_steps
                 PROVE  steps[s] \in ProfileStep
        OBVIOUS
    <2>1. s \in StepIndex /\ s < esc
        BY <1>1 DEF StepIndex
    <2>2. steps[s] # None
        BY <2>1 DEF validate_profile
    <2>3. QED BY <2>1, <2>2
<1>4. FragmentSteps(i, m, steps) = [k \in 1 .. n |-> steps[RequiredSteps(i, m)[k]]]
    BY DEF FragmentSteps
<1> HIDE DEF n, esc
<1>5. \A k \in 1 .. n : steps[RequiredSteps(i, m)[k]] \in ProfileStep
    BY <1>2, <1>3
<1>6. QED BY <1>2, <1>4, <1>5

\* The frames of a sound scan can be in the air.
LEMMA ScanFramesAir ==
    ASSUME NEW common \in Common, NEW m, NEW steps \in [StepIndex -> ProfileStep \cup {None}],
           validate_profile(m, steps), NEW i \in Nat, NEW f, f = EncodedFrame(common, m, steps, i)
    PROVE  AirFrame(f, "scan")
<1> DEFINE p == ProfilePayload(m, i, FragmentSteps(i, m, steps))
           count == profile_fragment_count(m.expected_step_count)
<1>1. f = [header |-> Header("ProfileFragment", common, i, count, ProfilePayloadLen(p)), payload |-> p]
    BY DEF EncodedFrame
<1>2. FragmentSteps(i, m, steps) \in Seq(ProfileStep)
    BY FragmentOfSteps
<1>3. Fcn(common) /\ DOMAIN common = CommonFields
    BY CommonShape
<1> HIDE DEF count
<1>4. /\ p = [schema |-> p.schema, meta |-> p.meta, steps_in_fragment |-> p.steps_in_fragment,
              step_window_start |-> p.step_window_start, steps |-> p.steps, extra |-> p.extra]
      /\ p.schema = TRUE /\ p.steps = FragmentSteps(i, m, steps) /\ p.extra = 0
    BY DEF ProfilePayload
<1> HIDE DEF p
<1>5. AirProfile(p)
    <2>1. p.schema \in BOOLEAN
        BY <1>4, Zenon
    <2>2. p.extra \in 0 .. 1 /\ p.steps \in Seq(ProfileStep)
        BY <1>2, <1>4
    <2>3. QED BY <1>4, <2>1, <2>2, Zenon DEF AirProfile
<1>6. /\ AirHeader(f.header)
      /\ f = [header |-> f.header, payload |-> f.payload]
      /\ f.payload = p /\ f.header.frame_type = "ProfileFragment"
    <2>1. Len(p.steps) \in Nat
        BY <1>2, <1>4
    <2>2. ProfilePayloadLen(p) \in Nat
        BY <1>4, <2>1 DEF ProfilePayloadLen, PROFILE_FRAGMENT_META_LEN, PROFILE_STEP_LEN
    <2>3. QED BY <1>1, <1>3, <2>2, AirHeaders
<1>7. QED BY <1>5, <1>6, Zenon DEF AirFrame, FrameType

\* ... and so can the frame of a configuration,
LEMMA ConfigFrameAir ==
    ASSUME NEW common \in Common, NEW c \in ConfigRecord, encodes_device_config(common, c),
           NEW repeated \in BOOLEAN, NEW f, f = encode_device_config(common, c, repeated)
    PROVE  AirFrame(f, "config")
<1> DEFINE p == write_config_payload(c)
           id == fnv1a64(p)
           flags == common.flags \cup (IF repeated THEN {"config_repeat"} ELSE {})
           own == [common EXCEPT !.config_id = id, !.flags = flags]
<1>1. f = [header |-> Header("DeviceConfig", own, 0, 1, ConfigPayloadLen(p)), payload |-> p]
    BY DEF encode_device_config
<1>2. AirConfig(p)
    BY ConfigReads DEF encodes_device_config
<1>3. Fcn(own) /\ DOMAIN own = CommonFields
    <2> HIDE DEF id, flags
    <2>1. QED BY DEF Common, Fcn, CommonFields
<1> HIDE DEF own, p
<1>4. /\ AirHeader(f.header)
      /\ f = [header |-> f.header, payload |-> f.payload]
      /\ f.payload = p /\ f.header.frame_type = "DeviceConfig"
    <2>1. Len(p.steps) \in Nat /\ p.extra \in Nat
        BY <1>2 DEF AirConfig
    <2>2. ConfigPayloadLen(p) \in Nat
        BY <2>1 DEF ConfigPayloadLen, CONFIG_BASE_LEN, CONFIG_STEP_LEN
    <2>3. QED BY <1>1, <1>3, <2>2, AirHeaders
<1>5. QED BY <1>2, <1>4, Zenon DEF AirFrame, FrameType

\* ... or of a health record.
LEMMA HealthFrameAir ==
    ASSUME NEW common \in Common, NEW x \in HealthRecord, encodes_device_health(common, x),
           NEW f, f = encode_device_health(common, x)
    PROVE  AirFrame(f, "health")
<1> DEFINE p == [schema |-> TRUE, base |-> [x EXCEPT !.mcu_temperature = None, !.vdd = None],
                 extension_len |-> TlvBytes(Tlvs(x)), tlvs |-> Tlvs(x), extra |-> 0]
<1>1. f = [header |-> Header("DeviceHealth", common, 0, 1, HealthPayloadLen(p)), payload |-> p]
    BY DEF encode_device_health
<1>2. AirHealth(f.payload)
    BY HealthFrameSound
<1>3. Fcn(common) /\ DOMAIN common = CommonFields
    BY CommonShape
<1> HIDE DEF p
<1>4. HealthPayloadLen(p) \in Nat
    <2>1. f.header.payload_len \in Nat
        BY HealthFrameSound
    <2>2. f.header.payload_len = HealthPayloadLen(p)
        BY <1>1, HeaderFields
    <2>3. QED BY <2>1, <2>2
<1>5. /\ AirHeader(f.header)
      /\ f = [header |-> f.header, payload |-> f.payload]
      /\ f.payload = p /\ f.header.frame_type = "DeviceHealth"
    BY <1>1, <1>3, <1>4, AirHeaders
<1>6. QED BY <1>2, <1>5, Zenon DEF AirFrame, FrameType

\* What is sent of record r, whatever record a node offers: the frames of its kind, each accepted.
LEMMA SentFrames ==
    ASSUME NEW r \in Records, NEW i, i \in DOMAIN Encode(r)
    PROVE  /\ Sound(Encode(r)[i], i, Cardinality(DOMAIN Encode(r)))
           /\ Cardinality(DOMAIN Encode(r)) <= MAX_PROFILE_FRAGMENTS
           /\ AirFrame(Encode(r)[i], r.kind)
           /\ \/ /\ r.kind = "scan" /\ encodes_profile(r.common, r.meta, r.steps)
                 /\ Encode(r) = encode_profile(r.common, r.meta, r.steps)
              \/ /\ r.kind = "config" /\ encodes_device_config(r.common, r.config)
                 /\ Encode(r)[i] = encode_device_config(r.common, r.config, r.repeated)
              \/ /\ r.kind = "health" /\ encodes_device_health(r.common, r.health)
                 /\ Encode(r)[i] = encode_device_health(r.common, r.health)
<1>1. NodeRecord(r)
    BY RecordsAssumption
<1>2. DOMAIN <<>> = {}
    OBVIOUS
<1>3. CASE r.kind = "scan" /\ encodes_profile(r.common, r.meta, r.steps)
    <2> DEFINE count == profile_fragment_count(r.meta.expected_step_count)
    <2>1. Encode(r) = encode_profile(r.common, r.meta, r.steps)
        BY <1>3 DEF Encode
    <2>2. r.common \in Common /\ r.steps \in [StepIndex -> ProfileStep \cup {None}]
        BY <1>1, <1>3 DEF NodeRecord
    <2>3. validate_profile(r.meta, r.steps) /\ r.meta.expected_step_count \in 1 .. MaxSteps
        BY <1>3 DEF encodes_profile, validate_profile
    <2>4. /\ DOMAIN Encode(r) = 0 .. count - 1
          /\ Encode(r)[i] = EncodedFrame(r.common, r.meta, r.steps, i)
        BY <2>1, <2>3, EncodedProfile
    <2>5. count \in 1 .. MAX_PROFILE_FRAGMENTS
        BY <2>3, FragmentBounds
    <2>6. Sound(Encode(r)[i], i, count)
        BY <1>3, <2>1, ScanFramesSound
    <2> HIDE DEF count
    <2>7. Cardinality(DOMAIN Encode(r)) = count
        <3>1. count - 1 - 0 + 1 = count /\ count - 1 >= 0 /\ count - 1 \in Int
            BY <2>5 DEF MAX_PROFILE_FRAGMENTS
        <3>2. Cardinality(0 .. count - 1) = count - 1 - 0 + 1
            BY <3>1, FS_Interval
        <3>3. QED BY <2>4, <3>1, <3>2
    <2>8. i \in Nat
        BY <2>4
    <2>9. AirFrame(Encode(r)[i], "scan")
        BY <2>2, <2>3, <2>4, <2>8, ScanFramesAir
    <2>10. Cardinality(DOMAIN Encode(r)) <= MAX_PROFILE_FRAGMENTS
        BY <2>5, <2>7 DEF MAX_PROFILE_FRAGMENTS
    <2>11. QED BY <1>3, <2>1, <2>6, <2>7, <2>9, <2>10, Zenon
<1>4. CASE r.kind = "config" /\ encodes_device_config(r.common, r.config)
    <2> DEFINE f == encode_device_config(r.common, r.config, r.repeated)
    <2>1. Encode(r) = [j \in {0} |-> f]
        BY <1>4 DEF Encode
    <2>2. r.common \in Common /\ r.config \in ConfigRecord /\ r.repeated \in BOOLEAN
        BY <1>1, <1>4 DEF NodeRecord
    <2>3. Sound(f, 0, 1) /\ AirFrame(f, "config")
        BY <1>4, <2>2, ConfigFrameSound, ConfigFrameAir
    <2> HIDE DEF f
    <2>4. DOMAIN Encode(r) = {0} /\ i = 0 /\ Encode(r)[i] = f
        BY <2>1
    <2>5. Cardinality(DOMAIN Encode(r)) = 1 /\ 1 <= MAX_PROFILE_FRAGMENTS
        BY <2>4, FS_Singleton DEF MAX_PROFILE_FRAGMENTS
    <2>6. QED BY <1>4, <2>3, <2>4, <2>5, Zenon DEF f
<1>5. CASE r.kind = "health" /\ encodes_device_health(r.common, r.health)
    <2> DEFINE f == encode_device_health(r.common, r.health)
    <2>1. Encode(r) = [j \in {0} |-> f]
        BY <1>5 DEF Encode
    <2>2. r.common \in Common /\ r.health \in HealthRecord
        BY <1>1, <1>5 DEF NodeRecord
    <2>3. Sound(f, 0, 1) /\ AirFrame(f, "health")
        BY <1>5, <2>2, HealthFrameSound, HealthFrameAir
    <2> HIDE DEF f
    <2>4. DOMAIN Encode(r) = {0} /\ i = 0 /\ Encode(r)[i] = f
        BY <2>1
    <2>5. Cardinality(DOMAIN Encode(r)) = 1 /\ 1 <= MAX_PROFILE_FRAGMENTS
        BY <2>4, FS_Singleton DEF MAX_PROFILE_FRAGMENTS
    <2>6. QED BY <1>5, <2>3, <2>4, <2>5, Zenon DEF f
<1>6. CASE /\ ~ (r.kind = "scan" /\ encodes_profile(r.common, r.meta, r.steps))
           /\ ~ (r.kind = "config" /\ encodes_device_config(r.common, r.config))
           /\ ~ (r.kind = "health" /\ encodes_device_health(r.common, r.health))
    <2>1. Encode(r) = <<>>
        BY <1>6 DEF Encode
    <2>2. QED BY <1>2, <2>1
<1>7. QED BY <1>3, <1>4, <1>5, <1>6, Zenon

\* Whatever record a node offers, what its encoder writes is what the decoder accepts, within the
\* announced length (v2.rs), for any records, any hash and any number of steps up to ten.
THEOREM FramesDecode == Spec => []EncodedFramesDecode
<1> DEFINE Sends == record \in Records /\ sent = Encode(record)
<1>1. Init => Sends
    BY DEF Init
<1>2. Sends /\ [Next]_vars => Sends'
    BY DEF Sends, Next, vars, Send, Lose, Alter, Receive
<1>3. Sends => EncodedFramesDecode
    <2> SUFFICES ASSUME Sends PROVE EncodedFramesDecode
        OBVIOUS
    <2>1. ASSUME NEW i, i \in DOMAIN sent
          PROVE  /\ Sound(sent[i], i, Cardinality(DOMAIN sent))
                 /\ Cardinality(DOMAIN sent) <= MAX_PROFILE_FRAGMENTS
        BY <2>1, SentFrames
    <2>2. QED BY <2>1, Zenon DEF EncodedFramesDecode, Sound
<1>4. QED BY <1>1, <1>2, <1>3, PTL DEF Spec

-----------------------------------------------------------------------------
(***************************************************************************)
(* Alterations leave a frame one that can be in the air.                   *)
(***************************************************************************)
\* Steps or TLVs altered, cut off, repeated or swapped are steps or TLVs.
LEMMA EditedSequence ==
    ASSUME NEW S, NEW t \in Seq(S), NEW edits, \A k \in DOMAIN t : edits[k] \subseteq S,
           NEW s \in AlteredSequences(t, edits)
    PROVE  s \in Seq(S)
<1> DEFINE n == Len(t)
<1>1. n \in Nat /\ DOMAIN t = 1 .. n /\ \A k \in 1 .. n : t[k] \in S
    OBVIOUS
<1>2. ASSUME NEW k \in 1 .. n, NEW e \in S, NEW u, u = [t EXCEPT ![k] = e]
      PROVE  u \in Seq(S)
    BY <1>2
<1>3. \/ \E k \in DOMAIN t : \E e \in edits[k] : s = [t EXCEPT ![k] = e]
      \/ \E k \in 0 .. Len(t) : s = SubSeq(t, 1, k)
      \/ \E k \in DOMAIN t : s = Append(t, t[k])
      \/ \E k \in DOMAIN t : s = [t EXCEPT ![k] = t[1], ![1] = t[k]]
    <2> DEFINE single == UNION {{[t EXCEPT ![k] = e] : e \in edits[k]} : k \in DOMAIN t}
               cut == {SubSeq(t, 1, k) : k \in 0 .. Len(t)}
               repeated == {Append(t, t[k]) : k \in DOMAIN t}
               swapped == {[t EXCEPT ![k] = t[1], ![1] = t[k]] : k \in DOMAIN t}
    <2>1. AlteredSequences(t, edits) = single \cup cut \cup repeated \cup swapped
        BY Zenon DEF AlteredSequences
    <2>2. s \in single => \E k \in DOMAIN t : \E e \in edits[k] : s = [t EXCEPT ![k] = e]
        <3> DEFINE at(k) == {[t EXCEPT ![k] = e] : e \in edits[k]}
        <3>1. s \in single => \E k \in DOMAIN t : s \in at(k)
            BY Zenon
        <3>2. \A k \in DOMAIN t : s \in at(k) => \E e \in edits[k] : s = [t EXCEPT ![k] = e]
            BY Zenon
        <3> HIDE DEF at, single
        <3>3. QED BY <3>1, <3>2, Zenon
    <2>3. s \in cut => \E k \in 0 .. Len(t) : s = SubSeq(t, 1, k)
        BY Zenon
    <2>4. s \in repeated => \E k \in DOMAIN t : s = Append(t, t[k])
        BY Zenon
    <2>5. s \in swapped => \E k \in DOMAIN t : s = [t EXCEPT ![k] = t[1], ![1] = t[k]]
        BY Zenon
    <2> HIDE DEF single, cut, repeated, swapped
    <2>6. s \in single \/ s \in cut \/ s \in repeated \/ s \in swapped
        BY <2>1, Zenon
    <2>7. QED BY <2>2, <2>3, <2>4, <2>5, <2>6, Zenon
<1>4. CASE \E k \in DOMAIN t : \E e \in edits[k] : s = [t EXCEPT ![k] = e]
    <2> PICK k \in DOMAIN t : \E e \in edits[k] : s = [t EXCEPT ![k] = e]
        BY <1>4, Zenon
    <2> PICK e \in edits[k] : s = [t EXCEPT ![k] = e]
        OBVIOUS
    <2>1. e \in S /\ k \in 1 .. n
        BY <1>1
    <2>2. QED BY <1>2, <2>1
<1>5. CASE \E k \in 0 .. Len(t) : s = SubSeq(t, 1, k)
    <2> PICK k \in 0 .. Len(t) : s = SubSeq(t, 1, k)
        BY <1>5
    <2>1. k \in Int /\ 1 \in Int /\ \A i \in 1 .. k : t[i] \in S
        BY <1>1
    <2>2. SubSeq(t, 1, k) \in Seq(S)
        BY <2>1, SubSeqProperties
    <2>3. QED BY <2>2
<1>6. CASE \E k \in DOMAIN t : s = Append(t, t[k])
    BY <1>1, <1>6
<1>7. CASE \E k \in DOMAIN t : s = [t EXCEPT ![k] = t[1], ![1] = t[k]]
    <2> PICK k \in DOMAIN t : s = [t EXCEPT ![k] = t[1], ![1] = t[k]]
        BY <1>7, Zenon
    <2> DEFINE u == [t EXCEPT ![k] = t[1]]
    <2>1. k \in 1 .. n /\ 1 \in 1 .. n
        BY <1>1
    <2>2. t[k] \in S /\ t[1] \in S
        BY <1>1, <2>1
    <2>3. u \in Seq(S) /\ Len(u) = n
        BY <1>2, <2>1, <2>2
    <2>4. s = [u EXCEPT ![1] = t[k]]
        BY Zenon
    <2> HIDE DEF u
    <2>5. QED BY <2>1, <2>2, <2>3, <2>4
<1>8. QED BY <1>3, <1>4, <1>5, <1>6, <1>7, Zenon

\* Each edit of a step is a step, and each edit of a TLV is one.
LEMMA StepEditsAreSteps ==
    ASSUME NEW x \in ProfileStep, NEW e \in AlteredStep(x)
    PROVE  e \in ProfileStep
<1>1. Counts \subseteq Nat
    BY WireAssumption
<1>2. \/ \E n \in Counts : e = [x EXCEPT !.step_index = n]
      \/ \E n \in Counts : e = [x EXCEPT !.gas_index = n]
      \/ e = [x EXCEPT !.raw_agrees = FALSE]
      \/ e = [x EXCEPT !.measured = @ + 1]
    BY Zenon DEF AlteredStep
<1>3. x = [step_index |-> x.step_index, gas_index |-> x.gas_index, raw_agrees |-> x.raw_agrees,
           measured |-> x.measured]
      /\ x.step_index \in Nat /\ x.gas_index \in Nat /\ x.raw_agrees \in BOOLEAN /\ x.measured \in Nat
    BY DEF ProfileStep
<1>4. /\ e = [step_index |-> e.step_index, gas_index |-> e.gas_index, raw_agrees |-> e.raw_agrees,
              measured |-> e.measured]
      /\ e.step_index = x.step_index \/ e.step_index \in Counts
      /\ e.gas_index = x.gas_index \/ e.gas_index \in Counts
      /\ e.raw_agrees = x.raw_agrees \/ e.raw_agrees = FALSE
      /\ e.measured = x.measured \/ e.measured = x.measured + 1
    BY <1>2, <1>3
<1>5. e.step_index \in Nat /\ e.gas_index \in Nat
    BY <1>1, <1>3, <1>4
<1>6. e.raw_agrees \in BOOLEAN
    BY <1>3, <1>4, Zenon
<1>7. e.measured \in Nat
    BY <1>3, <1>4
<1>8. [step_index |-> e.step_index, gas_index |-> e.gas_index, raw_agrees |-> e.raw_agrees,
       measured |-> e.measured] \in ProfileStep
    BY <1>5, <1>6, <1>7, Zenon DEF ProfileStep
<1>9. QED BY <1>4, <1>8, Zenon

\* An edited TLV is a TLV.
LEMMA TlvEditsAreTlvs ==
    ASSUME NEW x \in Tlv, NEW e \in AlteredTlv(x)
    PROVE  e \in Tlv
<1>1. \/ \E n \in 0 .. 3 : e = [x EXCEPT !.kind = n]
      \/ \E n \in 0 .. 3 : e = [x EXCEPT !.len = n]
      \/ e = [x EXCEPT !.value = @ + 1]
    BY Zenon DEF AlteredTlv
<1>2. QED BY <1>1 DEF Tlv

\* Sequences of edits.
LEMMA EditedSequences ==
    /\ \A t \in Seq(ProfileStep) :
          \A s \in AlteredSequences(t, StepEdits(t)) : s \in Seq(ProfileStep)
    /\ \A t \in Seq(Tlv) : \A s \in AlteredSequences(t, TlvEdits(t)) : s \in Seq(Tlv)
    /\ \A t \in Seq(0 .. 2) :
          \A s \in AlteredSequences(t, [k \in DOMAIN t |-> 0 .. 2]) : s \in Seq(0 .. 2)
<1>1. ASSUME NEW t \in Seq(ProfileStep), NEW s \in AlteredSequences(t, StepEdits(t))
      PROVE  s \in Seq(ProfileStep)
    <2>1. \A k \in DOMAIN t : StepEdits(t)[k] \subseteq ProfileStep
        BY StepEditsAreSteps DEF StepEdits
    <2>2. QED BY <2>1, EditedSequence
<1>2. ASSUME NEW t \in Seq(Tlv), NEW s \in AlteredSequences(t, TlvEdits(t))
      PROVE  s \in Seq(Tlv)
    <2>1. \A k \in DOMAIN t : TlvEdits(t)[k] \subseteq Tlv
        BY TlvEditsAreTlvs DEF TlvEdits
    <2>2. QED BY <2>1, EditedSequence
<1>3. ASSUME NEW t \in Seq(0 .. 2), NEW s \in AlteredSequences(t, [k \in DOMAIN t |-> 0 .. 2])
      PROVE  s \in Seq(0 .. 2)
    <2> DEFINE edits == [k \in DOMAIN t |-> 0 .. 2]
    <2>1. \A k \in DOMAIN t : edits[k] \subseteq 0 .. 2
        OBVIOUS
    <2> HIDE DEF edits
    <2>2. s \in AlteredSequences(t, edits)
        BY DEF edits
    <2>3. QED BY <2>1, <2>2, EditedSequence
<1>4. QED BY <1>1, <1>2, <1>3, Zenon

\* An altered profile payload is one that can be in the air,
LEMMA AlteredProfileAir ==
    ASSUME NEW p, AirProfile(p), NEW q \in AlteredProfiles(p)
    PROVE  AirProfile(q)
<1>1. /\ p = [schema |-> p.schema, meta |-> p.meta, steps_in_fragment |-> p.steps_in_fragment,
              step_window_start |-> p.step_window_start, steps |-> p.steps, extra |-> p.extra]
      /\ p.schema \in BOOLEAN
      /\ p.steps \in Seq(ProfileStep)
      /\ p.extra \in 0 .. 1
    BY DEF AirProfile
<1>2. \A s \in AlteredSequences(p.steps, StepEdits(p.steps)) : s \in Seq(ProfileStep)
    BY <1>1, EditedSequences, Zenon
<1>3. \/ q = [p EXCEPT !.schema = FALSE]
      \/ q = [p EXCEPT !.extra = 1]
      \/ \E m \in AlteredMeta(p.meta) : q = [p EXCEPT !.meta = m]
      \/ \E n \in 0 .. STEPS_PER_FRAGMENT + 1 : q = [p EXCEPT !.steps_in_fragment = n]
      \/ \E n \in Counts : q = [p EXCEPT !.step_window_start = n]
      \/ \E s \in AlteredSequences(p.steps, StepEdits(p.steps)) : q = [p EXCEPT !.steps = s]
    BY Zenon DEF AlteredProfiles
<1>4. /\ q = [schema |-> q.schema, meta |-> q.meta, steps_in_fragment |-> q.steps_in_fragment,
              step_window_start |-> q.step_window_start, steps |-> q.steps, extra |-> q.extra]
      /\ q.schema = p.schema \/ q.schema = FALSE
      /\ q.extra = p.extra \/ q.extra = 1
      /\ q.steps = p.steps \/ q.steps \in AlteredSequences(p.steps, StepEdits(p.steps))
    BY <1>1, <1>3
<1>5. q.schema \in BOOLEAN
    BY <1>1, <1>4, Zenon
<1>6. q.extra \in 0 .. 1
    BY <1>1, <1>4
<1>7. q.steps \in Seq(ProfileStep)
    BY <1>1, <1>2, <1>4, Zenon
<1>8. QED BY <1>4, <1>5, <1>6, <1>7, Zenon DEF AirProfile

\* ... an altered configuration payload,
LEMMA AlteredConfigAir ==
    ASSUME NEW p, AirConfig(p), NEW q \in AlteredConfigs(p)
    PROVE  AirConfig(q)
<1>1. /\ p = [schema |-> p.schema, base |-> p.base, steps |-> p.steps, extra |-> p.extra]
      /\ p.schema \in BOOLEAN
      /\ Fcn(p.base) /\ DOMAIN p.base = ConfigRecordFields /\ p.base.steps = None
      /\ p.steps \in Seq(0 .. 2)
      /\ p.extra \in 0 .. 1
    BY DEF AirConfig
<1> DEFINE edited == AlteredSequences(p.steps, [k \in DOMAIN p.steps |-> 0 .. 2])
<1>2. \A s \in edited : s \in Seq(0 .. 2)
    BY <1>1, EditedSequences, Zenon
<1>3. \/ q = [p EXCEPT !.schema = FALSE]
      \/ q = [p EXCEPT !.extra = 1]
      \/ q = [p EXCEPT !.base.in_range = FALSE]
      \/ q = [p EXCEPT !.base.profile_identity = FALSE]
      \/ q = [p EXCEPT !.base.build_id = 1 - @]
      \/ q = [p EXCEPT !.base.calibration_hash = 1 - @]
      \/ q = [p EXCEPT !.base.hash_algorithm = 1 - @]
      \/ q = [p EXCEPT !.base.output_routes = {}]
      \/ \E g \in SUBSET {"hash_valid", "unknown"} : q = [p EXCEPT !.base.flags = g]
      \/ \E g \in SUBSET {"id_valid", "unknown"} : q = [p EXCEPT !.base.build_flags = g]
      \/ \E n \in Counts : q = [p EXCEPT !.base.expected_step_count = n]
      \/ \E g \in {{}, {0}, {MaxSteps}} : q = [p EXCEPT !.base.readback_valid = g]
      \/ \E s \in edited : q = [p EXCEPT !.steps = s]
    BY Zenon DEF AlteredConfigs
<1> HIDE DEF edited
<1>4. \/ q = [p EXCEPT !.schema = FALSE]
      \/ q = [p EXCEPT !.extra = 1]
      \/ \E s \in edited : q = [p EXCEPT !.steps = s]
      \/ \E x \in ConfigRecordFields \ {"steps"} : \E v : q = [p EXCEPT !.base = [@ EXCEPT ![x] = v]]
    BY <1>3 DEF ConfigRecordFields
<1>5. ASSUME NEW x \in ConfigRecordFields \ {"steps"}, NEW v, NEW b, b = [p.base EXCEPT ![x] = v]
      PROVE  Fcn(b) /\ DOMAIN b = ConfigRecordFields /\ b.steps = None
    BY <1>1, <1>5 DEF Fcn, ConfigRecordFields
<1>6. \/ q.base = p.base
      \/ \E x \in ConfigRecordFields \ {"steps"} : \E v : q.base = [p.base EXCEPT ![x] = v]
    BY <1>1, <1>4
<1>7. Fcn(q.base) /\ DOMAIN q.base = ConfigRecordFields /\ q.base.steps = None
    BY <1>1, <1>5, <1>6, Zenon
<1>8. /\ q = [schema |-> q.schema, base |-> q.base, steps |-> q.steps, extra |-> q.extra]
      /\ q.schema = p.schema \/ q.schema = FALSE
      /\ q.extra = p.extra \/ q.extra = 1
      /\ q.steps = p.steps \/ q.steps \in edited
    BY <1>1, <1>4
<1>9. q.schema \in BOOLEAN /\ q.steps \in Seq(0 .. 2)
    BY <1>1, <1>2, <1>8, Zenon
<1>10. q.extra \in 0 .. 1
    BY <1>1, <1>8
<1>11. QED BY <1>7, <1>8, <1>9, <1>10, Zenon DEF AirConfig

\* ... an altered health payload,
LEMMA AlteredHealthAir ==
    ASSUME NEW p, AirHealth(p), NEW q \in AlteredHealths(p)
    PROVE  AirHealth(q)
<1>1. /\ p = [schema |-> p.schema, base |-> p.base, extension_len |-> p.extension_len,
              tlvs |-> p.tlvs, extra |-> p.extra]
      /\ p.schema \in BOOLEAN
      /\ Fcn(p.base) /\ DOMAIN p.base = HealthFields
      /\ p.base.mcu_temperature = None /\ p.base.vdd = None
      /\ p.extension_len \in Nat
      /\ p.tlvs \in Seq(Tlv)
      /\ p.extra \in 0 .. 1
    BY DEF AirHealth
<1> DEFINE edited == AlteredSequences(p.tlvs, TlvEdits(p.tlvs))
<1>2. \A s \in edited : s \in Seq(Tlv)
    BY <1>1, EditedSequences, Zenon
<1>3. \/ q = [p EXCEPT !.schema = FALSE]
      \/ q = [p EXCEPT !.extra = 1]
      \/ q = [p EXCEPT !.base.profile_id = 1 - @]
      \/ q = [p EXCEPT !.base.profile_version = 1 - @]
      \/ \E g \in SUBSET {"boot_id_unavailable", "config_mismatch", "unknown"} :
            q = [p EXCEPT !.base.flags = g]
      \/ \E n \in {0, 1, 4, 5, 8, 12} : q = [p EXCEPT !.extension_len = n]
      \/ \E s \in edited : q = [p EXCEPT !.tlvs = s]
    BY Zenon DEF AlteredHealths
<1> HIDE DEF edited
<1>4. \/ q = [p EXCEPT !.schema = FALSE]
      \/ q = [p EXCEPT !.extra = 1]
      \/ \E n \in Nat : q = [p EXCEPT !.extension_len = n]
      \/ \E s \in edited : q = [p EXCEPT !.tlvs = s]
      \/ \E x \in {"flags", "profile_id", "profile_version"} :
            \E v : q = [p EXCEPT !.base = [@ EXCEPT ![x] = v]]
    BY <1>3
<1>5. ASSUME NEW x \in {"flags", "profile_id", "profile_version"}, NEW v, NEW b,
             b = [p.base EXCEPT ![x] = v]
      PROVE  Fcn(b) /\ DOMAIN b = HealthFields /\ b.mcu_temperature = None /\ b.vdd = None
    BY <1>1, <1>5 DEF Fcn, HealthFields
<1>6. \/ q.base = p.base
      \/ \E x \in {"flags", "profile_id", "profile_version"} : \E v : q.base = [p.base EXCEPT ![x] = v]
    BY <1>1, <1>4
<1>7. Fcn(q.base) /\ DOMAIN q.base = HealthFields /\ q.base.mcu_temperature = None /\ q.base.vdd = None
    <2>1. CASE q.base = p.base
        BY <1>1, <2>1, Zenon
    <2>2. CASE \E x \in {"flags", "profile_id", "profile_version"} : \E v : q.base = [p.base EXCEPT ![x] = v]
        BY <1>5, <2>2
    <2>3. QED BY <1>6, <2>1, <2>2, Zenon
<1>8. /\ q = [schema |-> q.schema, base |-> q.base, extension_len |-> q.extension_len,
              tlvs |-> q.tlvs, extra |-> q.extra]
      /\ q.schema = p.schema \/ q.schema = FALSE
      /\ q.extra = p.extra \/ q.extra = 1
      /\ q.tlvs = p.tlvs \/ q.tlvs \in edited
      /\ q.extension_len \in Nat
    BY <1>1, <1>4
<1>9. q.schema \in BOOLEAN /\ q.tlvs \in Seq(Tlv)
    BY <1>1, <1>2, <1>8, Zenon
<1>10. q.extra \in 0 .. 1
    BY <1>1, <1>8
<1>11. QED BY <1>7, <1>8, <1>9, <1>10, Zenon DEF AirHealth

\* ... and an altered header, of the same type.
LEMMA AlteredHeaderAir ==
    ASSUME NEW h, AirHeader(h), NEW g \in AlteredHeaders(h)
    PROVE  AirHeader(g) /\ g.frame_type = h.frame_type
<1>1. /\ h = [discriminator |-> h.discriminator, frame_type |-> h.frame_type, common |-> h.common,
              fragment_index |-> h.fragment_index, fragment_count |-> h.fragment_count,
              payload_len |-> h.payload_len]
      /\ h.discriminator \in BOOLEAN
      /\ h.fragment_index \in Nat /\ h.payload_len \in Nat /\ PROFILE_STEP_LEN \in Nat
      /\ Fcn(h.common) /\ DOMAIN h.common = CommonFields
    BY DEF AirHeader, PROFILE_STEP_LEN
<1>2. Counts \subseteq Nat
    BY WireAssumption
<1>3. \/ g = [h EXCEPT !.discriminator = FALSE]
      \/ \E n \in Counts : g = [h EXCEPT !.fragment_index = n]
      \/ \E n \in Counts : g = [h EXCEPT !.fragment_count = n]
      \/ \E n \in {0, h.payload_len + 1, h.payload_len + PROFILE_STEP_LEN} :
            g = [h EXCEPT !.payload_len = n]
      \/ \E s \in SUBSET {"boot_id_valid", "from_hw_rng", "unknown"} : g = [h EXCEPT !.common.flags = s]
      \/ g = [h EXCEPT !.common.boot_id = 1 - @]
      \/ \E n \in Ids : g = [h EXCEPT !.common.config_id = n]
      \/ g = [h EXCEPT !.common.reset_cause_flags = {"unknown"}]
    BY Zenon DEF AlteredHeaders
<1>4. \/ g = [h EXCEPT !.discriminator = FALSE]
      \/ \E n \in Counts : g = [h EXCEPT !.fragment_index = n]
      \/ \E n : g = [h EXCEPT !.fragment_count = n]
      \/ \E n \in Nat : g = [h EXCEPT !.payload_len = n]
      \/ \E x \in CommonFields : \E v : g = [h EXCEPT !.common = [@ EXCEPT ![x] = v]]
    BY <1>1, <1>3 DEF CommonFields
<1>5. ASSUME NEW x \in CommonFields, NEW v, NEW b, b = [h.common EXCEPT ![x] = v]
      PROVE  Fcn(b) /\ DOMAIN b = CommonFields
    BY <1>1, <1>5 DEF Fcn, CommonFields
<1>6. \/ g.common = h.common
      \/ \E x \in CommonFields : \E v : g.common = [h.common EXCEPT ![x] = v]
    BY <1>1, <1>4
<1>7. Fcn(g.common) /\ DOMAIN g.common = CommonFields
    BY <1>1, <1>5, <1>6, Zenon
<1>8. /\ g = [discriminator |-> g.discriminator, frame_type |-> g.frame_type, common |-> g.common,
              fragment_index |-> g.fragment_index, fragment_count |-> g.fragment_count,
              payload_len |-> g.payload_len]
      /\ g.discriminator = h.discriminator \/ g.discriminator = FALSE
      /\ g.fragment_index = h.fragment_index \/ g.fragment_index \in Counts
      /\ g.frame_type = h.frame_type
      /\ g.payload_len = h.payload_len \/ g.payload_len \in Nat
    BY <1>1, <1>4
<1>9. g.discriminator \in BOOLEAN /\ g.fragment_index \in Nat /\ g.payload_len \in Nat
    BY <1>1, <1>2, <1>8, Zenon
<1>10. QED BY <1>7, <1>8, <1>9, Zenon DEF AirHeader

\* An altered frame is a frame of the same type.
LEMMA AlteredFrameAir ==
    ASSUME NEW f, NEW kind, AirFrame(f, kind), NEW g,
           \/ \E h \in AlteredHeaders(f.header) : g = [f EXCEPT !.header = h]
           \/ \E p \in AlteredPayloads(f) : g = [f EXCEPT !.payload = p]
    PROVE  AirFrame(g, kind)
<1>1. /\ f = [header |-> f.header, payload |-> f.payload]
      /\ AirHeader(f.header)
      /\ f.header.frame_type = FrameType(kind)
      /\ \/ kind = "scan" /\ AirProfile(f.payload)
         \/ kind = "config" /\ AirConfig(f.payload)
         \/ kind = "health" /\ AirHealth(f.payload)
    BY DEF AirFrame
<1>2. /\ g = [header |-> g.header, payload |-> g.payload]
      /\ \/ g.header \in AlteredHeaders(f.header) /\ g.payload = f.payload
         \/ g.header = f.header /\ g.payload \in AlteredPayloads(f)
    BY <1>1
<1>3. CASE g.header \in AlteredHeaders(f.header) /\ g.payload = f.payload
    <2>1. AirHeader(g.header) /\ g.header.frame_type = f.header.frame_type
        BY <1>1, <1>3, AlteredHeaderAir
    <2>2. QED BY <1>1, <1>2, <1>3, <2>1, Zenon DEF AirFrame
<1>4. CASE g.header = f.header /\ g.payload \in AlteredPayloads(f)
    <2>1. CASE kind = "scan" /\ AirProfile(f.payload)
        <3>1. f.header.frame_type = "ProfileFragment"
            BY <1>1, <2>1 DEF FrameType
        <3>2. g.payload \in AlteredProfiles(f.payload)
            BY <1>4, <3>1 DEF AlteredPayloads
        <3>3. AirProfile(g.payload)
            BY <2>1, <3>2, AlteredProfileAir
        <3>4. QED BY <1>1, <1>2, <1>4, <2>1, <3>3, Zenon DEF AirFrame
    <2>2. CASE kind = "config" /\ AirConfig(f.payload)
        <3>1. f.header.frame_type = "DeviceConfig"
            BY <1>1, <2>2 DEF FrameType
        <3>2. g.payload \in AlteredConfigs(f.payload)
            BY <1>4, <3>1 DEF AlteredPayloads
        <3>3. AirConfig(g.payload)
            BY <2>2, <3>2, AlteredConfigAir
        <3>4. QED BY <1>1, <1>2, <1>4, <2>2, <3>3, Zenon DEF AirFrame
    <2>3. CASE kind = "health" /\ AirHealth(f.payload)
        <3>1. f.header.frame_type = "DeviceHealth"
            BY <1>1, <2>3 DEF FrameType
        <3>2. g.payload \in AlteredHealths(f.payload)
            BY <1>4, <3>1 DEF AlteredPayloads
        <3>3. AirHealth(g.payload)
            BY <2>3, <3>2, AlteredHealthAir
        <3>4. QED BY <1>1, <1>2, <1>4, <2>3, <3>3, Zenon DEF AirFrame
    <2>4. QED BY <1>1, <2>1, <2>2, <2>3, Zenon
<1>5. QED BY <1>2, <1>3, <1>4, Zenon

-----------------------------------------------------------------------------
(***************************************************************************)
(* A frame the decoder accepts is the one an encoder writes.               *)
(***************************************************************************)
\* What is sent, and what is in the air.
AirInv ==
    /\ record \in Records /\ sent = Encode(record)
    /\ frame # None => AirFrame(frame, record.kind)

\* What is sent and in the air at the start, ...
LEMMA AirStart == Init => AirInv
<1>1. QED BY DEF Init, AirInv

\* ... and after a step.
LEMMA AirStep == AirInv /\ [Next]_vars => AirInv'
<1> SUFFICES ASSUME AirInv, [Next]_vars PROVE AirInv'
    OBVIOUS
<1>1. record \in Records /\ sent = Encode(record)
    BY DEF AirInv
<1>2. ASSUME NEW i \in DOMAIN sent, Send(i) PROVE AirInv'
    <2>1. AirFrame(sent[i], record.kind)
        BY <1>1, <1>2, SentFrames
    <2>2. frame' = sent[i] /\ record' = record /\ sent' = sent
        BY <1>2 DEF Send
    <2>3. AirFrame(frame', record'.kind)
        BY <2>1, <2>2, Zenon
    <2>4. QED BY <1>1, <2>2, <2>3, Zenon DEF AirInv, AirFrame, AirHeader, AirProfile, AirConfig, AirHealth
<1>3. ASSUME Lose \/ Receive PROVE AirInv'
    <2>1. frame' = None /\ record' = record /\ sent' = sent
        BY <1>3 DEF Lose, Receive
    <2>2. QED BY <1>1, <2>1 DEF AirInv
<1>4. ASSUME Alter PROVE AirInv'
    <2>1. /\ frame # None /\ record' = record /\ sent' = sent
          /\ \/ \E h \in AlteredHeaders(frame.header) : frame' = [frame EXCEPT !.header = h]
             \/ \E p \in AlteredPayloads(frame) : frame' = [frame EXCEPT !.payload = p]
        BY <1>4 DEF Alter
    <2>2. AirFrame(frame, record.kind)
        BY <2>1 DEF AirInv
    <2>3. AirFrame(frame', record.kind)
        BY <2>1, <2>2, AlteredFrameAir
    <2>4. QED BY <1>1, <2>1, <2>3 DEF AirInv
<1>5. ASSUME UNCHANGED vars PROVE AirInv'
    BY <1>5 DEF AirInv, vars
<1>6. QED BY <1>2, <1>3, <1>4, <1>5 DEF Next

\* A header that the decoder accepts, written again.
LEMMA HeaderWrites ==
    ASSUME NEW h, AirHeader(h), NEW length, decode_header(h, length)
    PROVE  /\ h = Header(h.frame_type, h.common, h.fragment_index, h.fragment_count, h.payload_len)
           /\ ValidCommon(h.common)
           /\ h.fragment_index < h.fragment_count
           /\ length = HEADER_LEN + h.payload_len
<1>1. /\ h = [discriminator |-> h.discriminator, frame_type |-> h.frame_type, common |-> h.common,
              fragment_index |-> h.fragment_index, fragment_count |-> h.fragment_count,
              payload_len |-> h.payload_len]
      /\ h.discriminator \in BOOLEAN
    BY DEF AirHeader
<1>2. /\ h.discriminator /\ ValidCommon(h.common)
      /\ h.fragment_index < h.fragment_count
      /\ length = HEADER_LEN + h.payload_len
    BY DEF decode_header
<1>3. (h.discriminator) = TRUE
    BY <1>1, <1>2, Zenon
<1>4. h = [discriminator |-> TRUE, frame_type |-> h.frame_type, common |-> h.common,
           fragment_index |-> h.fragment_index, fragment_count |-> h.fragment_count,
           payload_len |-> h.payload_len]
    BY <1>1, <1>3, Zenon
<1>5. QED BY <1>2, <1>4, Zenon DEF Header

\* Lengths of accepted frames: the payload is as long as the header says.
LEMMA AcceptedLength ==
    ASSUME NEW f, NEW n \in Nat, PayloadLen(f) = n, f.header.payload_len \in Int,
           HEADER_LEN + PayloadLen(f) = HEADER_LEN + f.header.payload_len
    PROVE  f.header.payload_len = n
<1>1. QED BY DEF HEADER_LEN

\* An accepted profile frame is the one an encoder writes for the fragment.
LEMMA CanonicalProfile ==
    ASSUME NEW f, AirFrame(f, "scan"), decode(f)
    PROVE  /\ f = Reencoded(f)
           /\ GoodView(from_view(f))
           /\ ValidCommon(f.header.common)
           /\ decode_profile_fragment(f.header, f.payload)
<1> DEFINE h == f.header
           p == f.payload
           q == ProfilePayload(p.meta, h.fragment_index, p.steps)
<1>1. /\ f = [header |-> h, payload |-> p] /\ AirHeader(h) /\ h.frame_type = "ProfileFragment"
      /\ AirProfile(p)
    BY DEF AirFrame, FrameType
<1>2. /\ p = [schema |-> p.schema, meta |-> p.meta, steps_in_fragment |-> p.steps_in_fragment,
              step_window_start |-> p.step_window_start, steps |-> p.steps, extra |-> p.extra]
      /\ p.schema \in BOOLEAN /\ p.steps \in Seq(ProfileStep) /\ p.extra \in 0 .. 1
    BY <1>1 DEF AirProfile
<1>3. PayloadLen(f) = ProfilePayloadLen(p)
    BY <1>1 DEF PayloadLen
<1>4. decode_header(h, HEADER_LEN + PayloadLen(f)) /\ decode_profile_fragment(h, p)
    BY <1>1 DEF decode
<1>5. /\ h = Header(h.frame_type, h.common, h.fragment_index, h.fragment_count, h.payload_len)
      /\ ValidCommon(h.common)
      /\ h.fragment_index < h.fragment_count
      /\ HEADER_LEN + PayloadLen(f) = HEADER_LEN + h.payload_len
    BY <1>1, <1>4, HeaderWrites
<1>6. h.fragment_index \in Nat /\ h.payload_len \in Nat
    BY <1>1 DEF AirHeader
<1>7. Len(p.steps) \in Nat /\ DOMAIN p.steps = 1 .. Len(p.steps)
    BY <1>2
<1>8. ProfileFrame(f)
    BY <1>1, <1>2, <1>6, <1>7 DEF ProfileFrame, PROFILE_STEP_LEN
<1>9. /\ GoodView(from_view(f))
      /\ Len(p.steps) = p.steps_in_fragment
      /\ p.extra = 0
    BY <1>4, <1>5, <1>8, DecodedProfile
<1>10. p.schema /\ p.step_window_start = WindowStart(h.fragment_index)
    BY <1>4 DEF decode_profile_fragment, WindowChecked
<1>11. (p.schema) = TRUE
    BY <1>2, <1>10, Zenon
<1>12. q = [schema |-> TRUE, meta |-> p.meta, steps_in_fragment |-> Len(p.steps),
            step_window_start |-> WindowStart(h.fragment_index), steps |-> p.steps, extra |-> 0]
    BY DEF ProfilePayload
<1>13. q = p
    BY <1>2, <1>9, <1>10, <1>11, <1>12, Zenon
<1>14. h.payload_len = ProfilePayloadLen(p)
    <2>1. ProfilePayloadLen(p) \in Nat
        BY <1>7, <1>9 DEF ProfilePayloadLen, PROFILE_FRAGMENT_META_LEN, PROFILE_STEP_LEN
    <2>2. QED BY <1>3, <1>5, <1>6, <2>1, AcceptedLength
<1>15. /\ from_view(f).meta = p.meta /\ from_view(f).fragment_index = h.fragment_index
       /\ from_view(f).steps = p.steps /\ from_view(f).identity = h.common
       /\ from_view(f).expected_fragment_count = h.fragment_count
    BY DEF from_view
<1>16. Reencoded(f) = [header |-> Header("ProfileFragment", h.common, h.fragment_index,
                                         h.fragment_count, ProfilePayloadLen(q)), payload |-> q]
    <2>1. Reencoded(f) =
             LET r == ProfilePayload(from_view(f).meta, from_view(f).fragment_index, from_view(f).steps)
             IN [header |-> Header("ProfileFragment", from_view(f).identity, from_view(f).fragment_index,
                                   from_view(f).expected_fragment_count, ProfilePayloadLen(r)),
                 payload |-> r]
        BY <1>1, Zenon DEF Reencoded
    <2>2. QED BY <1>15, <2>1, Zenon
<1> HIDE DEF h, p, q
<1>17. Reencoded(f) = [header |-> h, payload |-> p]
    BY <1>1, <1>5, <1>13, <1>14, <1>16, Zenon
<1>18. f = Reencoded(f)
    BY <1>1, <1>17, Zenon
<1>19. QED BY <1>4, <1>5, <1>9, <1>18, Zenon DEF h, p

\* An accepted configuration frame is the one an encoder writes for the configuration.
LEMMA CanonicalConfig ==
    ASSUME NEW f, AirFrame(f, "config"), decode(f)
    PROVE  /\ f = Reencoded(f)
           /\ validate_config(ConfigOf(f.payload))
           /\ write_config_payload(ConfigOf(f.payload)) = f.payload
           /\ f.header.common.config_id = fnv1a64(f.payload)
<1> DEFINE h == f.header
           p == f.payload
           c == ConfigOf(p)
           repeated == "config_repeat" \in h.common.flags
           flags == h.common.flags \cup (IF repeated THEN {"config_repeat"} ELSE {})
<1>1. /\ f = [header |-> h, payload |-> p] /\ AirHeader(h) /\ h.frame_type = "DeviceConfig"
      /\ AirConfig(p)
    BY DEF AirFrame, FrameType
<1>2. PayloadLen(f) = ConfigPayloadLen(p)
    BY <1>1 DEF PayloadLen
<1>3. decode_header(h, HEADER_LEN + PayloadLen(f)) /\ decode_device_config(h, p)
    BY <1>1 DEF decode
<1>4. /\ h = Header(h.frame_type, h.common, h.fragment_index, h.fragment_count, h.payload_len)
      /\ ValidCommon(h.common)
      /\ HEADER_LEN + PayloadLen(f) = HEADER_LEN + h.payload_len
    BY <1>1, <1>3, HeaderWrites
<1>5. /\ h.payload_len \in Nat /\ Fcn(h.common) /\ DOMAIN h.common = CommonFields
    BY <1>1 DEF AirHeader
<1>6. /\ h.fragment_index = 0 /\ h.fragment_count = 1
      /\ p.schema
      /\ p.base.expected_step_count \in 1 .. MaxSteps
      /\ ConfigPayloadLen(p) = CONFIG_BASE_LEN + CONFIG_STEP_LEN * p.base.expected_step_count
      /\ h.common.config_id # 0 /\ h.common.config_id = fnv1a64(p)
      /\ validate_config(c)
    BY <1>3 DEF decode_device_config, validate_decoded_config, ConfigIdChecked
<1>7. write_config_payload(c) = p
    BY <1>1, <1>6, ConfigWrites
<1>8. h.payload_len = ConfigPayloadLen(p)
    <2>1. p.base.expected_step_count \in Nat
        BY <1>6, ProtocolAssumption
    <2>2. ConfigPayloadLen(p) \in Nat
        BY <1>6, <2>1 DEF CONFIG_BASE_LEN, CONFIG_STEP_LEN
    <2>3. QED BY <1>2, <1>4, <1>5, <2>2, AcceptedLength
<1>9. encodes_device_config(h.common, c)
    BY <1>4, <1>6, <1>7 DEF encodes_device_config, device_config_id
<1>10. Reencoded(f) = encode_device_config(h.common, c, repeated)
    <2>1. Reencoded(f) = IF encodes_device_config(h.common, c)
                         THEN encode_device_config(h.common, c, repeated) ELSE None
        BY <1>1, Zenon DEF Reencoded
    <2>2. QED BY <1>9, <2>1, Zenon
<1>11. encode_device_config(h.common, c, repeated) =
          [header |-> Header("DeviceConfig",
                             [h.common EXCEPT !.config_id = fnv1a64(write_config_payload(c)),
                                              !.flags = flags],
                             0, 1, ConfigPayloadLen(write_config_payload(c))),
           payload |-> write_config_payload(c)]
    BY Zenon DEF encode_device_config
<1>12. flags = h.common.flags
    OBVIOUS
<1> HIDE DEF h, p, c, repeated, flags
<1>13. [h.common EXCEPT !.config_id = fnv1a64(p), !.flags = flags] = h.common
    <2> DEFINE k == h.common
               id == fnv1a64(p)
    <2>1. Fcn(k) /\ DOMAIN k = CommonFields /\ k.config_id = id /\ k.flags = flags
        BY <1>5, <1>6, <1>12
    <2> HIDE DEF k, id
    <2>2. [k EXCEPT !.config_id = id, !.flags = flags] = k
        BY <2>1 DEF Fcn, CommonFields
    <2>3. QED BY <2>2 DEF k, id
<1>14. Reencoded(f) = [header |-> Header("DeviceConfig", h.common, 0, 1, ConfigPayloadLen(p)),
                       payload |-> p]
    BY <1>7, <1>10, <1>11, <1>13, Zenon
<1>15. Reencoded(f) = [header |-> h, payload |-> p]
    BY <1>1, <1>4, <1>6, <1>8, <1>14, Zenon
<1>16. f = Reencoded(f)
    BY <1>1, <1>15, Zenon
<1>17. QED BY <1>6, <1>7, <1>16, Zenon DEF h, p, c

\* An accepted health frame is the one an encoder writes for the record.
LEMMA CanonicalHealth ==
    ASSUME NEW f, AirFrame(f, "health"), decode(f)
    PROVE  f = Reencoded(f)
<1> DEFINE h == f.header
           p == f.payload
           x == HealthOf(p)
           own == [schema |-> TRUE, base |-> [x EXCEPT !.mcu_temperature = None, !.vdd = None],
                   extension_len |-> TlvBytes(Tlvs(x)), tlvs |-> Tlvs(x), extra |-> 0]
<1>1. /\ f = [header |-> h, payload |-> p] /\ AirHeader(h) /\ h.frame_type = "DeviceHealth"
      /\ AirHealth(p)
    BY DEF AirFrame, FrameType
<1>2. PayloadLen(f) = HealthPayloadLen(p)
    BY <1>1 DEF PayloadLen
<1>3. decode_header(h, HEADER_LEN + PayloadLen(f)) /\ decode_device_health(h, p)
    BY <1>1 DEF decode
<1>4. /\ h = Header(h.frame_type, h.common, h.fragment_index, h.fragment_count, h.payload_len)
      /\ ValidCommon(h.common)
      /\ HEADER_LEN + PayloadLen(f) = HEADER_LEN + h.payload_len
    BY <1>1, <1>3, HeaderWrites
<1>5. h.payload_len \in Nat
    BY <1>1 DEF AirHeader
<1>6. /\ p = [schema |-> p.schema, base |-> p.base, extension_len |-> p.extension_len,
              tlvs |-> p.tlvs, extra |-> p.extra]
      /\ p.schema \in BOOLEAN
      /\ Fcn(p.base) /\ DOMAIN p.base = HealthFields
      /\ p.base.mcu_temperature = None /\ p.base.vdd = None
      /\ p.extension_len \in Nat
      /\ p.tlvs \in Seq(Tlv)
    BY <1>1 DEF AirHealth
<1>7. /\ h.fragment_index = 0 /\ h.fragment_count = 1
      /\ p.schema
      /\ validate_health_flags(h.common, p.base.flags)
      /\ HealthPayloadLen(p) = HEALTH_BASE_LEN + p.extension_len
      /\ TlvsOrdered(p.tlvs)
      /\ \A i \in DOMAIN p.tlvs : p.tlvs[i].kind \in {1, 2} /\ p.tlvs[i].len = 2
      /\ p.extra = 0
      /\ validate_health_config_identity(h.common, x)
    BY <1>3, Zenon DEF decode_device_health, validate_decoded_health
<1>8. TlvsGood(p.tlvs)
    BY <1>6, <1>7, Zenon DEF TlvsGood
<1>9. PICK v, w \in Nat \cup {None} : p.tlvs = TlvsOf(v, w)
    BY <1>8, TlvsRead
<1>10. /\ TlvValue(p.tlvs, 1) = v /\ TlvValue(p.tlvs, 2) = w /\ Len(p.tlvs) \in 0 .. 2
    BY <1>9, TlvsWritten
<1>11. x = [p.base EXCEPT !.mcu_temperature = v, !.vdd = w]
    BY <1>10, Zenon DEF HealthOf
<1>12. TlvBytes(p.tlvs) = p.extension_len
    <2>1. DOMAIN p.tlvs = 1 .. Len(p.tlvs)
        BY <1>6
    <2>2. TlvBytes(p.tlvs) = 4 * Len(p.tlvs)
        BY <1>7, <1>10, <2>1, TlvLengths
    <2> DEFINE n == Len(p.tlvs)
               b == TlvBytes(p.tlvs)
    <2>3. n \in 0 .. 2 /\ b = 4 * n /\ HEALTH_BASE_LEN + b + p.extra = HEALTH_BASE_LEN + p.extension_len
        BY <1>7, <1>10, <2>2 DEF HealthPayloadLen
    <2> HIDE DEF n, b
    <2>4. b = p.extension_len
        BY <1>6, <1>7, <2>3 DEF HEALTH_BASE_LEN
    <2>5. QED BY <2>4 DEF b
<1> HIDE DEF h, p, x
<1>13. /\ x.mcu_temperature = v /\ x.vdd = w /\ x.flags = p.base.flags
       /\ [x EXCEPT !.mcu_temperature = None, !.vdd = None] = p.base
    BY <1>6, <1>11 DEF Fcn, HealthFields
<1>14. Tlvs(x) = p.tlvs
    BY <1>9, <1>13, Zenon DEF Tlvs, TlvsOf
<1>15. own = p
    <2>1. (p.schema) = TRUE
        BY <1>6, <1>7, Zenon
    <2>2. QED BY <1>6, <1>7, <1>12, <1>13, <1>14, <2>1, Zenon
<1>16. encodes_device_health(h.common, x)
    BY <1>4, <1>7, <1>13, Zenon DEF encodes_device_health
<1>17. Reencoded(f) = encode_device_health(h.common, x)
    <2>1. Reencoded(f) = IF encodes_device_health(h.common, x)
                         THEN encode_device_health(h.common, x) ELSE None
        BY <1>1, Zenon DEF Reencoded, h, p, x
    <2>2. QED BY <1>16, <2>1, Zenon
<1>18. encode_device_health(h.common, x) =
          [header |-> Header("DeviceHealth", h.common, 0, 1, HealthPayloadLen(own)), payload |-> own]
    BY Zenon DEF encode_device_health
<1> HIDE DEF own
<1>19. h.payload_len = HealthPayloadLen(p)
    <2>1. HealthPayloadLen(p) \in Nat
        BY <1>6, <1>7 DEF HEALTH_BASE_LEN
    <2>2. f.header.payload_len = h.payload_len
        BY DEF h
    <2>3. QED BY <1>2, <1>4, <1>5, <2>1, <2>2, AcceptedLength
<1>20. Reencoded(f) = [header |-> h, payload |-> p]
    BY <1>1, <1>4, <1>7, <1>15, <1>17, <1>18, <1>19, Zenon
<1>21. QED BY <1>1, <1>20, Zenon

\* A frame that the decoder accepts, however it was altered on the way and how often, is byte for
\* byte what an encoder writes for the record made of it (v2.rs): nothing is accepted and lost.
THEOREM AcceptedFramesAreCanonical == Spec => []Canonical
<1>1. AirInv => Canonical
    <2> SUFFICES ASSUME AirInv, frame # None, decode(frame) PROVE frame = Reencoded(frame)
        BY DEF Canonical
    <2>1. AirFrame(frame, record.kind)
        BY DEF AirInv
    <2>2. record.kind \in {"scan", "config", "health"}
        BY <2>1 DEF AirFrame
    <2>3. QED BY <2>1, <2>2, CanonicalProfile, CanonicalConfig, CanonicalHealth
<1>2. QED BY <1>1, AirStart, AirStep, PTL DEF Spec

-----------------------------------------------------------------------------
(***************************************************************************)
(* What the receiver keeps.                                                *)
(***************************************************************************)
\* A fragment of an accepted frame: all that the decoder checked, with the fields of a fragment.
Fragment(g) ==
    /\ GoodView(g)
    /\ ValidCommon(g.identity)
    /\ g.meta.profile_identity
    /\ validate_profile_config_identity(g.identity, g.meta)
    /\ ensure_known(g.meta.collection_flags)
    /\ g.meta.finish_reason # "unknown"
    /\ "stale_pre_scan_fields" \in g.meta.collection_flags => g.meta.intermediate_field_count # 0
    /\ g.steps \in Seq(ProfileStep)
    /\ g = [identity |-> g.identity, meta |-> g.meta,
            expected_fragment_count |-> g.expected_fragment_count,
            fragment_index |-> g.fragment_index, steps |-> g.steps]

\* What is made of a frame of each kind.
Made(f, kind) ==
    CASE kind = "scan" -> from_view(f)
      [] kind = "config" -> device_configuration(f)
      [] kind = "health" -> device_health(f)

\* Fragments of one scan, or sound configurations; and what the node sent, if nothing was altered.
KeptOf(r, K) ==
    /\ r.kind = "scan" => OneScan(K) /\ \A g \in K : Fragment(g)
    /\ r.kind = "config" => \A x \in K : validate_configuration(x)

FromNode(r, s, K) == \A x \in K : \E i \in DOMAIN s : x = Made(s[i], r.kind)

KeptInv ==
    /\ KeptOf(record, kept)
    /\ altered \in Nat
    /\ altered = 0 => /\ frame # None => \E i \in DOMAIN sent : frame = sent[i]
                      /\ FromNode(record, sent, kept)

WireInv == AirInv /\ KeptInv

\* The fragment of an accepted frame.
LEMMA AcceptedFragment ==
    ASSUME NEW f, AirFrame(f, "scan"), decode(f)
    PROVE  Fragment(from_view(f))
<1> DEFINE g == from_view(f)
           m == f.payload.meta
<1>1. /\ GoodView(g) /\ ValidCommon(f.header.common)
      /\ decode_profile_fragment(f.header, f.payload)
    BY CanonicalProfile
<1>2. /\ g.identity = f.header.common /\ g.meta = m /\ g.steps = f.payload.steps
      /\ g = [identity |-> g.identity, meta |-> g.meta,
              expected_fragment_count |-> g.expected_fragment_count,
              fragment_index |-> g.fragment_index, steps |-> g.steps]
    BY DEF from_view
<1>3. /\ m.profile_identity
      /\ validate_profile_config_identity(f.header.common, m)
      /\ ensure_known(m.collection_flags)
      /\ m.finish_reason # "unknown"
      /\ "stale_pre_scan_fields" \in m.collection_flags => m.intermediate_field_count # 0
    BY <1>1 DEF decode_profile_fragment
<1>4. f.payload.steps \in Seq(ProfileStep)
    BY DEF AirFrame, AirProfile
<1> HIDE DEF g, m
<1>5. Fragment(g)
    BY <1>1, <1>2, <1>3, <1>4, Zenon DEF Fragment, g
<1>6. QED BY <1>5 DEF g

\* A configuration record keeps what the configuration says, with the steps that count.
LEMMA RecordOfConfig ==
    ASSUME NEW f, AirConfig(f.payload)
    PROVE  /\ device_configuration(f).identity = f.header.common
           /\ device_configuration(f).repeated = ("config_repeat" \in f.header.common.flags)
           /\ device_configuration(f).config.expected_step_count =
                 ConfigOf(f.payload).expected_step_count
           /\ device_configuration(f).config.readback_valid = ConfigOf(f.payload).readback_valid
           /\ device_configuration(f).config.steps =
                 [k \in 1 .. ConfigOf(f.payload).expected_step_count |-> ConfigOf(f.payload).steps[k - 1]]
<1> DEFINE c == ConfigOf(f.payload)
           steps == [k \in 1 .. c.expected_step_count |-> c.steps[k - 1]]
           d == [c EXCEPT !.steps = steps]
           read == [s \in StepIndex |-> IF s < Len(f.payload.steps) THEN f.payload.steps[s + 1] ELSE 0]
<1>1. device_configuration(f) =
          [identity |-> f.header.common, repeated |-> "config_repeat" \in f.header.common.flags,
           config |-> d]
    BY Zenon DEF device_configuration
<1>2. c = [f.payload.base EXCEPT !.steps = read]
    BY Zenon DEF ConfigOf
<1>3. Fcn(f.payload.base) /\ DOMAIN f.payload.base = ConfigRecordFields
    BY DEF AirConfig
<1> HIDE DEF c, read, steps
<1>4. DOMAIN c = ConfigRecordFields
    BY <1>2, <1>3
<1>5. /\ d.expected_step_count = c.expected_step_count /\ d.readback_valid = c.readback_valid
      /\ d.steps = steps
    BY <1>4 DEF ConfigRecordFields
<1> HIDE DEF d
<1>6. QED BY <1>1, <1>5 DEF c, steps

\* The configuration of an accepted frame passes the validation before it is stored.
LEMMA AcceptedConfig ==
    ASSUME NEW f, AirFrame(f, "config"), decode(f)
    PROVE  validate_configuration(device_configuration(f))
<1> DEFINE c == ConfigOf(f.payload)
           r == device_configuration(f)
           steps == [k \in 1 .. c.expected_step_count |-> c.steps[k - 1]]
<1>1. AirConfig(f.payload)
    BY DEF AirFrame
<1>2. /\ r.config.expected_step_count = c.expected_step_count
      /\ r.config.readback_valid = c.readback_valid
      /\ r.config.steps = steps
    BY <1>1, RecordOfConfig
<1>3. /\ c.expected_step_count \in 1 .. MaxSteps
      /\ c.readback_valid \subseteq step_mask(c.expected_step_count)
    BY CanonicalConfig DEF validate_config
<1>4. Len(steps) = c.expected_step_count
    <2> HIDE DEF c
    <2> DEFINE n == c.expected_step_count
    <2>1. n \in Nat
        BY <1>3, ProtocolAssumption
    <2> HIDE DEF n
    <2>2. Len([k \in 1 .. n |-> c.steps[k - 1]]) = n
        BY <2>1
    <2>3. QED BY <2>2 DEF n
<1> HIDE DEF c, r, steps
<1>5. validate_configuration(r)
    BY <1>2, <1>3, <1>4 DEF validate_configuration
<1>6. QED BY <1>5 DEF r

\* What the receiver keeps at the start, ...
LEMMA WireStart == Init => WireInv
<1> SUFFICES ASSUME Init PROVE WireInv
    OBVIOUS
<1>1. AirInv
    BY AirStart
<1>2. kept = {} /\ altered = 0 /\ frame = None
    BY DEF Init
<1>3. QED BY <1>1, <1>2 DEF WireInv, KeptInv, KeptOf, FromNode, OneScan

\* What Receive keeps.
LEMMA KeepInv ==
    ASSUME WireInv, NEW f, AirFrame(f, record.kind), decode(f),
           altered = 0 => \E i \in DOMAIN sent : f = sent[i], NEW K, K = Keep(f)
    PROVE  KeptOf(record, K) /\ (altered = 0 => FromNode(record, sent, K))
<1>1. f.header.frame_type = FrameType(record.kind) /\ record.kind \in {"scan", "config", "health"}
    BY DEF AirFrame
<1>2. /\ record.kind = "scan" => OneScan(kept) /\ \A g \in kept : Fragment(g)
      /\ altered = 0 => \A r \in kept : \E i \in DOMAIN sent : r = Made(sent[i], record.kind)
    BY DEF WireInv, KeptInv, KeptOf, FromNode
<1>3. CASE record.kind = "scan"
    <2> DEFINE g == from_view(f)
    <2>1. K = IF Joins(g) THEN kept \cup {g} ELSE kept
        BY <1>1, <1>3 DEF Keep, FrameType
    <2>2. Fragment(g) /\ GoodView(g)
        BY <1>3, AcceptedFragment DEF Fragment
    <2>3. altered = 0 => \E i \in DOMAIN sent : g = Made(sent[i], record.kind)
        BY <1>3 DEF Made
    <2>4. Joins(g) => \A o \in kept : /\ g.identity = o.identity /\ g.meta = o.meta
                                      /\ g.expected_fragment_count = o.expected_fragment_count
                                      /\ g.fragment_index # o.fragment_index
        BY Zenon DEF Joins
    <2> HIDE DEF g
    <2>5. OneScan(kept) /\ \A o \in kept : Fragment(o)
        BY <1>2, <1>3, Zenon
    <2>6. CASE Joins(g)
        <3>1. K = kept \cup {g}
            BY <2>1, <2>6, Zenon
        <3>2. \A o \in K : GoodView(o)
            BY <2>2, <2>5, <3>1, Zenon DEF OneScan
        <3>3. \A o, q \in K : /\ o.identity = q.identity /\ o.meta = q.meta
                              /\ o.expected_fragment_count = q.expected_fragment_count
                              /\ o.fragment_index = q.fragment_index => o = q
            BY <2>4, <2>5, <2>6, <3>1 DEF OneScan
        <3>4. OneScan(K)
            BY <3>2, <3>3, Zenon DEF OneScan
        <3>5. \A o \in K : Fragment(o)
            BY <2>2, <2>5, <3>1, Zenon
        <3>6. altered = 0 => \A r \in K : \E i \in DOMAIN sent : r = Made(sent[i], record.kind)
            BY <1>2, <2>3, <3>1, Zenon
        <3>7. QED BY <1>3, <3>4, <3>5, <3>6 DEF KeptOf, FromNode
    <2>7. CASE ~ Joins(g)
        <3>1. K = kept
            BY <2>1, <2>7, Zenon
        <3>2. QED BY <1>2, <1>3, <2>5, <3>1 DEF KeptOf, FromNode
    <2>8. QED BY <2>6, <2>7, Zenon
<1>4. CASE record.kind = "config"
    <2>1. K = {device_configuration(f)}
        BY <1>1, <1>4 DEF Keep, FrameType
    <2>2. validate_configuration(device_configuration(f))
        BY <1>4, AcceptedConfig
    <2>3. altered = 0 => \E i \in DOMAIN sent : device_configuration(f) = Made(sent[i], record.kind)
        BY <1>4 DEF Made
    <2>4. QED BY <1>4, <2>1, <2>2, <2>3 DEF KeptOf, FromNode
<1>5. CASE record.kind = "health"
    <2>1. K = {device_health(f)}
        BY <1>1, <1>5 DEF Keep, FrameType
    <2>2. altered = 0 => \E i \in DOMAIN sent : device_health(f) = Made(sent[i], record.kind)
        BY <1>5 DEF Made
    <2>3. QED BY <1>5, <2>1, <2>2 DEF KeptOf, FromNode
<1>6. QED BY <1>1, <1>3, <1>4, <1>5

\* ... and after a step.
LEMMA WireStep == WireInv /\ [Next]_vars => WireInv'
<1> SUFFICES ASSUME WireInv, [Next]_vars PROVE WireInv'
    OBVIOUS
<1>1. AirInv /\ AirInv' /\ KeptInv
    BY AirStep DEF WireInv
<1> DEFINE SameKept == record' = record /\ sent' = sent /\ kept' = kept
           Frame == altered' = 0 => (frame' # None => \E i \in DOMAIN sent : frame' = sent[i])
<1>2. ASSUME SameKept, altered' \in Nat, altered' = 0 => altered = 0, Frame PROVE WireInv'
    <2>1. KeptInv'
        BY <1>1, <1>2 DEF KeptInv
    <2>2. QED BY <1>1, <2>1 DEF WireInv
<1>3. altered \in Nat
    BY <1>1 DEF KeptInv
<1>4. ASSUME NEW i \in DOMAIN sent, Send(i) PROVE WireInv'
    BY <1>2, <1>3, <1>4 DEF Send
<1>5. ASSUME Lose PROVE WireInv'
    BY <1>2, <1>3, <1>5 DEF Lose
<1>6. ASSUME Alter PROVE WireInv'
    <2>1. altered' = altered + 1 /\ SameKept
        BY <1>6 DEF Alter
    <2>2. altered' \in Nat /\ altered' # 0
        BY <1>3, <2>1
    <2>3. QED BY <1>2, <2>1, <2>2
<1>7. ASSUME Receive PROVE WireInv'
    <2>1. /\ frame # None /\ frame' = None /\ kept' = IF decode(frame) THEN Keep(frame) ELSE kept
          /\ record' = record /\ sent' = sent /\ altered' = altered
        BY <1>7 DEF Receive
    <2>2. CASE decode(frame)
        <3> DEFINE f == frame
        <3>1. /\ AirFrame(f, record.kind)
              /\ altered = 0 => \E i \in DOMAIN sent : f = sent[i]
            BY <1>1, <2>1 DEF AirInv, KeptInv
        <3>2. kept' = Keep(f) /\ decode(f)
            BY <2>1, <2>2
        <3> HIDE DEF f
        <3>3. KeptOf(record, kept') /\ (altered = 0 => FromNode(record, sent, kept'))
            BY <3>1, <3>2, KeepInv
        <3>4. KeptInv'
            BY <1>3, <2>1, <3>3 DEF KeptInv
        <3>5. QED BY <1>1, <3>4 DEF WireInv
    <2>3. CASE ~ decode(frame)
        BY <1>2, <1>3, <2>1, <2>3
    <2>4. QED BY <2>2, <2>3
<1>8. ASSUME UNCHANGED vars PROVE WireInv'
    <2>1. SameKept /\ altered' = altered /\ frame' = frame
        BY <1>8 DEF vars
    <2>2. Frame
        BY <1>1, <2>1 DEF KeptInv
    <2>3. QED BY <1>2, <1>3, <2>1, <2>2
<1>9. QED BY <1>4, <1>5, <1>6, <1>7, <1>8 DEF Next

\* Whatever is lost, repeated or altered on the way, the receiver keeps fragments of one scan, or
\* sound records; and without alteration, what the node sent (reassembly.rs, records.rs).
THEOREM WireInvariant == Spec => []WireInv
<1>1. QED BY WireStart, WireStep, PTL DEF Spec

\* Whatever fragments arrive, the record made of them is never refused by the store (records.rs).
THEOREM RecordsPassTheStore == Spec => []StoreAccepts
<1>1. WireInv => StoreAccepts
    <2> SUFFICES ASSUME WireInv PROVE StoreAccepts
        OBVIOUS
    <2>1. record.kind = "scan" => OneScan(kept)
        BY DEF WireInv, KeptInv, KeptOf
    <2>2. record.kind = "config" => \A r \in kept : validate_configuration(r)
        BY DEF WireInv, KeptInv, KeptOf
    <2>3. ASSUME record.kind = "scan", kept # {} PROVE validate(finish(kept))
        <3> PICK g \in kept : TRUE
            BY <2>3
        <3>1. QED BY <2>1, <2>3, RecordValid
    <2>4. QED BY <2>2, <2>3 DEF StoreAccepts, IsScan
<1>2. QED BY <1>1, WireInvariant, PTL

-----------------------------------------------------------------------------
(***************************************************************************)
(* The scan that a record shows.                                           *)
(***************************************************************************)
\* The scan of a record has at each index the step of the record, if there is one.
LEMMA ScanOfRecord ==
    ASSUME NEW K, OneScan(K), NEW g \in K, NEW S, S = NodeSteps(finish(K))
    PROVE  /\ S = [s \in StepIndex |-> S[s]]
           /\ \A s \in StepsOf(finish(K)) : s \in StepIndex /\ s < g.meta.expected_step_count
           /\ \A s \in StepIndex : s \notin StepsOf(finish(K)) => S[s] = None
           /\ \A x \in DOMAIN finish(K).steps :
                 S[finish(K).steps[x].step_index] = finish(K).steps[x]
<1> DEFINE scan == finish(K)
           m == g.meta
<1>1. /\ m.expected_step_count \in 1 .. MaxSteps /\ MaxSteps \in Nat
      /\ m.expected_step_count \in Nat
    BY ProtocolAssumption DEF OneScan, GoodView, GoodMeta
<1>2. /\ \A x \in DOMAIN scan.steps : scan.steps[x].step_index \in 0 .. m.expected_step_count - 1
      /\ \A x, y \in DOMAIN scan.steps : scan.steps[x].step_index = scan.steps[y].step_index => x = y
    BY RecordSteps
<1> HIDE DEF scan, m
<1>3. \A s : s \in StepsOf(scan) <=> \E x \in DOMAIN scan.steps : scan.steps[x].step_index = s
    BY DEF StepsOf
<1>4. \A s \in StepsOf(scan) : s \in StepIndex /\ s < m.expected_step_count
    BY <1>1, <1>2, <1>3 DEF StepIndex
<1>5. S = [s \in StepIndex |->
              IF s \in StepsOf(scan)
              THEN scan.steps[CHOOSE k \in DOMAIN scan.steps : scan.steps[k].step_index = s] ELSE None]
    BY Zenon DEF NodeSteps, scan
<1>6. \A s \in StepIndex : s \notin StepsOf(scan) => S[s] = None
    BY <1>5
<1>7. ASSUME NEW x \in DOMAIN scan.steps
      PROVE  S[scan.steps[x].step_index] = scan.steps[x]
    <2> DEFINE s == scan.steps[x].step_index
               y == CHOOSE k \in DOMAIN scan.steps : scan.steps[k].step_index = s
    <2>1. y \in DOMAIN scan.steps /\ scan.steps[y].step_index = s
        OBVIOUS
    <2>2. y = x
        BY <1>2, <2>1, Zenon
    <2>3. s \in StepsOf(scan) /\ s \in StepIndex
        BY <1>3, <1>4
    <2>4. S[s] = scan.steps[y]
        BY <1>5, <2>3, Zenon
    <2>5. QED BY <2>2, <2>4, Zenon
<1>8. S = [s \in StepIndex |-> S[s]]
    BY <1>5
<1>9. QED BY <1>4, <1>6, <1>7, <1>8 DEF scan, m

\* The steps of a fragment are those an encoder puts into it from the scan of the record.
LEMMA FragmentOfRecord ==
    ASSUME NEW K, OneScan(K), \A g \in K : Fragment(g), NEW g \in K,
           NEW S, S = NodeSteps(finish(K))
    PROVE  g.steps = FragmentSteps(g.fragment_index, g.meta, S)
<1> DEFINE i == g.fragment_index
           m == g.meta
           n == Cardinality(Required(i, m))
           Q == RequiredSteps(i, m)
<1>1. /\ DOMAIN g.steps = 1 .. n
      /\ \A k \in 1 .. n : g.steps[k].step_index = Q[k]
    BY DEF OneScan, GoodView, GoodSteps
<1>2. \A k \in DOMAIN g.steps :
          /\ <<i, k>> \in DOMAIN finish(K).steps
          /\ finish(K).steps[<<i, k>>] = g.steps[k]
    BY FinishFacts
<1>3. \A k \in 1 .. n : S[Q[k]] = g.steps[k]
    <2>1. \A x \in DOMAIN finish(K).steps : S[finish(K).steps[x].step_index] = finish(K).steps[x]
        BY ScanOfRecord
    <2> DEFINE T == finish(K).steps
    <2>2. \A x \in DOMAIN T : S[T[x].step_index] = T[x]
        BY <2>1
    <2>3. \A k \in 1 .. n : <<i, k>> \in DOMAIN T /\ T[<<i, k>>] = g.steps[k]
        BY <1>1, <1>2
    <2> HIDE DEF i, m, n, Q, T
    <2>4. ASSUME NEW k \in 1 .. n PROVE S[Q[k]] = g.steps[k]
        <3> DEFINE x == <<i, k>>
        <3>1. x \in DOMAIN T /\ T[x] = g.steps[k] /\ g.steps[k].step_index = Q[k]
            BY <1>1, <2>3
        <3> HIDE DEF x
        <3>2. S[T[x].step_index] = T[x]
            BY <2>2, <3>1
        <3>3. QED BY <3>1, <3>2, Zenon
    <2>5. QED BY <2>4
<1>4. g.steps \in Seq(ProfileStep)
    BY DEF Fragment
<1>5. FragmentSteps(i, m, S) = [k \in 1 .. n |-> S[Q[k]]]
    BY DEF FragmentSteps
<1> HIDE DEF i, m, n, Q
<1>6. g.steps = [k \in DOMAIN g.steps |-> g.steps[k]]
    BY <1>4
<1>7. g.steps = FragmentSteps(i, m, S)
    BY <1>1, <1>3, <1>5, <1>6
<1>8. QED BY <1>7 DEF i, m

\* A scan that is complete is one an encoder takes.
LEMMA CompleteEncodes ==
    ASSUME NEW K, OneScan(K), \A g \in K : Fragment(g), NEW g \in K,
           is_transport_complete(finish(K)), NEW S, S = NodeSteps(finish(K))
    PROVE  encodes_profile(g.identity, g.meta, S)
<1> DEFINE m == g.meta
           scan == finish(K)
<1>1. /\ m.expected_step_count \in 1 .. MaxSteps
      /\ m.missing_steps \cup m.duplicate_steps \subseteq step_mask(m.expected_step_count)
      /\ m.observed_unique_step_count = m.expected_step_count - Cardinality(m.missing_steps)
      /\ m.observed_field_count >= m.observed_unique_step_count
      /\ m.profile_identity
      /\ ensure_known(m.collection_flags)
      /\ m.finish_reason # "unknown"
      /\ "stale_pre_scan_fields" \in m.collection_flags => m.intermediate_field_count # 0
      /\ validate_profile_config_identity(g.identity, m)
      /\ ValidCommon(g.identity)
    BY DEF Fragment, GoodView, GoodMeta
<1>2. \A s : s \in StepsOf(scan) <=> s \in 0 .. m.expected_step_count - 1 /\ s \notin m.missing_steps
    BY RecordValid
<1>3. \A s \in StepIndex :
          IF s < m.expected_step_count /\ s \notin m.missing_steps
          THEN S[s] # None /\ S[s].step_index = s /\ validate_profile_step(S[s])
          ELSE S[s] = None
    <2> SUFFICES ASSUME NEW s \in StepIndex
                 PROVE  IF s < m.expected_step_count /\ s \notin m.missing_steps
                        THEN S[s] # None /\ S[s].step_index = s /\ validate_profile_step(S[s])
                        ELSE S[s] = None
        OBVIOUS
    <2>1. CASE s \in StepsOf(scan)
        <3>1. PICK x \in DOMAIN scan.steps : scan.steps[x].step_index = s
            BY <2>1 DEF StepsOf
        <3>2. S[s] = scan.steps[x]
            BY <3>1, ScanOfRecord
        <3>3. validate_profile_step(scan.steps[x])
            BY RecordSteps
        <3>4. scan.steps[x] \in ProfileStep
            <4>1. PICK h \in K : \E k \in DOMAIN h.steps : x = <<h.fragment_index, k>>
                BY FinishFacts
            <4>2. PICK k \in DOMAIN h.steps : x = <<h.fragment_index, k>>
                BY <4>1
            <4>3. scan.steps[x] = h.steps[k]
                BY <4>2, FinishFacts
            <4>4. h.steps \in Seq(ProfileStep)
                BY DEF Fragment
            <4> HIDE DEF scan
            <4>5. QED BY <4>3, <4>4
        <3>5. S[s] # None
            BY <3>2, <3>4, NoneAssumption
        <3> HIDE DEF scan, m
        <3>6. QED BY <3>1, <3>2, <3>3, <3>5, <1>2, <2>1, <1>1, ProtocolAssumption
    <2>2. CASE s \notin StepsOf(scan)
        <3>1. S[s] = None
            BY <2>2, ScanOfRecord
        <3> HIDE DEF scan, m
        <3>2. QED BY <1>1, <1>2, <2>2, <3>1, ProtocolAssumption DEF StepIndex
    <2>3. QED BY <2>1, <2>2, Zenon
<1>4. validate_profile(m, S)
    BY <1>1, <1>3, Zenon DEF validate_profile
<1>5. QED BY <1>1, <1>4, Zenon DEF encodes_profile

\* ... and its fragments are those of the frames.
LEMMA CompleteFrames ==
    ASSUME NEW K, OneScan(K), \A g \in K : Fragment(g), NEW g \in K,
           is_transport_complete(finish(K)), NEW S, S = NodeSteps(finish(K)),
           NEW frames, frames = encode_profile(g.identity, g.meta, S)
    PROVE  K = {from_view(frames[i]) : i \in DOMAIN frames}
<1> DEFINE m == g.meta
           count == profile_fragment_count(m.expected_step_count)
<1>1. validate_profile(m, S)
    BY CompleteEncodes DEF encodes_profile
<1>2. /\ DOMAIN frames = 0 .. count - 1
      /\ \A i \in DOMAIN frames : frames[i] = EncodedFrame(g.identity, m, S, i)
    BY <1>1, EncodedProfile
<1>3. m.expected_step_count \in Nat \ {0}
    BY <1>1, ProtocolAssumption DEF validate_profile
<1>4. ASSUME NEW h \in K
      PROVE  h.fragment_index \in DOMAIN frames /\ h = from_view(frames[h.fragment_index])
    <2> DEFINE i == h.fragment_index
               f == frames[i]
    <2>1. h.identity = g.identity /\ h.meta = m /\ h.expected_fragment_count = count
        BY DEF OneScan, GoodView
    <2>2. i \in 0 .. count - 1 /\ i \in Nat
        BY <2>1 DEF OneScan, GoodView
    <2>3. f = EncodedFrame(g.identity, m, S, i)
        BY <1>2, <2>2
    <2>4. /\ f.header.common = g.identity /\ f.payload.meta = m
          /\ f.header.fragment_count = count /\ f.header.fragment_index = i
          /\ f.payload.steps = FragmentSteps(i, m, S)
        <3> HIDE DEF f
        <3>1. QED BY <1>3, <2>2, <2>3, EncodedFrameFields
    <2>5. h.steps = FragmentSteps(i, m, S)
        BY <2>1, FragmentOfRecord
    <2>6. h = [identity |-> h.identity, meta |-> h.meta,
               expected_fragment_count |-> h.expected_fragment_count,
               fragment_index |-> h.fragment_index, steps |-> h.steps]
        BY DEF Fragment
    <2> HIDE DEF f, count, m
    <2>7. from_view(f) = [identity |-> f.header.common, meta |-> f.payload.meta,
                          expected_fragment_count |-> f.header.fragment_count,
                          fragment_index |-> f.header.fragment_index, steps |-> f.payload.steps]
        BY Zenon DEF from_view
    <2>8. h = from_view(f)
        BY <2>1, <2>4, <2>5, <2>6, <2>7, Zenon
    <2>9. QED BY <1>2, <2>2, <2>8 DEF f
<1>5. ASSUME NEW i \in DOMAIN frames
      PROVE  \E h \in K : h.fragment_index = i
    <2>1. finish(K).received_fragments = {h.fragment_index : h \in K}
          /\ finish(K).expected_fragment_count = g.expected_fragment_count
        BY FinishFacts
    <2>2. g.expected_fragment_count = count
        BY DEF OneScan, GoodView
    <2>3. i \in finish(K).received_fragments
        BY <1>2, <2>1, <2>2 DEF is_transport_complete
    <2>4. QED BY <2>1, <2>3
<1>6. QED BY <1>4, <1>5

\* When all fragments have arrived, the record is a scan a node could have sent, and the fragments
\* are its frames, however they were altered, lost or repeated on the way (v2.rs, reassembly.rs):
\* the decoder's checks of single fragments are all that the scan needs.
THEOREM CompleteScansAreScans == Spec => []CompleteScansEncode
<1>1. WireInv => CompleteScansEncode
    <2> SUFFICES ASSUME WireInv, IsScan, is_transport_complete(finish(kept))
                 PROVE  LET scan == finish(kept)
                            steps == NodeSteps(scan)
                        IN /\ encodes_profile(scan.identity, scan.meta, steps)
                           /\ LET frames == encode_profile(scan.identity, scan.meta, steps)
                              IN kept = {from_view(frames[i]) : i \in DOMAIN frames}
        BY DEF CompleteScansEncode
    <2> DEFINE S == NodeSteps(finish(kept))
    <2>1. OneScan(kept) /\ \A g \in kept : Fragment(g)
        BY DEF WireInv, KeptInv, KeptOf, IsScan
    <2>2. PICK g \in kept : TRUE
        BY DEF IsScan
    <2>3. finish(kept).identity = g.identity /\ finish(kept).meta = g.meta
        BY <2>1, FinishFacts
    <2>4. encodes_profile(g.identity, g.meta, S)
        BY <2>1, CompleteEncodes
    <2> DEFINE frames == encode_profile(g.identity, g.meta, S)
    <2>5. kept = {from_view(frames[i]) : i \in DOMAIN frames}
        <3> HIDE DEF frames
        <3>1. frames = encode_profile(g.identity, g.meta, S)
            BY DEF frames
        <3>2. QED BY <2>1, <3>1, CompleteFrames
    <2>6. QED BY <2>3, <2>4, <2>5
<1>2. QED BY <1>1, WireInvariant, PTL

-----------------------------------------------------------------------------
(***************************************************************************)
(* Without alteration.                                                     *)
(***************************************************************************)
\* Fragments of a scan that were sent: its identity, its metadata and its steps.
LEMMA SentFragments ==
    ASSUME WireInv, altered = 0, record.kind = "scan", NEW g \in kept
    PROVE  /\ encodes_profile(record.common, record.meta, record.steps)
           /\ g.identity = record.common /\ g.meta = record.meta
           /\ \A k \in DOMAIN g.steps : g.steps[k] = record.steps[g.steps[k].step_index]
<1> DEFINE m == record.meta
           steps == record.steps
<1>1. PICK j \in DOMAIN sent : g = Made(sent[j], record.kind)
    BY DEF WireInv, KeptInv, FromNode
<1>2. record \in Records /\ sent = Encode(record)
    BY DEF WireInv, AirInv
<1>3. /\ encodes_profile(record.common, m, steps)
      /\ sent = encode_profile(record.common, m, steps)
    BY <1>1, <1>2, SentFrames
<1>4. validate_profile(m, steps)
    BY <1>3 DEF encodes_profile
<1>5. /\ sent[j] = EncodedFrame(record.common, m, steps, j)
      /\ j \in 0 .. profile_fragment_count(m.expected_step_count) - 1
    <2> DEFINE E == encode_profile(record.common, m, steps)
    <2>1. /\ DOMAIN E = 0 .. profile_fragment_count(m.expected_step_count) - 1
          /\ \A i \in DOMAIN E : E[i] = EncodedFrame(record.common, m, steps, i)
        BY <1>4, EncodedProfile
    <2> HIDE DEF m, steps
    <2>2. j \in DOMAIN sent /\ sent = E
        BY <1>1, <1>3
    <2> HIDE DEF E
    <2>3. QED BY <2>1, <2>2
<1>6. m.expected_step_count \in Nat \ {0} /\ m.expected_step_count \in 1 .. MaxSteps /\ j \in Nat
    BY <1>4, <1>5, ProtocolAssumption DEF validate_profile
<1> DEFINE f == sent[j]
<1>7. /\ f.header.common = record.common /\ f.payload.meta = m
      /\ f.payload.steps = FragmentSteps(j, m, steps)
    <2> HIDE DEF f
    <2>1. f = EncodedFrame(record.common, m, steps, j)
        BY <1>5 DEF f
    <2>2. QED BY <1>6, <2>1, EncodedFrameFields
<1>8. g.identity = record.common /\ g.meta = m /\ g.steps = FragmentSteps(j, m, steps)
    BY <1>1, <1>7 DEF Made, from_view
<1>9. \A k \in DOMAIN g.steps : g.steps[k] = steps[RequiredSteps(j, m)[k]]
    BY <1>8 DEF FragmentSteps
<1>10. DOMAIN g.steps = 1 .. Cardinality(Required(j, m))
    BY <1>8 DEF FragmentSteps
<1>11. \A k \in DOMAIN g.steps : /\ RequiredSteps(j, m)[k] \in 0 .. m.expected_step_count - 1
                                 /\ RequiredSteps(j, m)[k] \notin m.missing_steps
    <2> HIDE DEF m, steps
    <2>1. /\ \A k \in 1 .. Cardinality(Required(j, m)) : RequiredSteps(j, m)[k] \in Required(j, m)
          /\ \A s : s \in Required(j, m) <=> /\ s \in 0 .. m.expected_step_count - 1 /\ s \div 3 = j
                                             /\ s \notin m.missing_steps
        BY <1>6, RequiredFacts
    <2>2. QED BY <1>10, <2>1
<1>12. \A s \in 0 .. m.expected_step_count - 1 : s \notin m.missing_steps => steps[s].step_index = s
    BY <1>4, <1>6, ProtocolAssumption DEF validate_profile, StepIndex
<1> HIDE DEF m, steps
<1>13. \A k \in DOMAIN g.steps : g.steps[k] = steps[g.steps[k].step_index]
    BY <1>9, <1>11, <1>12
<1>14. QED BY <1>3, <1>8, <1>13 DEF m, steps

\* The steps of the record of such a scan are those of the scan.
LEMMA SentRecord ==
    ASSUME WireInv, altered = 0, IsScan, NEW S, S = NodeSteps(finish(kept))
    PROVE  /\ finish(kept).identity = record.common /\ finish(kept).meta = record.meta
           /\ \A s \in StepsOf(finish(kept)) : S[s] = record.steps[s]
           /\ is_transport_complete(finish(kept)) => S = record.steps
<1> DEFINE K == kept
           scan == finish(K)
<1>1. OneScan(K) /\ record.kind = "scan" /\ K # {}
    BY DEF WireInv, KeptInv, KeptOf, IsScan
<1>2. PICK g \in K : TRUE
    BY <1>1
<1>3. /\ encodes_profile(record.common, record.meta, record.steps)
      /\ g.identity = record.common /\ g.meta = record.meta
    BY <1>1, SentFragments
<1>4. scan.identity = record.common /\ scan.meta = record.meta
    BY <1>1, <1>3, FinishFacts
<1>5. \A x \in DOMAIN scan.steps : scan.steps[x] = record.steps[scan.steps[x].step_index]
    <2> SUFFICES ASSUME NEW x \in DOMAIN scan.steps
                 PROVE  scan.steps[x] = record.steps[scan.steps[x].step_index]
        OBVIOUS
    <2>1. PICK h \in K : \E k \in DOMAIN h.steps : x = <<h.fragment_index, k>>
        BY <1>1, FinishFacts
    <2>2. PICK k \in DOMAIN h.steps : x = <<h.fragment_index, k>>
        BY <2>1
    <2>3. scan.steps[x] = h.steps[k]
        BY <1>1, <2>2, FinishFacts
    <2>4. h.steps[k] = record.steps[h.steps[k].step_index]
        BY <1>1, SentFragments
    <2>5. QED BY <2>3, <2>4, Zenon
<1>6. /\ S = [s \in StepIndex |-> S[s]]
      /\ \A s \in StepsOf(scan) : s \in StepIndex
      /\ \A s \in StepIndex : s \notin StepsOf(scan) => S[s] = None
      /\ \A x \in DOMAIN scan.steps : S[scan.steps[x].step_index] = scan.steps[x]
    BY <1>1, <1>2, ScanOfRecord
<1> HIDE DEF scan
<1>7. \A s \in StepsOf(scan) : S[s] = record.steps[s]
    <2> SUFFICES ASSUME NEW s \in StepsOf(scan) PROVE S[s] = record.steps[s]
        OBVIOUS
    <2>1. PICK x \in DOMAIN scan.steps : scan.steps[x].step_index = s
        BY DEF StepsOf
    <2>2. S[s] = scan.steps[x] /\ scan.steps[x] = record.steps[s]
        BY <1>5, <1>6, <2>1
    <2>3. QED BY <2>2
<1>8. ASSUME is_transport_complete(scan) PROVE S = record.steps
    <2> DEFINE m == record.meta
    <2>1. \A s : s \in StepsOf(scan) <=> s \in 0 .. m.expected_step_count - 1 /\ s \notin m.missing_steps
        BY <1>1, <1>2, <1>3, <1>8, RecordValid DEF scan
    <2>2. /\ m.expected_step_count \in 1 .. MaxSteps
          /\ \A s \in StepIndex : ~ (s < m.expected_step_count /\ s \notin m.missing_steps) =>
                record.steps[s] = None
        BY <1>3 DEF encodes_profile, validate_profile
    <2>3. record.steps = [s \in StepIndex |-> record.steps[s]]
        <3>1. NodeRecord(record)
            BY RecordsAssumption DEF WireInv, AirInv
        <3>2. record.steps \in [StepIndex -> ProfileStep \cup {None}]
            BY <1>1, <3>1 DEF NodeRecord
        <3>3. QED BY <3>2
    <2> HIDE DEF m
    <2>4. ASSUME NEW s \in StepIndex PROVE S[s] = record.steps[s]
        <3>1. CASE s \in StepsOf(scan)
            BY <1>7, <3>1
        <3>2. CASE s \notin StepsOf(scan)
            <4>1. ~ (s < m.expected_step_count /\ s \notin m.missing_steps)
                BY <2>1, <2>2, <3>2, ProtocolAssumption DEF StepIndex
            <4>2. record.steps[s] = None
                BY <2>2, <4>1
            <4>3. QED BY <1>6, <3>2, <4>2
        <3>3. QED BY <3>1, <3>2
    <2>5. [s \in StepIndex |-> S[s]] = [s \in StepIndex |-> record.steps[s]]
        BY <2>4
    <2>6. QED BY <1>6, <2>3, <2>5, Zenon
<1>9. QED BY <1>4, <1>7, <1>8, Zenon DEF scan

\* Without alteration the receiver ends up with the record of the node, whatever is lost or repeated
\* (v2.rs, reassembly.rs, records.rs): nothing a node sends is moved, merged or dropped on the way.
THEOREM UnalteredRecordsArrive == Spec => []FaithfulWhenUnaltered
<1>1. WireInv => FaithfulWhenUnaltered
    <2> SUFFICES ASSUME WireInv, altered = 0
                 PROVE  /\ IsScan =>
                              LET scan == finish(kept)
                              IN /\ scan.identity = record.common /\ scan.meta = record.meta
                                 /\ \A s \in StepsOf(scan) : NodeSteps(scan)[s] = record.steps[s]
                                 /\ is_transport_complete(scan) => NodeSteps(scan) = record.steps
                        /\ record.kind = "health" => \A r \in kept : r.health = record.health
                        /\ record.kind = "config" =>
                              \A r \in kept :
                                 /\ r.identity.config_id = fnv1a64(write_config_payload(record.config))
                                 /\ r.config.steps = write_config_payload(record.config).steps
                                 /\ record.repeated => r.repeated
        BY Zenon DEF FaithfulWhenUnaltered
    <2>1. record \in Records /\ sent = Encode(record) /\ NodeRecord(record)
        BY RecordsAssumption DEF WireInv, AirInv
    <2>2. ASSUME NEW r \in kept
          PROVE  \E i \in DOMAIN sent : r = Made(sent[i], record.kind)
        BY DEF WireInv, KeptInv, FromNode
    <2>3. ASSUME record.kind = "health", NEW r \in kept PROVE r.health = record.health
        <3>1. PICK i \in DOMAIN sent : r = Made(sent[i], record.kind)
            BY <2>2
        <3>2. /\ encodes_device_health(record.common, record.health)
              /\ sent[i] = encode_device_health(record.common, record.health)
            BY <2>1, <2>3, SentFrames
        <3>3. record.common \in Common /\ record.health \in HealthRecord
            BY <2>1, <2>3 DEF NodeRecord
        <3>4. HealthOf(sent[i].payload) = record.health
            BY <3>2, <3>3, HealthFrameSound
        <3>5. r = device_health(sent[i])
            BY <2>3, <3>1 DEF Made
        <3>6. QED BY <3>4, <3>5 DEF device_health
    <2>4. ASSUME record.kind = "config", NEW r \in kept
          PROVE  /\ r.identity.config_id = fnv1a64(write_config_payload(record.config))
                 /\ r.config.steps = write_config_payload(record.config).steps
                 /\ record.repeated => r.repeated
        <3>1. PICK i \in DOMAIN sent : r = Made(sent[i], record.kind)
            BY <2>2
        <3>2. /\ encodes_device_config(record.common, record.config)
              /\ sent[i] = encode_device_config(record.common, record.config, record.repeated)
            BY <2>1, <2>4, SentFrames
        <3>3. /\ record.common \in Common /\ record.config \in ConfigRecord
              /\ record.repeated \in BOOLEAN
            BY <2>1, <2>4 DEF NodeRecord
        <3> DEFINE f == sent[i]
                   p == write_config_payload(record.config)
        <3>4. /\ f.payload = p /\ AirConfig(f.payload)
              /\ f.header.common.config_id = fnv1a64(f.payload)
              /\ record.repeated => "config_repeat" \in f.header.common.flags
            BY <3>2, <3>3, ConfigFrameSound
        <3>5. ConfigOf(p) = record.config
            BY <3>2, <3>3, ConfigReads DEF encodes_device_config
        <3>6. r = device_configuration(f)
            BY <2>4, <3>1 DEF Made
        <3>7. /\ r.identity = f.header.common
              /\ r.repeated = ("config_repeat" \in f.header.common.flags)
              /\ r.config.steps =
                    [k \in 1 .. ConfigOf(f.payload).expected_step_count |-> ConfigOf(f.payload).steps[k - 1]]
            BY <3>4, <3>6, RecordOfConfig
        <3>8. p.steps = [k \in 1 .. record.config.expected_step_count |-> record.config.steps[k - 1]]
            BY DEF write_config_payload
        <3> HIDE DEF f, p
        <3>9. r.config.steps = p.steps
            BY <3>4, <3>5, <3>7, <3>8, Zenon
        <3>10. r.identity.config_id = fnv1a64(p)
            BY <3>4, <3>7, Zenon
        <3>11. record.repeated => r.repeated
            BY <3>4, <3>7, Zenon
        <3>12. QED BY <3>9, <3>10, <3>11, Zenon DEF p
    <2>5. IsScan => LET scan == finish(kept)
                    IN /\ scan.identity = record.common /\ scan.meta = record.meta
                       /\ \A s \in StepsOf(scan) : NodeSteps(scan)[s] = record.steps[s]
                       /\ is_transport_complete(scan) => NodeSteps(scan) = record.steps
        BY SentRecord
    <2>6. QED BY <2>3, <2>4, <2>5, Zenon
<1>2. QED BY <1>1, WireInvariant, PTL

-----------------------------------------------------------------------------
(***************************************************************************)
(* TemporalFeatures.                                                       *)
(***************************************************************************)
\* The fields of a sample.
LEMMA SampleFields ==
    ASSUME NEW s \in Sample
    PROVE  /\ s # Missing
           /\ s.series \in Profile \cup Legacy
           /\ s.scan \in 0 .. MaxScan
           /\ s.sequence = SequenceOf(s.scan)
           /\ s.time \in Nat
           /\ s.usable \in BOOLEAN /\ s.reset \in BOOLEAN
           /\ IsProfile(s) => s.time = s.scan /\ s.boot \in Boot \cup {Missing}
           /\ ~ IsProfile(s) => s.boot = Missing
  <1>1. s # Missing
    BY MissingAssumption
  <1>2. CASE s \in ProfileSample
    <2>1. PICK x \in Profile, b \in Boot \cup {Missing}, n \in 0 .. MaxScan,
               u \in BOOLEAN, r \in BOOLEAN :
             s = [series |-> x, boot |-> b, scan |-> n, sequence |-> SequenceOf(n),
                  time |-> n, usable |-> u, reset |-> r]
      BY <1>2 DEF ProfileSample
    <2>2. n \in Nat
      BY TemporalAssumption
    <2>3. QED
      BY <1>1, <2>1, <2>2 DEF IsProfile
  <1>3. CASE s \in LegacySample
    <2>1. PICK x \in Legacy, n \in 0 .. MaxScan, t \in HostTime, u \in BOOLEAN :
             s = [series |-> x, boot |-> Missing, scan |-> n, sequence |-> SequenceOf(n),
                  time |-> t, usable |-> u, reset |-> FALSE]
      BY <1>3 DEF LegacySample
    <2>2. t \in Nat /\ x \notin Profile
      BY TemporalAssumption
    <2>3. QED
      BY <1>1, <2>1, <2>2 DEF IsProfile
  <1>4. QED
    BY <1>2, <1>3 DEF Sample

\* A sample's history key is a key of the table, or Missing.
LEMMA KeyType ==
    ASSUME NEW s \in Sample
    PROVE  history_key(s) \in HistoryKey \cup {Missing}
  <1>1. s.series \in Profile \/ (s.series \in Legacy /\ s.series \notin Profile)
    BY SampleFields
  <1>2. QED
    BY <1>1, SampleFields DEF history_key, HistoryKey, IsProfile

\* Two samples with one history key are of one series and one boot, which is known
\* for a v2 sample.
LEMMA SameKey ==
    ASSUME NEW s \in Sample, NEW p \in Sample,
           history_key(s) = history_key(p), history_key(s) # Missing
    PROVE  /\ s.series = p.series /\ s.boot = p.boot
           /\ IsProfile(s) => s.boot # Missing
  <1>1. history_key(s) = <<s.series, s.boot>> /\ history_key(p) = <<p.series, p.boot>>
    BY DEF history_key
  <1>2. QED
    BY <1>1 DEF history_key

\* Within one boot the next sequence number belongs to the next scan.
LEMMA Adjacent ==
    ASSUME NEW i \in 0 .. MaxScan, NEW j \in 0 .. MaxScan, i < j,
           SequenceOf(j) = wrapping_add_one(SequenceOf(i))
    PROVE  j = i + 1
  BY TemporalAssumption DEF SequenceOf, wrapping_add_one

\* What the extractor holds for a sample's key.
LEMMA PriorType ==
    ASSUME TemporalTypeOK, NEW s \in Sample, PriorOf(s) # Missing
    PROVE  /\ PriorOf(s) \in Sample
           /\ PriorOf(s).usable
           /\ history_key(s) \in HistoryKey
           /\ history_key(s) # Missing
           /\ history_key(PriorOf(s)) = history_key(s)
  <1>1. history_key(s) # Missing /\ PriorOf(s) = previous[history_key(s)]
    BY DEF PriorOf
  <1>2. history_key(s) \in HistoryKey
    BY <1>1, KeyType
  <1>3. QED
    BY <1>1, <1>2 DEF TemporalTypeOK

\* The prior that is left after the resets, if any, is the one that was there.
LEMMA KeptCases ==
    ASSUME NEW s
    PROVE  Kept(s) = Missing \/ (Kept(s) = PriorOf(s) /\ ~ Reset(s))
  BY DEF Kept

\* An extractor without history is type correct.
LEMMA ExtractorTypeInit == TemporalInit => TemporalTypeOK
  BY MissingAssumption DEF TemporalInit, TemporalTypeOK

\* Every sample keeps the types.
LEMMA ExtractorTypeStep == TemporalTypeOK /\ [TemporalNext]_TemporalVars => TemporalTypeOK'
  <1> SUFFICES ASSUME TemporalTypeOK, [TemporalNext]_TemporalVars
               PROVE  TemporalTypeOK'
    OBVIOUS
  <1>1. CASE UNCHANGED TemporalVars
    BY <1>1 DEF TemporalTypeOK, TemporalVars
  <1>2. ASSUME NEW s \in Sample, ingest(s)
        PROVE  TemporalTypeOK'
    <2>1. Kept(s) \in Sample \cup {Missing} /\ UsablePrevious(s) \in Sample \cup {Missing}
      BY PriorType, KeptCases DEF UsablePrevious
    <2>2. Reset(s) \in BOOLEAN
      BY SampleFields DEF Reset, explicit_reset, sequence_gap_reset
    <2>3. features' \in Features
      BY <1>2, <2>1, <2>2 DEF ingest, Features
    <2>4. CASE history_key(s) = Missing
      BY <1>2, <2>3, <2>4 DEF TemporalTypeOK, ingest
    <2>5. CASE history_key(s) # Missing
      <3> DEFINE new == IF Stored(s) THEN s ELSE Kept(s)
      <3>1. history_key(s) \in HistoryKey
        BY <2>5, KeyType
      <3>2. new \in Sample \cup {Missing}
        BY <2>1
      <3>3. new # Missing => new.usable /\ history_key(new) = history_key(s)
        BY PriorType, KeptCases DEF Stored
      <3> HIDE DEF new
      <3>4. previous' = [previous EXCEPT ![history_key(s)] = new]
        BY <1>2, <2>5 DEF ingest, new
      <3>5. previous' \in [HistoryKey -> Sample \cup {Missing}]
        BY <3>2, <3>4 DEF TemporalTypeOK
      <3>6. ASSUME NEW k \in HistoryKey, previous'[k] # Missing
            PROVE  previous'[k].usable /\ history_key(previous'[k]) = k
        BY <3>1, <3>3, <3>4, <3>6 DEF TemporalTypeOK
      <3>7. QED
        BY <2>3, <3>5, <3>6 DEF TemporalTypeOK
    <2>6. QED
      BY <2>4, <2>5
  <1>3. QED
    BY <1>1, <1>2 DEF TemporalNext

\* The extractor keeps its types, and only good samples of their own key.
THEOREM ExtractorTypeCorrect == TemporalSpec => []TemporalTypeOK
  BY ExtractorTypeInit, ExtractorTypeStep, PTL DEF TemporalSpec

\* Every rate is computed from good samples of consecutive scans of one boot.
THEOREM RatesAreSound == TemporalSpec => []RatesSound
  <1>1. TemporalInit => RatesSound
    BY DEF TemporalInit, RatesSound
  <1>2. TemporalTypeOK /\ RatesSound /\ [TemporalNext]_TemporalVars => RatesSound'
    <2> SUFFICES ASSUME TemporalTypeOK, RatesSound, [TemporalNext]_TemporalVars
                 PROVE  RatesSound'
      OBVIOUS
    <2>1. CASE UNCHANGED TemporalVars
      BY <2>1 DEF RatesSound, TemporalVars
    <2>2. ASSUME NEW s \in Sample, ingest(s)
          PROVE  RatesSound'
      <3> DEFINE p == UsablePrevious(s)
      <3>1. features'.sample = s /\ features'.prior = p
        BY <2>2 DEF ingest
      <3>2. SUFFICES ASSUME p # Missing
                     PROVE  /\ s.usable /\ p.usable
                            /\ s.series = p.series /\ s.boot = p.boot
                            /\ p.time < s.time
                            /\ IsProfile(s) => s.boot # Missing /\ s.scan = p.scan + 1 /\ ~ s.reset
        BY <3>1 DEF RatesSound
      <3>3. /\ p = Kept(s) /\ Kept(s) # Missing
            /\ s.usable /\ p.usable /\ Newer(s, p)
        BY <3>2 DEF UsablePrevious
      <3>4. p = PriorOf(s) /\ ~ Reset(s)
        BY <3>3, KeptCases
      <3> HIDE DEF p
      <3>5. /\ p \in Sample
            /\ history_key(s) # Missing
            /\ history_key(p) = history_key(s)
        BY <3>2, <3>4, PriorType
      <3>6. /\ s.series = p.series /\ s.boot = p.boot
            /\ IsProfile(s) => s.boot # Missing
        BY <3>5, SameKey
      <3>7. ASSUME IsProfile(s)
            PROVE  s.scan = p.scan + 1 /\ ~ s.reset
        <4>1. ~ s.reset
          BY <3>3, <3>4 DEF Reset, explicit_reset
        <4>2. s.sequence = wrapping_add_one(p.sequence)
          BY <3>2, <3>3, <3>4, <3>7 DEF Reset, sequence_gap_reset
        <4>3. IsProfile(p)
          BY <3>6, <3>7 DEF IsProfile
        <4>4. /\ s.scan \in 0 .. MaxScan /\ p.scan \in 0 .. MaxScan
              /\ p.scan < s.scan
              /\ SequenceOf(s.scan) = wrapping_add_one(SequenceOf(p.scan))
          BY <3>3, <3>5, <3>7, <4>2, <4>3, SampleFields DEF Newer
        <4>5. QED
          BY <4>1, <4>4, Adjacent
      <3>8. QED
        BY <3>3, <3>6, <3>7 DEF Newer
    <2>3. QED
      BY <2>1, <2>2 DEF TemporalNext
  <1>3. QED
    BY <1>1, <1>2, ExtractorTypeCorrect, PTL DEF TemporalSpec

\* A late or repeated sample leaves the history alone.
THEOREM HistoryOnlyAdvances == TemporalSpec => HistoryAdvances
  <1>1. ASSUME TemporalTypeOK, [TemporalNext]_TemporalVars, ~ UNCHANGED TemporalVars
        PROVE  \A k \in HistoryKey : previous[k] # Missing /\ previous'[k] # previous[k] =>
                  Newer(features'.sample, previous[k])
    <2>1. PICK s \in Sample : ingest(s)
      BY <1>1 DEF TemporalNext
    <2>2. SUFFICES ASSUME NEW k \in HistoryKey, previous[k] # Missing, previous'[k] # previous[k]
                   PROVE  Newer(s, previous[k])
      BY <2>1 DEF ingest
    <2>3. history_key(s) = k /\ PriorOf(s) = previous[k] /\ k # Missing
      BY <1>1, <2>1, <2>2, MissingAssumption DEF ingest, TemporalTypeOK, PriorOf
    <2>4. previous'[k] = IF Stored(s) THEN s ELSE Kept(s)
      BY <1>1, <2>1, <2>3 DEF ingest, TemporalTypeOK
    <2>5. CASE Reset(s)
      BY <2>2, <2>3, <2>5 DEF Reset, explicit_reset, sequence_gap_reset
    <2>6. CASE ~ Reset(s)
      BY <2>2, <2>3, <2>4, <2>6 DEF Kept, Stored
    <2>7. QED
      BY <2>5, <2>6
  <1>2. QED
    BY <1>1, ExtractorTypeCorrect, PTL DEF TemporalSpec, HistoryAdvances

\* A good sample always leaves its series with a baseline at least as new.
THEOREM BaselineIsFresh == TemporalSpec => []BaselineFresh
  <1>1. TemporalInit => BaselineFresh
    BY DEF TemporalInit, BaselineFresh
  <1>2. TemporalTypeOK /\ BaselineFresh /\ [TemporalNext]_TemporalVars => BaselineFresh'
    <2> SUFFICES ASSUME TemporalTypeOK, BaselineFresh, [TemporalNext]_TemporalVars
                 PROVE  BaselineFresh'
      OBVIOUS
    <2>1. CASE UNCHANGED TemporalVars
      BY <2>1 DEF BaselineFresh, TemporalVars
    <2>2. ASSUME NEW s \in Sample, ingest(s)
          PROVE  BaselineFresh'
      <3>1. features'.sample = s
        BY <2>2 DEF ingest
      <3>2. SUFFICES ASSUME s.usable, history_key(s) # Missing
                     PROVE  /\ previous'[history_key(s)] # Missing
                            /\ ~ Newer(s, previous'[history_key(s)])
        BY <3>1 DEF BaselineFresh
      <3>3. previous'[history_key(s)] = IF Stored(s) THEN s ELSE Kept(s)
        BY <2>2, <3>2, KeyType DEF ingest, TemporalTypeOK
      <3>4. CASE Stored(s)
        BY <3>3, <3>4, SampleFields DEF Newer
      <3>5. CASE ~ Stored(s)
        BY <3>2, <3>3, <3>5 DEF Stored
      <3>6. QED
        BY <3>4, <3>5
    <2>3. QED
      BY <2>1, <2>2 DEF TemporalNext
  <1>3. QED
    BY <1>1, <1>2, ExtractorTypeCorrect, PTL DEF TemporalSpec

=============================================================================
