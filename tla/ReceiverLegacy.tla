--------------------------- MODULE ReceiverLegacy ---------------------------
(***************************************************************************)
(* The receiver on a database that an older receiver left behind.  That    *)
(* receiver stored a new row each time a scan left its table, so one key   *)
(* may have several incomplete rows, some beside a complete one, and the   *)
(* same fragment index more than once (the databases that the tests        *)
(* startup_coalesces_legacy_partial_rows_before_classifying_late_conflicts *)
(* and complete_plus_legacy_partial_is_coalesced_once_across_restarts      *)
(* build).  Startup has to fold them into the complete row of the key,     *)
(* once there is one.                                                      *)
(***************************************************************************)
EXTENDS Receiver

CONSTANT
    MaxLegacy       \* bound: how many packets the old receiver archived

ASSUME LegacyAssumption == MaxLegacy \in Nat \ {0} /\ 1 .. MaxLegacy \subseteq PacketId

\* Which packets share a row: rows took consecutive packets, and a row has at
\* most one packet for each index, all of one scan.
Grouping(arrivals, row_of) ==
    LET n == Cardinality(DOMAIN arrivals)
    IN /\ row_of[1] = 1
       /\ \A p \in 1 .. n - 1 : row_of[p + 1] \in {row_of[p], row_of[p] + 1}
       /\ \A p, q \in 1 .. n : p # q /\ row_of[p] = row_of[q] =>
             /\ arrivals[p].key = arrivals[q].key
             /\ arrivals[p].metadata = arrivals[q].metadata
             /\ arrivals[p].fragment_index # arrivals[q].fragment_index

LegacyRow(arrivals, row_of, id) ==
    LET members == {p \in DOMAIN arrivals : row_of[p] = id}
        first   == arrivals[Least(members)]
        At(i)   == {p \in members : arrivals[p].fragment_index = i}
    IN [id |-> id,
        key |-> first.key,
        metadata |-> first.metadata,
        fragments |-> [i \in Index |-> IF At(i) = {} THEN None ELSE Least(At(i))],
        duplicates |-> 0,
        conflicts |-> 0]

LegacyStore(arrivals, row_of) ==
    LET rows == {LegacyRow(arrivals, row_of, id) : id \in {row_of[p] : p \in DOMAIN arrivals}}
        StatusOf(p) ==
            IF \E row \in rows : p \in Linked(row) /\ TransportComplete(row)
            THEN "assembled" ELSE "incomplete"
    IN [packets |-> [p \in PacketId |->
            IF p \in DOMAIN arrivals
            THEN [fragment |-> arrivals[p], status |-> StatusOf(p)] ELSE None],
        scans |-> rows]

\* Every database of at most MaxLegacy packets in which a key has at most one
\* complete row.
LegacyInit ==
    /\ InitProcess
    /\ \E n \in 1 .. MaxLegacy :
          \E arrivals \in [1 .. n -> Delivered], row_of \in [1 .. n -> 1 .. n] :
             /\ Grouping(arrivals, row_of)
             /\ db = LegacyStore(arrivals, row_of)
    /\ \A k \in Key : Cardinality(CompleteRows(db, k)) <= 1

\* ... and with all that may happen to the receiver.
LegacySpec == LegacyInit /\ [][Next]_vars

-----------------------------------------------------------------------------
\* docs/server-analysis.md:176-178 "merges and deletes obsolete legacy incomplete rows when a
\* same-key complete scan already exists": once the receiver waits for the radio, a complete
\* row is the only row of its key, and the scan is not being assembled again.  Rows that
\* neither complete a scan nor contradict each other stay several, and it says nothing of them.
CompletedAlone ==
    Idle => \A row, other \in db.scans : TransportComplete(row) /\ row.key = other.key =>
        row = other /\ ~ contains_active(reassembler, row.key)

\* The verdicts that the rows of a key have counted, however many rows are left: what their
\* counters add up to.
CountedOf(k, verdict) ==
    LET rows         == {row \in db.scans : row.key = k}
        Numbers(row) == 1..(IF verdict = "duplicate" THEN row.duplicates ELSE row.conflicts)
    IN  Cardinality(UNION {{row} \X Numbers(row) : row \in rows})

\* docs/server-analysis.md:177-178 "preventing counter inflation across repeated restarts":
\* with one key, whose rows no others come between, every verdict is true and counted once,
\* wherever the folding was cut off.  (README, known limits, on the rows of several keys.)
CoalescedOnce ==
    Idle =>
        /\ VerdictsTrue
        /\ \A k \in Key, verdict \in {"duplicate", "conflict"} :
              /\ Cardinality(Decodable(Classified(k, verdict))) <= CountedOf(k, verdict)
              /\ CountedOf(k, verdict) <= Cardinality(Classified(k, verdict))

\* No transaction, of startup or later, removes a complete row or changes its sources, or takes
\* back a verdict that it counted.
CompletedStays ==
    [][\A row \in db.scans : TransportComplete(row) =>
          \E new \in db'.scans :
              /\ new.id = row.id /\ new.key = row.key /\ new.metadata = row.metadata
              /\ new.fragments = row.fragments
              /\ row.duplicates <= new.duplicates /\ row.conflicts <= new.conflicts]_vars

=============================================================================
