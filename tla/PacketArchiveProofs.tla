------------------------- MODULE PacketArchiveProofs -------------------------
(***************************************************************************)
(* Proofs about PacketArchive, for any payloads, any --count and any       *)
(* number of packets and of runs that end with an error.                   *)
(***************************************************************************)
EXTENDS PacketArchive, SequenceTheorems, TLAPS

Statement == {"packet", "reading", "decode", "record", "steps"}

Row == [payload : Payload, disposition : {"v1", "v2", "unsupported", "invalid"},
        parts : SUBSET Statement]

\* A row as its payload demands.
Whole(row) ==
    /\ row.disposition = disposition(row.payload)
    /\ row.parts = Parts(row.payload)

\* The archive, the number of packets and of failed runs, and where the process is.
TypesOK ==
    /\ rows \in Seq(Row)
    /\ taken \in Nat
    /\ exits \in Nat
    /\ phase \in {"down", "top", "poll", "store", "print", "stopped"}

\* Committed rows are whole.
Archive == \A n \in 1 .. Len(rows) : Whole(rows[n])

\* Within the transaction: the packet's row is written first, and what is written and what is left
\* to do are together what belongs to the packet.
Transaction ==
    phase = "store" =>
        /\ packet \in Payload
        /\ todo \in Seq(Statement)
        /\ \/ todo = statements(packet)
           \/ /\ tx \in Row
              /\ tx.payload = packet
              /\ tx.disposition = disposition(packet)
              /\ tx.parts \cup Range(todo) = Parts(packet)
              /\ "packet" \notin Range(todo)

\* The packet about to be printed is the last row.
LastRow ==
    phase = "print" =>
        /\ packet \in Payload
        /\ Len(rows) > 0
        /\ rows[Len(rows)].payload = packet

\* The inductive invariant.
IInv == TypesOK /\ Archive /\ Transaction /\ LastRow /\ PrintedIsStored /\ LossBounded

-----------------------------------------------------------------------------
\* Every payload takes one of nine ways through decode_any.
LEMMA Decoded ==
    ASSUME NEW b \in Payload
    PROVE  decode_any(b) \in
              {"TruncatedDiscriminator", "InvalidMagic", "V1", "V1Error", "config", "health",
               "fragment", "V2Error", "UnsupportedVersion"}
  <1>1. /\ b.length \in Nat /\ b.magic \in BOOLEAN /\ b.version \in Nat /\ b.valid \in BOOLEAN
        /\ b.frame_type \in {"config", "health", "fragment"}
    BY ArchiveAssumption
  <1>2. QED
    BY <1>1 DEF decode_any

\* The packet's row is the first statement, and the others are what must refer to it.
LEMMA Statements ==
    ASSUME NEW b \in Payload
    PROVE  /\ statements(b) \in Seq(Statement)
           /\ statements(b) # <<>>
           /\ Head(statements(b)) = "packet"
           /\ Range(Tail(statements(b))) = Parts(b)
           /\ "packet" \notin Parts(b)
           /\ Parts(b) \subseteq Statement
  <1>1. CASE decode_any(b) = "V1"
    <2>1. statements(b) = <<"packet", "reading">>
      BY <1>1 DEF statements
    <2>2. Tail(statements(b)) = <<"reading">>
      BY <2>1
    <2>3. Range(statements(b)) = {"packet", "reading"} /\ Range(<<"reading">>) = {"reading"}
      BY <2>1 DEF Range
    <2>4. QED
      BY <2>1, <2>2, <2>3 DEF Parts, Statement
  <1>2. CASE decode_any(b) = "config"
    <2>1. statements(b) = <<"packet", "decode", "record", "steps">>
      BY <1>2 DEF statements
    <2>2. Tail(statements(b)) = <<"decode", "record", "steps">>
      BY <2>1
    <2>3. /\ Range(statements(b)) = {"packet", "decode", "record", "steps"}
          /\ Range(<<"decode", "record", "steps">>) = {"decode", "record", "steps"}
      BY <2>1 DEF Range
    <2>4. QED
      BY <2>1, <2>2, <2>3 DEF Parts, Statement
  <1>3. CASE decode_any(b) = "health"
    <2>1. statements(b) = <<"packet", "decode", "record">>
      BY <1>3 DEF statements
    <2>2. Tail(statements(b)) = <<"decode", "record">>
      BY <2>1
    <2>3. /\ Range(statements(b)) = {"packet", "decode", "record"}
          /\ Range(<<"decode", "record">>) = {"decode", "record"}
      BY <2>1 DEF Range
    <2>4. QED
      BY <2>1, <2>2, <2>3 DEF Parts, Statement
  <1>4. CASE decode_any(b) = "fragment"
    <2>1. statements(b) = <<"packet", "decode">>
      BY <1>4 DEF statements
    <2>2. Tail(statements(b)) = <<"decode">>
      BY <2>1
    <2>3. Range(statements(b)) = {"packet", "decode"} /\ Range(<<"decode">>) = {"decode"}
      BY <2>1 DEF Range
    <2>4. QED
      BY <2>1, <2>2, <2>3 DEF Parts, Statement
  <1>5. CASE decode_any(b) \notin {"V1", "config", "health", "fragment"}
    <2>1. statements(b) = <<"packet">>
      BY <1>5 DEF statements
    <2>2. Tail(statements(b)) = <<>>
      BY <2>1
    <2>3. Range(statements(b)) = {"packet"} /\ Range(<<>>) = {}
      BY <2>1 DEF Range
    <2>4. QED
      BY <2>1, <2>2, <2>3 DEF Parts, Statement
  <1>6. QED
    BY <1>1, <1>2, <1>3, <1>4, <1>5

\* The disposition tells which rows refer to a packet.
LEMMA Dispositions ==
    ASSUME NEW b \in Payload
    PROVE  /\ disposition(b) \in {"v1", "v2", "unsupported", "invalid"}
           /\ disposition(b) = "v1" <=> "reading" \in Parts(b)
           /\ disposition(b) = "v2" <=> "decode" \in Parts(b)
           /\ disposition(b) \in {"unsupported", "invalid"} => Parts(b) = {}
  <1>1. decode_any(b) \in {"TruncatedDiscriminator", "InvalidMagic", "V1", "V1Error", "config",
                           "health", "fragment", "V2Error", "UnsupportedVersion"}
    BY Decoded
  <1>2. /\ decode_any(b) = "V1" => Parts(b) = {"reading"}
        /\ decode_any(b) = "config" => Parts(b) = {"decode", "record", "steps"}
        /\ decode_any(b) = "health" => Parts(b) = {"decode", "record"}
        /\ decode_any(b) = "fragment" => Parts(b) = {"decode"}
        /\ decode_any(b) \notin {"V1", "config", "health", "fragment"} => Parts(b) = {}
    BY DEF Parts, statements, Range
  <1>3. QED
    BY <1>1, <1>2 DEF disposition

\* What is in a sequence is its head and what is in its tail.
LEMMA RangeHeadTail ==
    ASSUME NEW S, NEW s \in Seq(S), s # <<>>
    PROVE  /\ Head(s) \in S
           /\ Tail(s) \in Seq(S)
           /\ Range(s) = {Head(s)} \cup Range(Tail(s))
  <1>1. Len(s) \in Nat \ {0} /\ DOMAIN s = 1 .. Len(s)
    BY EmptySeq
  <1>2. /\ Tail(s) \in Seq(S) /\ Len(Tail(s)) = Len(s) - 1
        /\ \A i \in 1 .. Len(Tail(s)) : Tail(s)[i] = s[i + 1]
    BY HeadTailProperties
  <1>3. DOMAIN Tail(s) = 1 .. Len(s) - 1
    BY <1>1, <1>2
  <1>4. Head(s) = s[1]
    BY <1>1
  <1>5. ASSUME NEW x \in Range(s)
        PROVE  x \in {Head(s)} \cup Range(Tail(s))
    <2>1. PICK i \in 1 .. Len(s) : x = s[i]
      BY <1>1, <1>5 DEF Range
    <2>2. CASE i = 1
      BY <2>1, <2>2, <1>4
    <2>3. CASE i # 1
      <3>1. i - 1 \in 1 .. Len(s) - 1 /\ Tail(s)[i - 1] = x
        BY <2>1, <2>3, <1>1, <1>2
      <3>2. QED
        BY <3>1, <1>3 DEF Range
    <2>4. QED
      BY <2>2, <2>3
  <1>6. ASSUME NEW x \in Range(Tail(s))
        PROVE  x \in Range(s)
    <2>1. PICK i \in 1 .. Len(s) - 1 : x = Tail(s)[i]
      BY <1>3, <1>6 DEF Range
    <2>2. i + 1 \in 1 .. Len(s) /\ x = s[i + 1]
      BY <2>1, <1>1, <1>2
    <2>3. QED
      BY <2>2, <1>1 DEF Range
  <1>7. Head(s) \in Range(s) /\ Head(s) \in S
    BY <1>1, <1>4 DEF Range
  <1>8. QED
    BY <1>2, <1>5, <1>6, <1>7

\* Appending a row keeps the rows before it where they are.
LEMMA Appended ==
    ASSUME NEW S, NEW s \in Seq(S), NEW e \in S
    PROVE  /\ Append(s, e) \in Seq(S)
           /\ Len(Append(s, e)) = Len(s) + 1
           /\ Append(s, e)[Len(s) + 1] = e
           /\ \A n \in 1 .. Len(s) : Append(s, e)[n] = s[n]
  BY AppendProperties

-----------------------------------------------------------------------------
\* The invariant holds of an empty archive.
LEMMA InitIInv == Init => IInv
  BY DEF Init, InitRun, IInv, TypesOK, Archive, Transaction, LastRow, PrintedIsStored, LossBounded,
         InHand

\* Steps that neither touch the archive nor enter or leave a transaction or the printing.
LEMMA QuietStep ==
    ASSUME IInv, UNCHANGED <<rows, printed, taken>>,
           exits' \in Nat, exits' >= exits,
           phase' \in {"down", "top", "poll", "stopped"},
           phase = "store" => exits' = exits + 1
    PROVE  IInv'
  <1> USE DEF IInv
  <1>1. TypesOK' /\ Archive' /\ PrintedIsStored'
    BY DEF TypesOK, Archive, Whole, PrintedIsStored
  <1>2. Transaction' /\ LastRow'
    BY DEF Transaction, LastRow
  <1>3. LossBounded'
    <2>1. Len(rows) \in Nat /\ Len(rows') = Len(rows)
      BY DEF TypesOK
    <2>2. QED
      BY <2>1 DEF LossBounded, InHand, TypesOK
  <1>4. QED
    BY <1>1, <1>2, <1>3

\* poll_receive hands a packet over: the one packet that may now be lost.
LEMMA ReceiveStep ==
    ASSUME IInv, NEW b \in Payload, ReceivePacket(b)
    PROVE  IInv'
  <1> USE DEF IInv, ReceivePacket
  <1>1. TypesOK' /\ Archive' /\ PrintedIsStored' /\ LastRow'
    BY DEF TypesOK, Archive, Whole, PrintedIsStored, LastRow
  <1>2. Transaction'
    BY Statements DEF Transaction
  <1>3. LossBounded'
    <2>1. Len(rows) \in Nat /\ Len(rows') = Len(rows)
      BY DEF TypesOK
    <2>2. QED
      BY <2>1 DEF LossBounded, InHand, TypesOK
  <1>4. QED
    BY <1>1, <1>2, <1>3

\* One statement moves from what is left to what is written.
LEMMA ExecuteStep ==
    ASSUME IInv, Execute
    PROVE  IInv'
  <1> USE DEF IInv, Execute
  <1>1. TypesOK' /\ Archive' /\ PrintedIsStored' /\ LastRow'
    BY DEF TypesOK, Archive, Whole, PrintedIsStored, LastRow
  <1>2. LossBounded'
    BY DEF LossBounded, InHand
  <1>3. packet \in Payload /\ todo \in Seq(Statement) /\ todo # <<>> /\ packet' = packet
    BY DEF Transaction
  <1>4. /\ Head(todo) \in Statement /\ Tail(todo) \in Seq(Statement)
        /\ Range(todo) = {Head(todo)} \cup Range(Tail(todo))
    BY <1>3, RangeHeadTail
  <1>5. CASE todo = statements(packet)
    <2>1. /\ Head(todo) = "packet" /\ Range(Tail(todo)) = Parts(packet)
          /\ "packet" \notin Parts(packet)
      BY <1>3, <1>5, Statements
    <2>2. tx' = [payload |-> packet, disposition |-> disposition(packet), parts |-> {}]
      BY <2>1 DEF insert_packet_at
    <2>3. tx' \in Row
      BY <2>2, <1>3, Dispositions DEF Row
    <2>4. QED
      BY <1>1, <1>2, <1>3, <1>4, <2>1, <2>2, <2>3 DEF Transaction
  <1>6. CASE todo # statements(packet)
    <2>1. /\ tx \in Row /\ tx.payload = packet /\ tx.disposition = disposition(packet)
          /\ tx.parts \cup Range(todo) = Parts(packet) /\ "packet" \notin Range(todo)
      BY <1>6 DEF Transaction
    <2>2. tx' = [tx EXCEPT !.parts = @ \cup {Head(todo)}]
      BY <2>1, <1>4
    <2>3. /\ tx' \in Row /\ tx'.payload = tx.payload /\ tx'.disposition = tx.disposition
          /\ tx'.parts = tx.parts \cup {Head(todo)}
      BY <2>1, <2>2, <1>4 DEF Row
    <2>4. tx'.parts \cup Range(todo') = Parts(packet) /\ "packet" \notin Range(todo')
      BY <2>1, <2>3, <1>4
    <2>5. QED
      BY <1>1, <1>2, <1>3, <1>4, <2>1, <2>3, <2>4 DEF Transaction
  <1>7. QED
    BY <1>5, <1>6

\* The transaction has nothing left to do, so the row it adds is whole.
LEMMA CommitStep ==
    ASSUME IInv, Commit
    PROVE  IInv'
  <1> USE DEF IInv, Commit
  <1>1. packet \in Payload /\ tx \in Row /\ tx.payload = packet /\ Whole(tx)
    <2>1. packet \in Payload /\ todo # statements(packet)
      BY Statements DEF Transaction
    <2>2. Range(todo) = {}
      BY DEF Range
    <2>3. QED
      BY <2>1, <2>2 DEF Transaction, Whole
  <1>2. /\ rows' \in Seq(Row) /\ Len(rows) \in Nat /\ Len(rows') = Len(rows) + 1
        /\ rows'[Len(rows) + 1] = tx
        /\ \A n \in 1 .. Len(rows) : rows'[n] = rows[n]
    BY <1>1, Appended DEF TypesOK
  <1>3. TypesOK'
    BY <1>2 DEF TypesOK
  <1>4. Archive'
    <2>1. ASSUME NEW n \in 1 .. Len(rows')
          PROVE  Whole(rows'[n])
      <3>1. n = Len(rows) + 1 \/ n \in 1 .. Len(rows)
        BY <1>2
      <3>2. QED
        BY <3>1, <1>1, <1>2 DEF Archive
    <2>2. QED
      BY <2>1 DEF Archive, Whole
  <1>5. Transaction' /\ LastRow'
    BY <1>1, <1>2 DEF Transaction, LastRow
  <1>6. PrintedIsStored'
    <2>1. DOMAIN rows = 1 .. Len(rows) /\ DOMAIN rows' = 1 .. Len(rows')
      BY <1>2 DEF TypesOK
    <2>2. QED
      BY <2>1, <1>2 DEF PrintedIsStored
  <1>7. LossBounded'
    BY <1>2 DEF LossBounded, InHand, TypesOK
  <1>8. QED
    BY <1>3, <1>4, <1>5, <1>6, <1>7

\* Printing comes after the commit, and the row it cites is the last one.
LEMMA PrintStep ==
    ASSUME IInv, PrintAndCount
    PROVE  IInv'
  <1> USE DEF IInv, PrintAndCount
  <1>1. TypesOK' /\ Archive' /\ Transaction' /\ LastRow'
    BY DEF TypesOK, Archive, Whole, Transaction, LastRow
  <1>2. PrintedIsStored'
    <2>1. Len(rows) \in DOMAIN rows /\ rows[Len(rows)].payload = packet
      BY DEF LastRow, TypesOK
    <2>2. \A line \in printed' : line \in printed \/ line = <<Len(rows), packet>>
      OBVIOUS
    <2>3. QED
      BY <2>1, <2>2 DEF PrintedIsStored
  <1>3. LossBounded'
    BY DEF LossBounded, InHand
  <1>4. QED
    BY <1>1, <1>2, <1>3

\* Every step keeps the invariant.
LEMMA NextIInv ==
    ASSUME IInv, [Next]_vars
    PROVE  IInv'
  <1>1. CASE Start \/ LoopTop \/ ReceiveNothing
    <2>1. exits' = exits /\ phase # "store" /\ exits \in Nat
      BY <1>1 DEF Start, LoopTop, ReceiveNothing, IInv, TypesOK
    <2>2. UNCHANGED <<rows, printed, taken>> /\ phase' \in {"down", "top", "poll", "stopped"}
      BY <1>1 DEF Start, LoopTop, ReceiveNothing
    <2>3. QED
      BY <2>1, <2>2, QuietStep
  <1>2. CASE Fail \/ Rerun
    <2>1. UNCHANGED <<rows, printed, taken>> /\ phase' = "down"
      BY <1>2 DEF Fail, Rerun, NextRun
    <2>2. exits' \in Nat /\ exits' >= exits /\ (phase = "store" => exits' = exits + 1)
      BY <1>2 DEF Fail, Rerun, IInv, TypesOK
    <2>3. QED
      BY <2>1, <2>2, QuietStep
  <1>3. CASE \E b \in Payload : ReceivePacket(b)
    BY <1>3, ReceiveStep
  <1>4. CASE Execute
    BY <1>4, ExecuteStep
  <1>5. CASE Commit
    BY <1>5, CommitStep
  <1>6. CASE PrintAndCount
    BY <1>6, PrintStep
  <1>7. CASE RequestStop \/ UNCHANGED vars
    <2>1. UNCHANGED <<rows, printed, taken, exits, phase, packet, todo, tx>>
      BY <1>7 DEF RequestStop, vars
    <2>2. QED
      BY <2>1 DEF IInv, TypesOK, Archive, Whole, Transaction, LastRow, PrintedIsStored, LossBounded,
                  InHand
  <1>8. QED
    BY <1>1, <1>2, <1>3, <1>4, <1>5, <1>6, <1>7 DEF Next, Process, Poll

-----------------------------------------------------------------------------
\* The inductive invariant holds of every run of the listen loop.
THEOREM Safety == Spec => []IInv
  <1>1. QED
    BY InitIInv, NextIInv, PTL DEF Spec

\* RowsWhole: whatever statement fails and wherever the process crashes, an archived packet has the
\* disposition decode_any gives it and exactly the rows that belong to it.
THEOREM ArchiveIsWhole == Spec => []RowsWhole
  <1>1. IInv => RowsWhole
    <2> SUFFICES ASSUME IInv, NEW n \in DOMAIN rows
                 PROVE  /\ rows[n].parts = Parts(rows[n].payload)
                        /\ rows[n].disposition = "v1" <=> "reading" \in rows[n].parts
                        /\ rows[n].disposition = "v2" <=> "decode" \in rows[n].parts
                        /\ rows[n].disposition \in {"unsupported", "invalid"} => rows[n].parts = {}
      BY DEF RowsWhole
    <2>1. rows[n] \in Row /\ Whole(rows[n])
      BY DEF IInv, TypesOK, Archive
    <2>2. rows[n].payload \in Payload
      BY <2>1 DEF Row
    <2>3. QED
      BY <2>1, <2>2, Dispositions DEF Whole
  <1>2. QED
    BY <1>1, Safety, PTL

\* PrintedIsStored: store_packet prints a record after its transaction has committed, so every line
\* of the output names a row of the database with that payload, for ever.
THEOREM OutputIsStored == Spec => []PrintedIsStored
  <1>1. IInv => PrintedIsStored
    BY DEF IInv
  <1>2. QED
    BY <1>1, Safety, PTL

\* LossBounded: of the packets poll_receive returned, at most one per run that ended with an error
\* is missing from radio_packets.
THEOREM AtMostOneLostPerFailure == Spec => []LossBounded
  <1>1. IInv => LossBounded
    BY DEF IInv
  <1>2. QED
    BY <1>1, Safety, PTL

=============================================================================
