---------------------------- MODULE PacketArchive ----------------------------
(***************************************************************************)
(* The listen loop of main.rs around every kind of packet: decode_any      *)
(* selects the codec, store_packet archives the packet with its record     *)
(* statement by statement in one transaction of database.rs, prints it,    *)
(* and counts it.  A failed statement or write ends the process, which is  *)
(* started again; SQLite rolls the transaction back.                       *)
(*                                                                         *)
(* What becomes of an archived profile fragment is the Receiver module's   *)
(* subject; here it is archived, and printed only by what follows there.   *)
(***************************************************************************)
EXTENDS Naturals, Sequences, FiniteSets, SequencesExt

CONSTANTS
    Payload,        \* the payloads the radio may deliver
    None,
    Count,          \* --count, or None
    MaxTaken,       \* bound: packets taken from the radio
    MaxExits        \* bound: runs that end with an error or a crash

FRAME_LEN == 48

ASSUME ArchiveAssumption ==
    /\ Payload \subseteq [length : Nat, magic : BOOLEAN, version : Nat, valid : BOOLEAN,
                          frame_type : {"config", "health", "fragment"}]
    /\ Count \in Nat \cup {None}
    /\ MaxTaken \in Nat /\ MaxExits \in Nat

VARIABLES
    rows,           \* the archive: radio_packets and what refers to each row
    printed,        \* row number and payload of each line written to the output
    taken,          \* packets taken from the radio, all runs together
    exits,          \* runs that ended with an error or a crash
    phase,          \* "down", "top", "poll", "store", "print" or "stopped"
    packet,         \* the packet in hand, or None
    todo,           \* the statements left of its transaction
    tx,             \* the row as far as the transaction has written it
    stopping,       \* a signal was received or the duration is over
    valid_frames, unsupported_packets, protocol_errors

counters == <<valid_frames, unsupported_packets, protocol_errors>>
vars == <<rows, printed, taken, exits, phase, packet, todo, tx, stopping, counters>>

-----------------------------------------------------------------------------
\* decode_any: the variant of DecodedTelemetry, or of the error.
decode_any(b) ==
    CASE b.length < 3   -> "TruncatedDiscriminator"
      [] b.length >= 3 /\ ~ b.magic -> "InvalidMagic"
      [] b.length >= 3 /\ b.magic /\ b.version = 1 -> IF b.length = FRAME_LEN THEN "V1" ELSE "V1Error"
      [] b.length >= 3 /\ b.magic /\ b.version = 2 -> IF b.valid THEN b.frame_type ELSE "V2Error"
      [] OTHER -> "UnsupportedVersion"

disposition(b) ==
    CASE decode_any(b) = "V1" -> "v1"
      [] decode_any(b) \in {"config", "health", "fragment"} -> "v2"
      [] decode_any(b) \in {"UnsupportedVersion", "InvalidMagic", "TruncatedDiscriminator"} -> "unsupported"
      [] OTHER -> "invalid"

\* insert_received_v1, insert_received_device_configuration, insert_received_device_health,
\* archive_v2_profile_fragment, and archive_packet, which is a statement of its own.
statements(b) ==
    CASE decode_any(b) = "V1"       -> <<"packet", "reading">>
      [] decode_any(b) = "config"   -> <<"packet", "decode", "record", "steps">>
      [] decode_any(b) = "health"   -> <<"packet", "decode", "record">>
      [] decode_any(b) = "fragment" -> <<"packet", "decode">>
      [] OTHER -> <<"packet">>

\* A row without anything that refers to it.
insert_packet_at(b) == [payload |-> b, disposition |-> disposition(b), parts |-> {}]

-----------------------------------------------------------------------------
InitRun ==
    /\ packet = None /\ todo = <<>> /\ tx = None
    /\ stopping = FALSE
    /\ valid_frames = 0 /\ unsupported_packets = 0 /\ protocol_errors = 0

Init ==
    /\ rows = <<>> /\ printed = {} /\ taken = 0 /\ exits = 0
    /\ phase = "down"
    /\ InitRun

\* listen: the store is opened, pending profiles are reconciled, the radio is opened.
Start ==
    /\ phase = "down"
    /\ phase' = "top"
    /\ UNCHANGED <<rows, printed, taken, exits, packet, todo, tx, stopping, counters>>

Stops == stopping \/ (Count # None /\ valid_frames >= Count)

LoopTop ==
    /\ phase = "top"
    /\ phase' = IF Stops THEN "stopped" ELSE "poll"
    /\ packet' = None
    /\ UNCHANGED <<rows, printed, taken, exits, todo, tx, stopping, counters>>

\* Mutant: what is no Vesta frame is dropped.
ReceivePacket_dropping(b) ==
    /\ phase = "poll"
    /\ taken < MaxTaken
    /\ taken' = taken + 1
    /\ packet' = b
    /\ IF disposition(b) = "unsupported"
       THEN phase' = "top" /\ UNCHANGED todo
       ELSE phase' = "store" /\ todo' = statements(b)
    /\ UNCHANGED <<rows, printed, exits, tx, stopping, counters>>

\* poll_receive returns a packet, and store_packet begins.
ReceivePacket(b) ==
    /\ phase = "poll"
    /\ taken < MaxTaken
    /\ taken' = taken + 1
    /\ packet' = b
    /\ phase' = "store"
    /\ todo' = statements(b)
    /\ UNCHANGED <<rows, printed, exits, tx, stopping, counters>>

\* poll_receive returns nothing, or an event that is only reported.
ReceiveNothing ==
    /\ phase = "poll"
    /\ phase' = "top"
    /\ UNCHANGED <<rows, printed, taken, exits, packet, todo, tx, stopping, counters>>

\* One statement of the transaction.
Execute ==
    /\ phase = "store"
    /\ todo # <<>>
    /\ tx' = IF Head(todo) = "packet" THEN insert_packet_at(packet)
             ELSE [tx EXCEPT !.parts = @ \cup {Head(todo)}]
    /\ todo' = Tail(todo)
    /\ UNCHANGED <<rows, printed, taken, exits, phase, packet, stopping, counters>>

\* Mutant: the transaction is dropped, which rolls it back.
Commit_forgotten ==
    /\ phase = "store"
    /\ todo = <<>>
    /\ tx' = None
    /\ phase' = "print"
    /\ UNCHANGED <<rows, printed, taken, exits, packet, todo, stopping, counters>>

Commit ==
    /\ phase = "store"
    /\ todo = <<>>
    /\ rows' = Append(rows, tx)
    /\ tx' = None
    /\ phase' = "print"
    /\ UNCHANGED <<printed, taken, exits, packet, todo, stopping, counters>>

\* The packet's outcome in the loop's counters.
Counted(b) ==
    /\ valid_frames' = valid_frames + (IF disposition(b) \in {"v1", "v2"} THEN 1 ELSE 0)
    /\ unsupported_packets' = unsupported_packets + (IF disposition(b) = "unsupported" THEN 1 ELSE 0)
    /\ protocol_errors' = protocol_errors + (IF disposition(b) = "invalid" THEN 1 ELSE 0)

\* The record is printed, unless it is a fragment or could not be decoded.
PrintAndCount ==
    /\ phase = "print"
    /\ printed' = IF decode_any(packet) \in {"V1", "config", "health"}
                  THEN printed \cup {<<Len(rows), packet>>} ELSE printed
    /\ Counted(packet)
    /\ phase' = "top"
    /\ UNCHANGED <<rows, taken, exits, packet, todo, tx, stopping>>

\* SIGINT, SIGTERM or the end of the duration.
RequestStop ==
    /\ phase \notin {"down", "stopped"}
    /\ stopping' = TRUE
    /\ UNCHANGED <<rows, printed, taken, exits, phase, packet, todo, tx, counters>>

\* The next run begins with an empty memory.
NextRun ==
    /\ phase' = "down"
    /\ packet' = None /\ todo' = <<>> /\ tx' = None
    /\ stopping' = FALSE
    /\ valid_frames' = 0 /\ unsupported_packets' = 0 /\ protocol_errors' = 0

\* Mutant: the transaction of a failed statement is committed when it is dropped.
Fail_committing ==
    /\ phase \notin {"down", "stopped"}
    /\ exits < MaxExits
    /\ exits' = exits + 1
    /\ rows' = IF tx = None THEN rows ELSE Append(rows, tx)
    /\ NextRun
    /\ UNCHANGED <<printed, taken>>

\* A statement or a write fails, or the process crashes.
Fail ==
    /\ phase \notin {"down", "stopped"}
    /\ exits < MaxExits
    /\ exits' = exits + 1
    /\ NextRun
    /\ UNCHANGED <<rows, printed, taken>>

\* A run that has stopped is started again by hand.
Rerun ==
    /\ phase = "stopped"
    /\ NextRun
    /\ UNCHANGED <<rows, printed, taken, exits>>

Process == Start \/ LoopTop \/ Execute \/ Commit \/ PrintAndCount

Poll == (\E b \in Payload : ReceivePacket(b)) \/ ReceiveNothing

Next == Process \/ Poll \/ RequestStop \/ Fail \/ Rerun

Spec == Init /\ [][Next]_vars

-----------------------------------------------------------------------------
(***************************************************************************)
(* Properties.                                                             *)
(***************************************************************************)
\* What must refer to a row, by what its payload is.
Parts(b) == Range(statements(b)) \ {"packet"}

\* Every archived packet has the disposition of its payload and exactly the rows that belong to it:
\* no statement that fails and no crash leaves a packet without its reading, decode or record.
RowsWhole ==
    \A n \in DOMAIN rows :
        /\ rows[n].parts = Parts(rows[n].payload)
        /\ rows[n].disposition = "v1" <=> "reading" \in rows[n].parts
        /\ rows[n].disposition = "v2" <=> "decode" \in rows[n].parts
        /\ rows[n].disposition \in {"unsupported", "invalid"} => rows[n].parts = {}

\* What a reader of the output has seen is in the database, whatever happens afterwards.
PrintedIsStored ==
    \A line \in printed : line[1] \in DOMAIN rows /\ rows[line[1]].payload = line[2]

InHand == phase = "store"

\* Every packet the radio hands over is archived, decodable or not, except for at most one per run
\* that ends with an error.
LossBounded == taken <= Len(rows) + exits + (IF InHand THEN 1 ELSE 0)

=============================================================================
