------------------------------- MODULE Sx1262 -------------------------------
(***************************************************************************)
(* The receive driver of crates/vesta-receiver/src/sx1262.rs against the   *)
(* SX1262 it drives, as the loop of main.rs calls it.                      *)
(*                                                                         *)
(* The radio is in continuous receive: it writes its buffer and sets       *)
(* interrupt flags whenever a packet is on the air, between any two SPI    *)
(* transactions of the driver.  One action is one transaction, except that *)
(* steps taken while the radio is in standby are put together.             *)
(*                                                                         *)
(* The radio and the interrupt queue of rppal are external.  What is       *)
(* assumed of them: DIO1 is high while a flag is set; a rising edge is     *)
(* queued until poll_interrupt takes it; the status byte tells of the last *)
(* command only; a packet is written into the buffer while it is received. *)
(***************************************************************************)
EXTENDS Naturals, Sequences, FiniteSets

CONSTANTS
    None,
    Offset,         \* where in the buffer the radio may put a packet
    EdgeQueue,      \* how many DIO1 edges are queued
    MaxPackets,     \* bound: packets on the air
    MaxFaults,      \* bound: rejected commands, failed transactions and resets
    MaxKills        \* bound: how often the process is killed

ASSUME Sx1262Assumption ==
    /\ Offset # {}
    /\ EdgeQueue \in Nat \ {0}
    /\ MaxPackets \in Nat
    /\ MaxFaults \in Nat
    /\ MaxKills \in Nat

Packet == 1 .. MaxPackets
Flag == {"RxDone", "HeaderError", "CrcError", "Timeout"}

\* The packet whose bytes were read, whether all of them were its own yet, and the
\* packet whose measurements were read.
RadioPacket == [id : Packet, whole : BOOLEAN, signal : Packet \cup {None}]

VARIABLES
    chip,           \* the SX1262
    sent,           \* how many packets were on the air
    edges,          \* DIO1 edges queued for poll_interrupt
    armed,          \* set_interrupt was called
    pc,             \* the next transaction of the driver
    setting,        \* configure_receive: the index of its next write
    initialized,    \* the field of Sx1262Hat
    event,          \* poll_receive: event_result
    offset,         \* read_packet: from GetRxBufferStatus
    packet,         \* read_packet: what was read so far
    handed,         \* the packets given to main.rs since the driver was opened
    faults, kills,
    exit,           \* how the last process ended
    opened,         \* history: the value of sent when the driver was opened
    good,           \* history: packets received with a correct CRC
    disturbed,      \* history: packets that shared their turn with another
    turn,           \* history: packets since the flags were cleared, 0 for an error
    taken           \* history: the flags were read and are not cleared yet

process == <<edges, armed, pc, setting, initialized, event, offset, packet, handed, exit>>
history == <<opened, good, disturbed, turn, taken>>
vars == <<chip, sent, process, faults, kills, history>>

-----------------------------------------------------------------------------
(***************************************************************************)
(* The radio.                                                              *)
(***************************************************************************)
\* The writes of configure_receive, in order.
Setting ==
    <<"Standby", "Regulator", "Dio2", "PacketType", "SyncWord", "BufferBase",
      "CalibrateImage", "Frequency", "Modulation", "PacketParams", "IqPolarity",
      "RxGain", "StopRxTimer", "SymbolTimeout", "DioIrq">>

Settings == {Setting[i] : i \in DOMAIN Setting}

\* What the driver may find in the radio: its mode, the settings that were applied, the status of
\* the last command, its flags, the packet on the air, and the buffer with where and how the last
\* packet came in.
Chip ==
    [mode : {"standby", "rx"}, applied : SUBSET Settings,
     device_errors : BOOLEAN, status : {"ok", "rejected"},
     irq : SUBSET Flag, air : [id : Packet, at : Offset] \cup {None},
     buffer : [Offset -> Packet \cup {None}], start : Offset,
     signal : Packet \cup {None}]

\* After a reset the radio is in standby with nothing set up.
ResetChip ==
    [mode |-> "standby", applied |-> {}, device_errors |-> FALSE, status |-> "ok",
     irq |-> {}, air |-> None, buffer |-> [o \in Offset |-> None],
     start |-> CHOOSE o \in Offset : TRUE, signal |-> None]

Dio1High(c) == c.irq # {}

Standby(c) == [c EXCEPT !.mode = "standby", !.air = None]

Apply(c, s) ==
    LET d == IF s = "Standby" THEN Standby(c) ELSE c
    IN [d EXCEPT !.applied = @ \cup {s}, !.status = "ok"]

\* Continuous receive; a packet under way may be given up.
Receiving(c) ==
    {[c EXCEPT !.mode = "rx", !.status = "ok", !.air = a] : a \in {c.air, None}}

\* The radio hears packets in receive mode with every setting applied.
Hears == chip.mode = "rx" /\ chip.applied = Settings

\* DIO1 rises when the first flag is set: an edge for an armed interrupt.
Raise(c) ==
    /\ chip' = c
    /\ edges' = IF armed /\ ~ Dio1High(chip) /\ edges < EdgeQueue THEN edges + 1 ELSE edges
    /\ UNCHANGED <<armed, pc, setting, initialized, event, offset, packet, handed, exit,
                   faults, kills, opened, taken>>

\* A packet is disturbed by whatever else happens before the flags are cleared,
\* and when the flags were read before it ended.
Joins(thing) ==
    /\ turn' = turn \cup {thing}
    /\ disturbed' =
          disturbed \cup (IF turn' # {thing} \/ taken THEN turn' \cap Packet ELSE {})

\* Reception begins: its bytes go to the buffer.
BeginPacket(at) ==
    /\ Hears
    /\ chip.air = None
    /\ sent < MaxPackets
    /\ sent' = sent + 1
    /\ chip' = [chip EXCEPT !.air = [id |-> sent', at |-> at], !.buffer[at] = sent']
    /\ turn' = turn \cup {sent'}
    /\ disturbed' = disturbed \cup (turn \cap Packet)
    /\ UNCHANGED <<process, faults, kills, opened, good, taken>>

\* It ends, with a correct CRC or not.
EndPacket(valid) ==
    /\ chip.air # None
    /\ LET n == chip.air.id
       IN /\ Raise([chip EXCEPT
                      !.irq = @ \cup {"RxDone"} \cup (IF valid THEN {} ELSE {"CrcError"}),
                      !.start = chip.air.at, !.signal = n, !.air = None])
          /\ Joins(n)
          /\ good' = IF valid THEN good \cup {n} ELSE good
    /\ UNCHANGED sent

\* A header that cannot be read.
BadHeader ==
    /\ Hears
    /\ chip.air = None
    /\ sent < MaxPackets
    /\ sent' = sent + 1
    /\ Raise([chip EXCEPT !.irq = @ \cup {"HeaderError"}])
    /\ Joins(0)
    /\ UNCHANGED good

\* The radio reports a timeout, which continuous receive does not have.
ChipTimeout ==
    /\ Hears
    /\ sent < MaxPackets
    /\ sent' = sent + 1
    /\ Raise([chip EXCEPT !.irq = @ \cup {"Timeout"}])
    /\ Joins(0)
    /\ UNCHANGED good

Radio ==
    \/ \E at \in Offset : BeginPacket(at)
    \/ \E valid \in BOOLEAN : EndPacket(valid)
    \/ BadHeader
    \/ ChipTimeout

-----------------------------------------------------------------------------
(***************************************************************************)
(* SPI transactions.  A write is carried out; or the radio rejects it,     *)
(* which only its status byte tells; or the transaction fails (BUSY, SPI,  *)
(* a short transfer), before or after the radio acted on it.  A read       *)
(* command fails as well when the status byte tells of a rejected command. *)
(***************************************************************************)
Fault ==
    /\ faults < MaxFaults
    /\ faults' = faults + 1

Command(done, next, onError) ==
    \/ /\ chip' \in done
       /\ pc' = next
       /\ UNCHANGED faults
    \/ /\ Fault
       /\ \/ chip' = [chip EXCEPT !.status = "rejected"] /\ pc' = next
          \/ chip' \in done \cup {chip} /\ pc' = onError

ReadFails ==
    /\ \/ chip.status = "rejected" /\ UNCHANGED faults
       \/ Fault
    /\ chip' = [chip EXCEPT !.status = "ok"]

ReadSucceeds ==
    /\ chip.status # "rejected"
    /\ UNCHANGED <<chip, faults>>

-----------------------------------------------------------------------------
(***************************************************************************)
(* Sx1262Hat::open.                                                        *)
(***************************************************************************)
\* main.rs opens the driver; systemd starts the process again unless it was stopped.
Open ==
    /\ pc = "closed"
    /\ pc' = "reset"
    /\ exit' = None
    /\ handed' = <<>>
    /\ UNCHANGED <<chip, sent, edges, armed, setting, initialized, event, offset, packet,
                   faults, kills, history>>

\* Nothing is received any more from what went before.
ForgetHistory ==
    /\ opened' = sent
    /\ good' = {} /\ disturbed' = {} /\ turn' = {} /\ taken' = FALSE

\* Mutant: the reset line is not pulsed.
HardwareReset_no_pulse ==
    /\ pc = "reset"
    /\ IF chip.mode = "standby"
       THEN pc' = "configure" /\ initialized' = TRUE
       ELSE pc' = "drop" /\ UNCHANGED initialized
    /\ setting' = 1
    /\ ForgetHistory
    /\ UNCHANGED <<chip, sent, edges, armed, event, offset, packet, handed, faults, kills, exit>>

\* Mutant: initialized is set when open is done.
HardwareReset_uninitialized ==
    /\ pc = "reset"
    /\ chip' = ResetChip
    /\ pc' = "configure"
    /\ setting' = 1
    /\ ForgetHistory
    /\ UNCHANGED <<sent, edges, armed, initialized, event, offset, packet, handed, faults,
                   kills, exit>>

\* get_status and ensure_mode after the reset.
ensure_mode(c, expected) == c.mode = expected /\ c.status = "ok"

\* hardware_reset: the pulse resets the radio, or (a fault) it does not, or it comes
\* back with device errors; then the status must be good and the mode standby.
HardwareReset ==
    /\ pc = "reset"
    /\ \/ chip' = ResetChip /\ UNCHANGED faults
       \/ Fault /\ chip' \in {chip, [ResetChip EXCEPT !.device_errors = TRUE]}
    /\ IF ensure_mode(chip', "standby")
       THEN pc' = "configure" /\ initialized' = TRUE
       ELSE pc' = "drop" /\ UNCHANGED initialized
    /\ setting' = 1
    /\ ForgetHistory
    /\ UNCHANGED <<sent, edges, armed, event, offset, packet, handed, kills, exit>>

\* configure_receive, one write after the other.
Configure ==
    /\ pc = "configure"
    /\ Command({Apply(chip, Setting[setting])},
               IF setting = Len(Setting) THEN "verify" ELSE "configure", "drop")
    /\ setting' = setting + 1
    /\ UNCHANGED <<sent, edges, armed, initialized, event, offset, packet, handed, kills,
                   exit, history>>

\* What verify_readback compares: packet type, sync word and device errors.
Verified ==
    /\ "PacketType" \in chip.applied
    /\ "SyncWord" \in chip.applied
    /\ ~ chip.device_errors

VerifyReadback ==
    /\ pc = "verify"
    /\ \/ /\ ReadSucceeds
          /\ pc' = IF Verified THEN "arm" ELSE "drop"
       \/ /\ ReadFails
          /\ pc' = "drop"
    /\ UNCHANGED <<sent, edges, armed, setting, initialized, event, offset, packet, handed,
                   kills, exit, history>>

\* Mutant: the flags are not cleared before receive mode is entered.
Arm_uncleared ==
    /\ pc = "arm"
    /\ armed' = TRUE
    /\ edges' = 0
    /\ event' = None
    /\ pc' = "setrx"
    /\ UNCHANGED <<chip, sent, setting, initialized, offset, packet, handed, faults, kills,
                   exit, history>>

\* set_interrupt and poll_interrupt(true, ZERO): armed, with no edge queued.  What
\* follows, clearing the flags and entering receive mode, is ClearIrq and SetRx.
Arm ==
    /\ pc = "arm"
    /\ armed' = TRUE
    /\ edges' = 0
    /\ event' = None
    /\ pc' = "clear"
    /\ UNCHANGED <<chip, sent, setting, initialized, offset, packet, handed, faults, kills,
                   exit, history>>

-----------------------------------------------------------------------------
(***************************************************************************)
(* poll_receive.                                                           *)
(***************************************************************************)
Reading == <<chip, sent, armed, setting, initialized, packet, handed, faults, kills, exit>>

\* Mutant: only an edge tells of a flag.
Poll_edges ==
    /\ pc = "idle"
    /\ pc' = "wait"
    /\ UNCHANGED <<Reading, edges, event, offset, history>>

\* The level of DIO1 is read before an edge is waited for.
Poll ==
    /\ pc = "idle"
    /\ pc' = IF Dio1High(chip) THEN "status" ELSE "wait"
    /\ UNCHANGED <<Reading, edges, event, offset, history>>

\* poll_interrupt(false, timeout): a queued edge, or the timeout.
PollInterrupt ==
    /\ pc = "wait"
    /\ IF edges > 0
       THEN pc' = "status" /\ edges' = edges - 1
       ELSE pc' = "idle" /\ UNCHANGED edges
    /\ UNCHANGED <<Reading, event, offset, history>>

\* Mutant: RxDone is looked at first.
classify_irq_done(irq) ==
    CASE "RxDone" \in irq      -> "Packet"
      [] "HeaderError" \in irq -> "HeaderError"
      [] OTHER                 -> "Other"

classify_irq(irq) ==
    CASE "HeaderError" \in irq -> "HeaderError"
      [] "HeaderError" \notin irq /\ "CrcError" \in irq -> "CrcError"
      [] irq \cap {"HeaderError", "CrcError"} = {} /\ "RxDone" \in irq -> "Packet"
      [] irq = {"Timeout"}     -> "Timeout"
      [] irq = {}              -> "Other"

GetIrqStatus ==
    /\ pc = "status"
    /\ \/ /\ ReadSucceeds
          /\ event' = classify_irq(chip.irq)
          /\ pc' = IF event' = "Packet" THEN "length" ELSE "clear"
          /\ taken' = TRUE
       \/ /\ ReadFails
          /\ pc' = "drop"
          /\ UNCHANGED <<event, taken>>
    /\ UNCHANGED <<sent, edges, armed, setting, initialized, offset, packet, handed, kills,
                   exit, opened, good, disturbed, turn>>

\* read_packet failed: the radio is set to receive again before the error counts.
ReadPacketFails ==
    /\ pc \in {"length", "buffer", "signal"}
    /\ IF pc = "buffer" THEN Fault /\ UNCHANGED chip ELSE ReadFails
    /\ event' = "Error"
    /\ pc' = "clear"
    /\ UNCHANGED <<sent, edges, armed, setting, initialized, offset, packet, handed, kills,
                   exit, history>>

GetRxBufferStatus ==
    /\ pc = "length"
    /\ ReadSucceeds
    /\ offset' = chip.start
    /\ pc' = "buffer"
    /\ UNCHANGED <<sent, edges, armed, setting, initialized, event, packet, handed, kills,
                   exit, history>>

\* Mutant: the bytes are read from the base address.
ReadBuffer_base ==
    /\ pc = "buffer"
    /\ packet' = [id |-> chip.buffer[ResetChip.start], signal |-> None, whole |-> TRUE]
    /\ chip' = [chip EXCEPT !.status = "ok"]
    /\ pc' = "signal"
    /\ UNCHANGED <<sent, edges, armed, setting, initialized, event, offset, handed, faults,
                   kills, exit, history>>

\* The bytes at the offset: those of a packet, which may still be on the air.
ReadBuffer ==
    /\ pc = "buffer"
    /\ packet' = [id |-> chip.buffer[offset], signal |-> None,
                  whole |-> chip.air = None \/ chip.air.at # offset]
    /\ chip' = [chip EXCEPT !.status = "ok"]
    /\ pc' = "signal"
    /\ UNCHANGED <<sent, edges, armed, setting, initialized, event, offset, handed, faults,
                   kills, exit, history>>

GetPacketStatus ==
    /\ pc = "signal"
    /\ ReadSucceeds
    /\ packet' = [packet EXCEPT !.signal = chip.signal]
    /\ pc' = "clear"
    /\ UNCHANGED <<sent, edges, armed, setting, initialized, event, offset, handed, kills,
                   exit, history>>

\* restart_receive, first half.  A packet on the air stays for the next turn.
ClearIrq ==
    /\ pc = "clear"
    /\ Command({[chip EXCEPT !.irq = {}, !.status = "ok"]}, "setrx", "drop")
    /\ IF Dio1High(chip')
       THEN UNCHANGED <<turn, taken>>
       ELSE /\ turn' = IF chip.air = None THEN {} ELSE {chip.air.id}
            /\ taken' = FALSE
    /\ UNCHANGED <<sent, edges, armed, setting, initialized, event, offset, packet, handed,
                   kills, exit, opened, good, disturbed>>

\* event_result before restart_result: an error of either ends the process.
Result(error) == IF error = "Error" THEN "drop" ELSE "idle"

\* restart_receive, second half, and the return of poll_receive to main.rs.
SetRx ==
    /\ pc = "setrx"
    /\ Command(Receiving(chip), Result(event), "drop")
    /\ handed' = IF pc' = "idle" /\ event = "Packet" THEN Append(handed, packet) ELSE handed
    /\ event' = None /\ packet' = None
    /\ UNCHANGED <<sent, edges, armed, setting, initialized, offset, kills, exit, history>>

-----------------------------------------------------------------------------
\* SIGINT, SIGTERM, --count, --duration or a database error: listen returns.
Stop ==
    /\ pc = "idle"
    /\ pc' = "drop"
    /\ exit' = "stopped"
    /\ UNCHANGED <<chip, sent, edges, armed, setting, initialized, event, offset, packet,
                   handed, faults, kills, history>>

\* The errors of the command are ignored.
Drop ==
    /\ pc = "drop"
    /\ pc' = "closed"
    /\ \/ /\ chip' = IF initialized THEN Standby(chip) ELSE chip
          /\ exit' = IF exit = None THEN "failed" ELSE exit
          /\ UNCHANGED faults
       \/ initialized /\ Fault /\ exit' = "refused" /\ UNCHANGED chip
    /\ initialized' = FALSE /\ armed' = FALSE /\ edges' = 0
    /\ UNCHANGED <<sent, setting, event, offset, packet, handed, kills, history>>

\* SIGKILL or power loss of the host: Drop does not run and the radio goes on.
Kill ==
    /\ pc # "closed"
    /\ kills < MaxKills
    /\ kills' = kills + 1
    /\ pc' = "closed"
    /\ exit' = "killed"
    /\ initialized' = FALSE /\ armed' = FALSE /\ edges' = 0
    /\ UNCHANGED <<chip, sent, setting, event, offset, packet, handed, faults, history>>

Init ==
    /\ chip = ResetChip
    /\ sent = 0 /\ edges = 0 /\ armed = FALSE
    /\ pc = "closed" /\ setting = 1 /\ initialized = FALSE
    /\ event = None /\ offset = ResetChip.start /\ packet = None /\ handed = <<>>
    /\ faults = 0 /\ kills = 0 /\ exit = "failed"
    /\ opened = 0 /\ good = {} /\ disturbed = {} /\ turn = {} /\ taken = FALSE

Driver ==
    \/ HardwareReset \/ Configure \/ VerifyReadback \/ Arm
    \/ Poll \/ PollInterrupt
    \/ GetIrqStatus \/ ReadPacketFails \/ GetRxBufferStatus \/ ReadBuffer \/ GetPacketStatus
    \/ ClearIrq \/ SetRx \/ Drop

Next == Driver \/ Open \/ Stop \/ Kill \/ Radio

Spec == Init /\ [][Next]_vars

-----------------------------------------------------------------------------
(***************************************************************************)
(* Properties.                                                             *)
(***************************************************************************)
Listening == pc \in {"idle", "wait", "status", "length", "buffer", "signal"}

Kinds == {"HeaderError", "CrcError", "Packet", "Timeout", "Other", "Error"}

\* None is none of the values it stands beside.
ASSUME NoneAssumption ==
    /\ None \notin Nat
    /\ None \notin [id : Packet, at : Offset]
    /\ None \notin RadioPacket
    /\ None \notin Kinds

\* The variables have the types of the values they stand for.
TypeOK ==
    /\ chip \in Chip
    /\ sent \in 0 .. MaxPackets
    /\ edges \in 0 .. EdgeQueue
    /\ armed \in BOOLEAN
    /\ pc \in {"closed", "reset", "configure", "verify", "arm", "idle", "wait", "status",
               "length", "buffer", "signal", "clear", "setrx", "drop"}
    /\ setting \in 1 .. Len(Setting) + 1
    /\ initialized \in BOOLEAN
    /\ event \in Kinds \cup {None}
    /\ offset \in Offset
    /\ packet \in RadioPacket \cup {None}
    /\ handed \in Seq(RadioPacket)
    /\ exit \in {None, "stopped", "failed", "refused", "killed"}

\* A packet that has the radio to itself from one clearing of the flags to the next
\* reading of them is handed over, bytes and measurements, whatever the driver was
\* doing when it came: while DIO1 was read, waited for, or a stale edge was queued.
UndisturbedHanded ==
    pc \in {"idle", "wait"} /\ ~ Dio1High(chip) =>
        \A n \in good \ disturbed :
            \E i \in DOMAIN handed : handed[i] = [id |-> n, whole |-> TRUE, signal |-> n]

\* Bytes that are not those of one valid packet, or another packet's measurements,
\* are only handed over when packets shared a turn.
MixedOnlyDisturbed ==
    \A i \in DOMAIN handed :
        \/ handed[i].whole /\ handed[i].id \in good /\ handed[i].signal = handed[i].id
        \/ {handed[i].id, handed[i].signal} \cap disturbed # {}

\* What an earlier process left in the radio is never handed over as new, even if
\* that process was killed or stopped with a flag set and the reset does not take.
NoStalePacket ==
    \A i \in DOMAIN handed : handed[i].id > opened /\ handed[i].signal > opened

\* docs/waveshare-sx1262-hat.md:90 "On orderly exit, the radio enters standby RC", and
\* sx1262.rs:265 "including if a later configuration readback fails": the radio is
\* only left receiving if the process was killed, or the radio could not be told.
LeftInStandby ==
    pc = "closed" /\ exit \in {"stopped", "failed"} /\ setting > 1 => chip.mode = "standby"

(***************************************************************************)
(* Liveness.  The loop of main.rs takes its next step in the end, and      *)
(* systemd starts a process again that failed or was killed.  Nothing is   *)
(* assumed of the radio and the air; MaxFaults and MaxKills bound faults.  *)
(***************************************************************************)
Restart == Open /\ exit # "stopped"

FairSpec == Spec /\ WF_vars(Driver) /\ WF_vars(Restart)

\* No wake-up is missed: a flag is read and cleared in the end, also when the command
\* that was to clear the flags before was rejected and so no further edge comes.
FlagsHandled == Dio1High(chip) /\ Listening ~> ~ Dio1High(chip) \/ pc = "closed"

\* A process that failed or was killed, with the radio in any mode, listens again.
ListensAgain == pc = "closed" /\ exit # "stopped" ~> pc = "idle"

-----------------------------------------------------------------------------
(***************************************************************************)
(* What the documentation says and the driver cannot hold.                 *)
(***************************************************************************)
\* sx1262.rs:274 "corrupt bytes are never read from the packet buffer".
CorruptNeverRead ==
    packet # None /\ packet.whole => packet.id \in good

=============================================================================
