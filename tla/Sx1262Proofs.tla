---------------------------- MODULE Sx1262Proofs ----------------------------
(***************************************************************************)
(* Proofs about Sx1262, for any buffer, any number of packets on the air,  *)
(* of faults and of kills.                                                 *)
(*                                                                         *)
(* What is left in the radio by an earlier process is dangerous if the     *)
(* reset does not take and the first clearing of the flags is rejected     *)
(* too: the claims about packets are made while there was at most one      *)
(* fault.                                                                  *)
(***************************************************************************)
EXTENDS Sx1262, SequenceTheorems, TLAPS

\* open has returned the driver, or is about to.
Active == pc \notin {"closed", "reset", "drop"}

\* Before open clears the flags for the first time.
Starting == pc \in {"configure", "verify", "arm"} \/ (pc = "clear" /\ event = None)

\* read_packet is under way.
InPacket == pc \in {"length", "buffer", "signal"}

\* poll_receive has its event and restarts reception.
Restarting == pc \in {"clear", "setrx"}

\* Drop resets what was initialized, and the settings are written in order.
Control ==
    /\ Active => initialized
    /\ pc = "drop" => initialized \/ setting = 1
    /\ pc = "configure" => setting <= Len(Setting)
    /\ pc # "closed" => exit \in {None, "stopped"}
    /\ pc = "reset" => handed = <<>>
    /\ pc \in {"idle", "wait", "status"} => event = None
    /\ InPacket => event = "Packet"

\* What the radio reports is in its buffer.
RadioSound ==
    /\ chip.mode = "standby" => chip.air = None
    /\ chip.air # None => chip.buffer[chip.air.at] = chip.air.id /\ chip.air.id <= sent
    /\ "RxDone" \in chip.irq => chip.buffer[chip.start] \in Packet /\ chip.signal \in Packet
    /\ opened <= sent

\* What read_packet reads is there to be read.
ReadSound ==
    /\ InPacket => "RxDone" \in chip.irq
    /\ pc = "buffer" => chip.buffer[offset] \in Packet
    /\ pc = "signal" \/ (Restarting /\ event = "Packet") => packet \in RadioPacket
    /\ Restarting /\ event = "Packet" => packet.signal \in Packet

\* Nothing is received before the flags are cleared.
StartsQuiet ==
    /\ Starting => /\ chip.mode = "standby"
                   /\ good = {} /\ disturbed = {} /\ turn = {} /\ ~ taken
                   /\ faults = 0 => chip.irq = {}
    /\ pc = "clear" /\ event # None => taken
    /\ InPacket => taken

\* Packet n, finished, is all that happened since the flags were cleared, and is in the radio.
Alone(n) ==
    /\ turn = {n}
    /\ chip.air = None
    /\ chip.signal = n
    /\ chip.buffer[chip.start] = n

\* The flags tell of something in the turn, and the packet they tell of is newer than the driver and
\* alone, or known to be disturbed.
TurnSound ==
    /\ turn \subseteq 0 .. sent
    /\ chip.air # None => chip.air.id \in turn /\ chip.air.id > opened
    /\ chip.irq # {} => \E x \in turn : chip.air = None \/ x # chip.air.id
    /\ "RxDone" \in chip.irq =>
          /\ chip.signal \in turn
          /\ chip.signal > opened /\ chip.buffer[chip.start] > opened
          /\ \/ chip.signal \in disturbed
             \/ Alone(chip.signal) /\ ("CrcError" \in chip.irq \/ chip.signal \in good)

\* The same of the packet that read_packet is reading or has read.
PacketSound ==
    /\ InPacket =>
          \/ chip.signal \in disturbed
          \/ /\ Alone(chip.signal)
             /\ chip.signal \in good
             /\ pc = "buffer" => offset = chip.start
             /\ pc = "signal" => packet.id = chip.signal /\ packet.whole
    /\ pc = "buffer" => chip.buffer[offset] > opened
    /\ pc = "signal" => packet.id > opened
    /\ Restarting /\ event = "Packet" =>
          /\ packet.id > opened /\ packet.signal > opened
          /\ \/ packet.signal \in disturbed
             \/ packet.whole /\ packet.id \in good /\ packet.signal = packet.id

\* Where a valid packet is that was not disturbed: handed over, waiting for poll_receive, being
\* read, or read; or reading it failed and the driver is about to be closed.
Whereabouts(n) ==
    \/ \E i \in DOMAIN handed : handed[i] = [id |-> n, whole |-> TRUE, signal |-> n]
    \/ chip.irq = {"RxDone"} /\ ~ taken /\ Alone(n)
    \/ InPacket /\ chip.signal = n
    \/ Restarting /\ event = "Packet" /\ packet = [id |-> n, whole |-> TRUE, signal |-> n]
    \/ Restarting /\ event = "Error"

\* All of it, from the first clearing of the flags.
Receives ==
    Active /\ ~ Starting =>
        /\ TurnSound
        /\ PacketSound
        /\ \A n \in good \ disturbed : Whereabouts(n)

HistoryOK ==
    /\ opened \in Nat /\ faults \in Nat
    /\ good \subseteq Packet /\ disturbed \subseteq Packet
    /\ taken \in BOOLEAN

\* The inductive invariant.
IInv ==
    /\ TypeOK /\ HistoryOK /\ Control /\ RadioSound /\ ReadSound /\ StartsQuiet /\ LeftInStandby
    /\ faults <= 1 => Receives /\ MixedOnlyDisturbed /\ NoStalePacket

-----------------------------------------------------------------------------
\* The settings are fifteen.
LEMMA SettingsCounted ==
    /\ Len(Setting) = 15
    /\ \A i \in 1 .. 15 : Setting[i] \in Settings
  <1>1. Len(Setting) = 15 /\ DOMAIN Setting = 1 .. 15
    BY DEF Setting
  <1>2. QED
    BY <1>1 DEF Settings

\* Every set of flags is one of the events.
LEMMA Classified ==
    ASSUME NEW irq \in SUBSET Flag
    PROVE  /\ classify_irq(irq) \in Kinds
           /\ classify_irq(irq) # "Error"
           /\ classify_irq(irq) = "Packet" => "RxDone" \in irq /\ "CrcError" \notin irq
           /\ irq = {"RxDone"} => classify_irq(irq) = "Packet"
  BY DEF classify_irq, Flag, Kinds

-----------------------------------------------------------------------------
\* Two values of the radio that hold the same packet and flags.
SameContents(c, d) ==
    d.irq = c.irq /\ d.buffer = c.buffer /\ d.start = c.start /\ d.signal = c.signal

\* ... and are in the same mode, with the same packet on the air.
OnlyStatus(c, d) ==
    SameContents(c, d) /\ d.mode = c.mode /\ d.air = c.air

\* After a reset the radio is in standby and has no flags.
LEMMA ResetIsChip ==
    /\ ResetChip \in Chip
    /\ [ResetChip EXCEPT !.device_errors = TRUE] \in Chip
    /\ ResetChip.mode = "standby" /\ ResetChip.air = None /\ ResetChip.irq = {}
    /\ [ResetChip EXCEPT !.device_errors = TRUE].mode = "standby"
    /\ [ResetChip EXCEPT !.device_errors = TRUE].air = None
    /\ [ResetChip EXCEPT !.device_errors = TRUE].irq = {}
  <1>1. (CHOOSE o \in Offset : TRUE) \in Offset
    BY Sx1262Assumption
  <1>2. QED
    BY <1>1 DEF ResetChip, Chip

\* A command status changes nothing else.
LEMMA StatusChip ==
    ASSUME NEW c \in Chip, NEW s \in {"ok", "rejected"}
    PROVE  /\ [c EXCEPT !.status = s] \in Chip
           /\ OnlyStatus(c, [c EXCEPT !.status = s])
  BY DEF Chip, OnlyStatus, SameContents

\* Standby ends a reception and keeps what was received.
LEMMA StandbyChip ==
    ASSUME NEW c \in Chip
    PROVE  /\ Standby(c) \in Chip
           /\ SameContents(c, Standby(c))
           /\ Standby(c).mode = "standby" /\ Standby(c).air = None
           /\ Standby(c).status = c.status /\ Standby(c).applied = c.applied
  BY DEF Chip, SameContents, Standby

\* A setting keeps what was received.
LEMMA ApplyChip ==
    ASSUME NEW c \in Chip, NEW s \in Settings
    PROVE  /\ Apply(c, s) \in Chip
           /\ SameContents(c, Apply(c, s))
           /\ \/ Apply(c, s).mode = c.mode /\ Apply(c, s).air = c.air
              \/ Apply(c, s).mode = "standby" /\ Apply(c, s).air = None
  <1>1. ASSUME NEW d \in Chip
        PROVE  /\ [d EXCEPT !.applied = @ \cup {s}, !.status = "ok"] \in Chip
               /\ OnlyStatus(d, [d EXCEPT !.applied = @ \cup {s}, !.status = "ok"])
    BY DEF Chip, OnlyStatus, SameContents
  <1>2. CASE s = "Standby"
    <2>1. Apply(c, s) = [Standby(c) EXCEPT !.applied = @ \cup {s}, !.status = "ok"]
      BY <1>2 DEF Apply
    <2>2. /\ Standby(c) \in Chip /\ SameContents(c, Standby(c))
          /\ Standby(c).mode = "standby" /\ Standby(c).air = None
      BY StandbyChip
    <2>3. Apply(c, s) \in Chip /\ OnlyStatus(Standby(c), Apply(c, s))
      BY <2>1, <2>2, <1>1
    <2>4. QED
      BY <2>2, <2>3 DEF OnlyStatus, SameContents
  <1>3. CASE s # "Standby"
    BY <1>1, <1>3 DEF Apply, OnlyStatus, SameContents
  <1>4. QED
    BY <1>2, <1>3

\* SetRx keeps what was received.
LEMMA ReceivingChip ==
    ASSUME NEW c \in Chip, NEW d \in Receiving(c)
    PROVE  /\ d \in Chip
           /\ SameContents(c, d)
           /\ d.mode = "rx" /\ d.air \in {c.air, None}
  <1>1. PICK a \in {c.air, None} : d = [c EXCEPT !.mode = "rx", !.status = "ok", !.air = a]
    BY DEF Receiving
  <1>2. a \in [id : Packet, at : Offset] \cup {None}
    BY <1>1 DEF Chip
  <1>3. QED
    BY <1>1, <1>2 DEF Chip, SameContents

\* Clearing the flags keeps the packet they were about.
LEMMA ClearedChip ==
    ASSUME NEW c \in Chip
    PROVE  LET d == [c EXCEPT !.irq = {}, !.status = "ok"]
           IN /\ d \in Chip
              /\ d.irq = {} /\ d.mode = c.mode /\ d.air = c.air
              /\ d.buffer = c.buffer /\ d.start = c.start /\ d.signal = c.signal
  BY DEF Chip

\* The end of a packet sets its flags and what is read of it.
LEMMA EndChip ==
    ASSUME NEW c \in Chip, c.air # None, NEW flags \in SUBSET Flag
    PROVE  LET d == [c EXCEPT !.irq = @ \cup flags, !.start = c.air.at, !.signal = c.air.id,
                              !.air = None]
           IN /\ d \in Chip
              /\ d.mode = c.mode /\ d.irq = c.irq \cup flags /\ d.buffer = c.buffer
              /\ d.start = c.air.at /\ d.signal = c.air.id /\ d.air = None
  BY DEF Chip

\* A flag changes nothing else.
LEMMA FlagChip ==
    ASSUME NEW c \in Chip, NEW flag \in Flag
    PROVE  LET d == [c EXCEPT !.irq = @ \cup {flag}]
           IN /\ d \in Chip
              /\ d.mode = c.mode /\ d.irq = c.irq \cup {flag} /\ d.buffer = c.buffer
              /\ d.start = c.start /\ d.signal = c.signal /\ d.air = c.air
  BY DEF Chip

-----------------------------------------------------------------------------
(***************************************************************************)
(* What the transactions do to the radio.                                  *)
(***************************************************************************)
LEMMA ConfigureEffect ==
    ASSUME TypeOK, Control, Configure
    PROVE  /\ chip' \in Chip
           /\ SameContents(chip, chip')
           /\ \/ chip'.mode = chip.mode /\ chip'.air = chip.air
              \/ chip'.mode = "standby" /\ chip'.air = None
           /\ pc' \in {"configure", "verify", "drop"}
           /\ pc' = "configure" => setting' <= Len(Setting)
           /\ setting' \in 1 .. Len(Setting) + 1
           /\ faults' = faults \/ faults' = faults + 1
  <1>1. /\ chip \in Chip /\ setting \in 1 .. 15 /\ Len(Setting) = 15
        /\ Setting[setting] \in Settings
    BY SettingsCounted DEF TypeOK, Control, Configure
  <1>2. Setting[setting] \in Settings /\ pc = "configure"
    BY <1>1 DEF Configure
  <1>3. \/ chip' = Apply(chip, Setting[setting])
        \/ chip' = [chip EXCEPT !.status = "rejected"]
        \/ chip' = chip
    BY DEF Configure, Command
  <1>4. /\ chip' \in Chip /\ SameContents(chip, chip')
        /\ \/ chip'.mode = chip.mode /\ chip'.air = chip.air
           \/ chip'.mode = "standby" /\ chip'.air = None
    <2>1. CASE chip' = Apply(chip, Setting[setting])
      BY <2>1, <1>1, ApplyChip
    <2>2. CASE chip' = [chip EXCEPT !.status = "rejected"]
      BY <2>2, <1>1, StatusChip DEF OnlyStatus
    <2>3. CASE chip' = chip
      BY <2>3, <1>1 DEF SameContents
    <2>4. QED
      BY <1>3, <2>1, <2>2, <2>3
  <1>5. /\ pc' \in {IF setting = Len(Setting) THEN "verify" ELSE "configure", "drop"}
        /\ setting' = setting + 1
        /\ faults' = faults \/ faults' = faults + 1
    BY DEF Configure, Command, Fault
  <1>6. QED
    BY <1>1, <1>4, <1>5

\* Reads, and what happens in the host, leave the radio as it is but for the status.
LEMMA ReadEffect ==
    ASSUME TypeOK,
           VerifyReadback \/ GetIrqStatus \/ ReadPacketFails \/ GetRxBufferStatus \/ ReadBuffer
              \/ GetPacketStatus \/ Arm \/ Poll \/ PollInterrupt \/ Open \/ Stop \/ Kill
    PROVE  /\ chip' \in Chip
           /\ OnlyStatus(chip, chip')
           /\ faults' = faults \/ faults' = faults + 1
  <1>1. chip \in Chip
    BY DEF TypeOK
  <1>2. chip' = chip \/ chip' = [chip EXCEPT !.status = "ok"]
    BY DEF VerifyReadback, GetIrqStatus, ReadPacketFails, GetRxBufferStatus, ReadBuffer,
           GetPacketStatus, Arm, Poll, PollInterrupt, Open, Stop, Kill, ReadSucceeds, ReadFails,
           Reading
  <1>3. chip' \in Chip /\ OnlyStatus(chip, chip')
    BY <1>1, <1>2, StatusChip DEF OnlyStatus, SameContents
  <1>4. faults' = faults \/ faults' = faults + 1
    BY DEF VerifyReadback, GetIrqStatus, ReadPacketFails, GetRxBufferStatus, ReadBuffer,
           GetPacketStatus, Arm, Poll, PollInterrupt, Open, Stop, Kill, ReadSucceeds, ReadFails,
           Reading, Fault
  <1>5. QED
    BY <1>3, <1>4

\* The flags are cleared, or the command had no effect, which takes a fault.
LEMMA ClearEffect ==
    ASSUME TypeOK, ClearIrq
    PROVE  /\ chip' \in Chip
           /\ chip'.mode = chip.mode /\ chip'.air = chip.air
           /\ chip'.buffer = chip.buffer /\ chip'.start = chip.start /\ chip'.signal = chip.signal
           /\ \/ chip'.irq = {} /\ pc' \in {"setrx", "drop"} /\ faults' \in {faults, faults + 1}
              \/ chip'.irq = chip.irq /\ pc' \in {"setrx", "drop"} /\ faults' = faults + 1
  <1>1. chip \in Chip
    BY DEF TypeOK
  <1>2. CASE chip' = [chip EXCEPT !.irq = {}, !.status = "ok"]
    BY <1>1, <1>2, ClearedChip DEF ClearIrq, Command, Fault
  <1>3. CASE chip' \in {chip, [chip EXCEPT !.status = "rejected"]}
            /\ faults' = faults + 1 /\ pc' \in {"setrx", "drop"}
    BY <1>1, <1>3, StatusChip DEF OnlyStatus, SameContents
  <1>4. QED
    BY <1>2, <1>3 DEF ClearIrq, Command, Fault

\* SetRx, accepted, rejected or failed.
LEMMA SetRxEffect ==
    ASSUME TypeOK, SetRx
    PROVE  /\ chip' \in Chip
           /\ SameContents(chip, chip')
           /\ \/ chip'.mode = chip.mode /\ chip'.air = chip.air
              \/ chip'.mode = "rx" /\ chip'.air \in {chip.air, None}
           /\ pc' \in {Result(event), "drop"}
           /\ faults' = faults \/ faults' = faults + 1
  <1>1. chip \in Chip
    BY DEF TypeOK
  <1>2. chip' \in Receiving(chip) \/ chip' \in {chip, [chip EXCEPT !.status = "rejected"]}
    BY DEF SetRx, Command
  <1>3. /\ chip' \in Chip /\ SameContents(chip, chip')
        /\ \/ chip'.mode = chip.mode /\ chip'.air = chip.air
           \/ chip'.mode = "rx" /\ chip'.air \in {chip.air, None}
    <2>1. CASE chip' \in Receiving(chip)
      BY <1>1, <2>1, ReceivingChip
    <2>2. CASE chip' \in {chip, [chip EXCEPT !.status = "rejected"]}
      BY <1>1, <2>2, StatusChip DEF OnlyStatus, SameContents
    <2>3. QED
      BY <1>2, <2>1, <2>2
  <1>4. QED
    BY <1>3 DEF SetRx, Command, Fault

\* Drop leaves the radio in standby unless it refuses.
LEMMA DropEffect ==
    ASSUME TypeOK, Drop
    PROVE  /\ chip' \in Chip
           /\ SameContents(chip, chip')
           /\ \/ chip'.mode = chip.mode /\ chip'.air = chip.air
              \/ chip'.mode = "standby" /\ chip'.air = None
           /\ exit' = "refused" \/ ~ initialized \/ chip'.mode = "standby"
           /\ ~ initialized => chip' = chip
           /\ faults' = faults \/ faults' = faults + 1
  <1>1. chip \in Chip
    BY DEF TypeOK
  <1>2. chip' \in {chip, Standby(chip)} /\ (faults' = faults \/ faults' = faults + 1)
    BY DEF Drop, Fault
  <1>3. chip' \in Chip /\ SameContents(chip, chip')
    BY <1>1, <1>2, StandbyChip DEF SameContents
  <1>4. QED
    BY <1>1, <1>2, <1>3, StandbyChip DEF Drop

\* A reset that takes leaves nothing of an earlier process; one that does not is a fault.
LEMMA ResetEffect ==
    ASSUME TypeOK, HardwareReset
    PROVE  /\ chip' \in Chip
           /\ \/ chip'.mode = "standby" /\ chip'.air = None /\ chip'.irq = {}
                 /\ faults' \in {faults, faults + 1}
              \/ chip' = chip /\ faults' = faults + 1
           /\ pc' = "configure" => chip'.mode = "standby"
           /\ pc' \in {"configure", "drop"}
           /\ pc' = "configure" => initialized'
           /\ pc' = "drop" => initialized' = initialized
  <1>1. chip \in Chip
    BY DEF TypeOK
  <1>2. \/ chip' = ResetChip /\ faults' = faults
        \/ chip' \in {chip, [ResetChip EXCEPT !.device_errors = TRUE]} /\ faults' = faults + 1
    BY DEF HardwareReset, Fault
  <1>3. /\ chip' \in Chip
        /\ \/ chip'.mode = "standby" /\ chip'.air = None /\ chip'.irq = {}
              /\ faults' \in {faults, faults + 1}
           \/ chip' = chip /\ faults' = faults + 1
    BY <1>1, <1>2, ResetIsChip
  <1>4. CASE ensure_mode(chip', "standby")
    <2>1. chip'.mode = "standby"
      BY <1>4 DEF ensure_mode
    <2>2. pc' = "configure" /\ initialized'
      BY <1>4 DEF HardwareReset
    <2>3. QED
      BY <1>3, <2>1, <2>2
  <1>5. CASE ~ ensure_mode(chip', "standby")
    <2>1. pc' = "drop" /\ initialized' = initialized
      BY <1>5 DEF HardwareReset
    <2>2. QED
      BY <1>3, <2>1
  <1>6. QED
    BY <1>4, <1>5

\* A packet begins: its bytes go to the buffer.
LEMMA BeginEffect ==
    ASSUME TypeOK, NEW at \in Offset, BeginPacket(at)
    PROVE  /\ sent' = sent + 1 /\ sent' \in Packet /\ chip.air = None /\ chip.mode = "rx"
           /\ chip' \in Chip
           /\ chip'.mode = chip.mode /\ chip'.irq = chip.irq
           /\ chip'.start = chip.start /\ chip'.signal = chip.signal
           /\ chip'.air = [id |-> sent', at |-> at]
           /\ chip'.buffer[at] = sent'
           /\ \A o \in Offset : chip'.buffer[o] = chip.buffer[o] \/ chip'.buffer[o] = sent'
           /\ UNCHANGED <<process, faults, kills, opened, good, taken>>
  <1>1. /\ chip \in Chip /\ chip.air = None /\ chip.mode = "rx"
        /\ sent' = sent + 1 /\ sent' \in Packet
    BY Sx1262Assumption DEF TypeOK, BeginPacket, Hears, Packet
  <1>2. chip' = [chip EXCEPT !.air = [id |-> sent', at |-> at], !.buffer[at] = sent']
    BY DEF BeginPacket
  <1>3. UNCHANGED <<process, faults, kills, opened, good, taken>>
    BY DEF BeginPacket
  <1>4. /\ chip' \in Chip
        /\ chip'.mode = chip.mode /\ chip'.irq = chip.irq
        /\ chip'.start = chip.start /\ chip'.signal = chip.signal
        /\ chip'.air = [id |-> sent', at |-> at]
        /\ chip'.buffer[at] = sent'
        /\ \A o \in Offset : chip'.buffer[o] = chip.buffer[o] \/ chip'.buffer[o] = sent'
    BY <1>1, <1>2 DEF Chip
  <1>5. QED
    BY <1>1, <1>3, <1>4

\* A packet ends: the flags tell of it.
LEMMA EndEffect ==
    ASSUME TypeOK, NEW valid \in BOOLEAN, EndPacket(valid)
    PROVE  /\ chip.air # None /\ chip.air.id \in Packet /\ chip.air.at \in Offset
           /\ chip' \in Chip
           /\ chip'.mode = chip.mode
           /\ chip'.irq = chip.irq \cup {"RxDone"} \cup (IF valid THEN {} ELSE {"CrcError"})
           /\ chip'.buffer = chip.buffer
           /\ chip'.start = chip.air.at /\ chip'.signal = chip.air.id /\ chip'.air = None
           /\ edges' \in 0 .. EdgeQueue
           /\ Joins(chip.air.id)
           /\ good' = IF valid THEN good \cup {chip.air.id} ELSE good
           /\ UNCHANGED <<sent, armed, pc, setting, initialized, event, offset, packet, handed,
                          exit, faults, kills, opened, taken>>
  <1> DEFINE flags == {"RxDone"} \cup (IF valid THEN {} ELSE {"CrcError"})
             end == [chip EXCEPT !.irq = @ \cup flags,
                                 !.start = chip.air.at, !.signal = chip.air.id, !.air = None]
  <1>1. /\ chip \in Chip /\ chip.air # None /\ flags \in SUBSET Flag
        /\ chip.air.id \in Packet /\ chip.air.at \in Offset
    BY DEF TypeOK, EndPacket, Flag, Chip
  <1>2. chip' = [chip EXCEPT !.irq = @ \cup {"RxDone"} \cup (IF valid THEN {} ELSE {"CrcError"}),
                             !.start = chip.air.at, !.signal = chip.air.id, !.air = None]
    BY DEF EndPacket, Raise
  <1>3. chip.irq \cup {"RxDone"} \cup (IF valid THEN {} ELSE {"CrcError"}) = chip.irq \cup flags
    OBVIOUS
  <1>4. chip' = end
    BY <1>2, <1>3
  <1>5. /\ end \in Chip
        /\ end.mode = chip.mode /\ end.irq = chip.irq \cup flags /\ end.buffer = chip.buffer
        /\ end.start = chip.air.at /\ end.signal = chip.air.id /\ end.air = None
    BY <1>1, EndChip
  <1>6. edges' \in 0 .. EdgeQueue
    BY Sx1262Assumption DEF EndPacket, Raise, TypeOK
  <1>7. /\ Joins(chip.air.id)
        /\ good' = IF valid THEN good \cup {chip.air.id} ELSE good
        /\ UNCHANGED <<sent, armed, pc, setting, initialized, event, offset, packet, handed,
                       exit, faults, kills, opened, taken>>
    BY DEF EndPacket, Raise
  <1> HIDE DEF end, flags
  <1>8. chip'.irq = chip.irq \cup {"RxDone"} \cup (IF valid THEN {} ELSE {"CrcError"})
    BY <1>3, <1>4, <1>5
  <1>9. QED
    BY <1>1, <1>4, <1>5, <1>6, <1>7, <1>8

\* An error that is not about a packet sets its flag.
LEMMA FlagEffect ==
    ASSUME TypeOK, BadHeader \/ ChipTimeout
    PROVE  /\ sent' = sent + 1 /\ sent' \in Packet /\ chip.mode = "rx"
           /\ chip' \in Chip
           /\ chip'.mode = chip.mode /\ chip'.buffer = chip.buffer
           /\ chip'.start = chip.start /\ chip'.signal = chip.signal /\ chip'.air = chip.air
           /\ \E flag \in {"HeaderError", "Timeout"} : chip'.irq = chip.irq \cup {flag}
           /\ edges' \in 0 .. EdgeQueue
           /\ Joins(0)
           /\ UNCHANGED <<armed, pc, setting, initialized, event, offset, packet, handed,
                          exit, faults, kills, opened, good, taken>>
  <1>1. chip \in Chip /\ chip.mode = "rx" /\ sent' = sent + 1 /\ sent' \in Packet
    BY Sx1262Assumption DEF TypeOK, BadHeader, ChipTimeout, Hears, Packet
  <1>2. PICK flag \in {"HeaderError", "Timeout"} : chip' = [chip EXCEPT !.irq = @ \cup {flag}]
    BY DEF BadHeader, ChipTimeout, Raise
  <1>3. edges' \in 0 .. EdgeQueue
    BY Sx1262Assumption DEF BadHeader, ChipTimeout, Raise, TypeOK
  <1>4. /\ Joins(0)
        /\ UNCHANGED <<armed, pc, setting, initialized, event, offset, packet, handed,
                       exit, faults, kills, opened, good, taken>>
    BY DEF BadHeader, ChipTimeout, Raise
  <1>5. flag \in Flag
    BY DEF Flag
  <1>6. /\ chip' \in Chip
        /\ chip'.mode = chip.mode /\ chip'.buffer = chip.buffer
        /\ chip'.start = chip.start /\ chip'.signal = chip.signal /\ chip'.air = chip.air
        /\ chip'.irq = chip.irq \cup {flag}
    BY <1>1, <1>2, <1>5, FlagChip
  <1>7. QED
    BY <1>1, <1>3, <1>4, <1>6

-----------------------------------------------------------------------------
\* The Boolean variables.
Switches == armed \in BOOLEAN /\ initialized \in BOOLEAN /\ taken \in BOOLEAN

\* They stay Boolean.
LEMMA SwitchesStep ==
    ASSUME Switches, [Next]_vars
    PROVE  Switches'
  <1> USE DEF Switches
  <1>1. CASE HardwareReset
    BY <1>1, Zenon DEF HardwareReset, ForgetHistory
  <1>2. CASE Configure \/ VerifyReadback \/ ReadPacketFails \/ GetRxBufferStatus
            \/ ReadBuffer \/ GetPacketStatus \/ SetRx \/ Open \/ Stop
    BY <1>2, Zenon DEF Configure, VerifyReadback, ReadPacketFails, GetRxBufferStatus, ReadBuffer,
                       GetPacketStatus, SetRx, Open, Stop, history
  <1>3. CASE Arm \/ Poll \/ PollInterrupt
    BY <1>3, Zenon DEF Arm, Poll, PollInterrupt, Reading, history
  <1>4. CASE GetIrqStatus \/ ClearIrq
    BY <1>4, Zenon DEF GetIrqStatus, ClearIrq
  <1>5. CASE Drop \/ Kill
    BY <1>5, Zenon DEF Drop, Kill, history
  <1>6. CASE Radio
    BY <1>6, Zenon DEF Radio, BeginPacket, EndPacket, BadHeader, ChipTimeout, Raise, process
  <1>7. CASE UNCHANGED vars
    BY <1>7, Zenon DEF vars, process, history
  <1>8. QED
    BY <1>1, <1>2, <1>3, <1>4, <1>5, <1>6, <1>7 DEF Next, Driver

\* Every step keeps the types.
LEMMA TypeStep ==
    ASSUME TypeOK, HistoryOK, Control, ReadSound, [Next]_vars
    PROVE  TypeOK' /\ HistoryOK'
  <1> USE DEF TypeOK, HistoryOK
  <1>0. armed' \in BOOLEAN /\ initialized' \in BOOLEAN /\ taken' \in BOOLEAN
    <2>1. Switches'
      BY SwitchesStep DEF Switches
    <2>2. QED
      BY <2>1 DEF Switches
  <1>1. CASE HardwareReset
    <2>1. /\ chip' \in Chip /\ faults' \in Nat
          /\ pc' \in {"configure", "drop"}
      BY <1>1, ResetEffect
    <2>2. /\ setting' = 1 /\ opened' = sent
          /\ good' = {} /\ disturbed' = {}
          /\ UNCHANGED <<sent, edges, event, offset, packet, handed, exit>>
      BY <1>1 DEF HardwareReset, ForgetHistory
    <2>3. QED
      BY <1>0, <2>1, <2>2, SettingsCounted
  <1>2. CASE Configure
    BY <1>2, ConfigureEffect DEF Configure, history
  <1>3. CASE VerifyReadback \/ Arm \/ Poll \/ PollInterrupt
    <2>1. chip' \in Chip /\ faults' \in Nat
      BY <1>3, ReadEffect
    <2>2. /\ edges' \in 0 .. EdgeQueue
          /\ event' \in Kinds \cup {None}
          /\ pc' \in {"arm", "drop", "clear", "idle", "status", "wait"}
          /\ UNCHANGED <<sent, setting, offset, packet, handed, exit, opened, good, disturbed>>
      BY <1>3, Sx1262Assumption DEF VerifyReadback, Arm, Poll, PollInterrupt, Reading, history
    <2>3. QED
      BY <1>0, <2>1, <2>2
  <1>4. CASE GetIrqStatus
    <2>1. chip' \in Chip /\ faults' \in Nat
      BY <1>4, ReadEffect
    <2>2. chip.irq \in SUBSET Flag
      BY DEF Chip
    <2>3. event' \in Kinds \cup {None} /\ pc' \in {"length", "clear", "drop"}
      BY <1>4, <2>2, Classified DEF GetIrqStatus
    <2>4. UNCHANGED <<sent, edges, setting, offset, packet, handed, exit, opened, good, disturbed>>
      BY <1>4 DEF GetIrqStatus
    <2>5. QED
      BY <1>0, <2>1, <2>3, <2>4
  <1>5. CASE ReadPacketFails
    <2>1. chip' \in Chip /\ faults' \in Nat
      BY <1>5, ReadEffect
    <2>2. QED
      BY <2>1, <1>5 DEF ReadPacketFails, history, Kinds
  <1>6. CASE GetRxBufferStatus
    <2>1. chip' \in Chip /\ faults' \in Nat
      BY <1>6, ReadEffect
    <2>2. offset' \in Offset
      BY <1>6 DEF GetRxBufferStatus, Chip
    <2>3. QED
      BY <2>1, <2>2, <1>6 DEF GetRxBufferStatus, history
  <1>7. CASE ReadBuffer
    <2>1. chip' \in Chip /\ faults' \in Nat
      BY <1>7, ReadEffect
    <2>2. packet' \in RadioPacket
      BY <1>7 DEF ReadBuffer, ReadSound, RadioPacket
    <2>3. QED
      BY <2>1, <2>2, <1>7 DEF ReadBuffer, history
  <1>8. CASE GetPacketStatus
    <2>1. chip' \in Chip /\ faults' \in Nat
      BY <1>8, ReadEffect
    <2>2. packet \in RadioPacket /\ chip.signal \in Packet \cup {None}
      BY <1>8 DEF GetPacketStatus, ReadSound, Chip
    <2>3. packet' = [packet EXCEPT !.signal = chip.signal]
      BY <1>8 DEF GetPacketStatus
    <2>4. packet' \in RadioPacket
      BY <2>2, <2>3 DEF RadioPacket
    <2>5. QED
      BY <2>1, <2>4, <1>8 DEF GetPacketStatus, history
  <1>9. CASE ClearIrq
    <2>1. chip' \in Chip /\ faults' \in Nat /\ pc' \in {"setrx", "drop"}
      BY <1>9, ClearEffect
    <2>2. UNCHANGED <<sent, edges, setting, event, offset, packet, handed, exit, opened, good,
                      disturbed>>
      BY <1>9 DEF ClearIrq
    <2>3. QED
      BY <1>0, <2>1, <2>2
  <1>10. CASE SetRx
    <2>1. chip' \in Chip /\ faults' \in Nat /\ pc' \in {"idle", "drop"}
      BY <1>10, SetRxEffect DEF Result
    <2>2. handed' \in Seq(RadioPacket)
      BY <1>10, AppendProperties DEF SetRx, ReadSound, Restarting
    <2>3. QED
      BY <2>1, <2>2, <1>10 DEF SetRx, history
  <1>11. CASE Drop
    <2>1. chip' \in Chip /\ faults' \in Nat
      BY <1>11, DropEffect
    <2>2. /\ pc' = "closed" /\ edges' = 0 /\ exit' \in {"failed", "refused", exit}
          /\ UNCHANGED <<sent, setting, event, offset, packet, handed, opened, good, disturbed>>
      BY <1>11, NoneAssumption DEF Drop, history
    <2>3. QED
      BY <1>0, <2>1, <2>2, Sx1262Assumption
  <1>12. CASE Open \/ Stop \/ Kill
    <2>1. chip' \in Chip /\ faults' \in Nat
      BY <1>12, ReadEffect
    <2>2. /\ pc' \in {"reset", "drop", "closed"} /\ edges' \in {edges, 0}
          /\ exit' \in {None, "stopped", "killed"} /\ handed' \in {handed, <<>>}
          /\ UNCHANGED <<sent, setting, event, offset, packet, opened, good, disturbed>>
      BY <1>12 DEF Open, Stop, Kill, history
    <2>3. handed' \in Seq(RadioPacket)
      BY <2>2, EmptySeq
    <2>4. edges' \in 0 .. EdgeQueue
      BY <2>2, Sx1262Assumption
    <2>5. QED
      BY <1>0, <2>1, <2>2, <2>3, <2>4
  <1>13. CASE \E at \in Offset : BeginPacket(at)
    <2>1. PICK at \in Offset : BeginPacket(at)
      BY <1>13
    <2>2. /\ chip' \in Chip /\ sent' \in Packet
          /\ UNCHANGED <<process, faults, kills, opened, good, taken>>
      BY <2>1, BeginEffect
    <2>3. disturbed' \subseteq Packet
      BY <2>1 DEF BeginPacket
    <2>4. sent' \in 0 .. MaxPackets
      BY <2>2, Sx1262Assumption DEF Packet
    <2>5. QED
      BY <2>2, <2>3, <2>4 DEF process
  <1>14. CASE \E valid \in BOOLEAN : EndPacket(valid)
    <2>1. PICK valid \in BOOLEAN : EndPacket(valid)
      BY <1>14
    <2>2. disturbed' \subseteq Packet /\ good' \subseteq Packet
      BY <2>1, EndEffect DEF Joins
    <2>3. QED
      BY <2>1, <2>2, EndEffect
  <1>15. CASE BadHeader \/ ChipTimeout
    <2>1. disturbed' \subseteq Packet
      BY <1>15, FlagEffect DEF Joins
    <2>2. sent' \in Packet
      BY <1>15, FlagEffect
    <2>3. sent' \in 0 .. MaxPackets
      BY <2>2, Sx1262Assumption DEF Packet
    <2>4. QED
      BY <1>15, <2>1, <2>3, FlagEffect
  <1>16. CASE UNCHANGED vars
    BY <1>16 DEF vars, process, history
  <1>17. QED
    BY <1>1, <1>2, <1>3, <1>4, <1>5, <1>6, <1>7, <1>8, <1>9, <1>10, <1>11, <1>12, <1>13, <1>14,
       <1>15, <1>16 DEF Next, Driver, Radio

\* Every step keeps the place in the program sound, and an exit leaves the radio in standby.
LEMMA ControlStep ==
    ASSUME IInv, [Next]_vars
    PROVE  Control' /\ LeftInStandby'
  <1> USE DEF Control, LeftInStandby, Active, InPacket
  <1>0. TypeOK /\ Control /\ LeftInStandby /\ TypeOK'
    BY TypeStep DEF IInv
  <1>1. CASE HardwareReset
    <2>1. /\ pc' \in {"configure", "drop"} /\ setting' = 1 /\ exit' = exit /\ handed' = handed
          /\ pc = "reset"
      BY <1>1, ResetEffect, <1>0 DEF HardwareReset
    <2>2. pc' = "configure" => initialized'
      BY <1>1, ResetEffect, <1>0
    <2>3. QED
      BY <1>0, <2>1, <2>2, SettingsCounted
  <1>2. CASE Configure
    BY <1>0, <1>2, ConfigureEffect DEF Configure
  <1>3. CASE VerifyReadback \/ Arm \/ Poll \/ PollInterrupt \/ Stop
    BY <1>0, <1>3 DEF VerifyReadback, Arm, Poll, PollInterrupt, Reading, Stop
  <1>4. CASE GetIrqStatus \/ ReadPacketFails \/ GetRxBufferStatus \/ ReadBuffer \/ GetPacketStatus
    BY <1>0, <1>4 DEF GetIrqStatus, ReadPacketFails, GetRxBufferStatus, ReadBuffer, GetPacketStatus
  <1>5. CASE ClearIrq
    <2>1. /\ pc' \in {"setrx", "drop"} /\ pc = "clear"
          /\ UNCHANGED <<initialized, exit>>
      BY <1>0, <1>5, ClearEffect DEF ClearIrq
    <2>2. QED
      BY <1>0, <2>1
  <1>6. CASE SetRx
    <2>1. /\ pc' \in {"idle", "drop"} /\ pc = "setrx" /\ event' = None
          /\ UNCHANGED <<initialized, exit>>
      BY <1>0, <1>6, SetRxEffect DEF SetRx, Result
    <2>2. QED
      BY <1>0, <2>1
  <1>7. CASE Drop
    <2>1. /\ pc' = "closed" /\ pc = "drop" /\ setting' = setting
          /\ exit' = "refused" \/ ~ initialized \/ chip'.mode = "standby"
      BY <1>0, <1>7, DropEffect DEF Drop
    <2>2. QED
      BY <1>0, <2>1
  <1>8. CASE Open \/ Kill
    BY <1>0, <1>8 DEF Open, Kill
  <1>9. CASE Radio
    <2>1. /\ chip'.mode = chip.mode
          /\ UNCHANGED <<pc, setting, initialized, exit, event, handed>>
      BY <1>0, <1>9, BeginEffect, EndEffect, FlagEffect DEF Radio, process
    <2>2. QED
      BY <1>0, <2>1
  <1>10. CASE UNCHANGED vars
    BY <1>0, <1>10 DEF vars, process
  <1>11. QED
    BY <1>1, <1>2, <1>3, <1>4, <1>5, <1>6, <1>7, <1>8, <1>9, <1>10 DEF Next, Driver

\* Every step keeps the radio sound.
LEMMA RadioStep ==
    ASSUME IInv, [Next]_vars
    PROVE  RadioSound'
  <1> USE DEF RadioSound
  <1>0. /\ TypeOK /\ HistoryOK /\ Control /\ RadioSound
        /\ opened \in Nat /\ sent \in Nat /\ chip \in Chip
    BY DEF IInv, TypeOK, HistoryOK
  <1>1. CASE HardwareReset
    <2>1. opened' = sent /\ sent' = sent
      BY <1>1 DEF HardwareReset, ForgetHistory
    <2>2. \/ chip'.mode = "standby" /\ chip'.air = None /\ chip'.irq = {}
          \/ chip' = chip
      BY <1>0, <1>1, ResetEffect
    <2>3. QED
      BY <1>0, <2>1, <2>2
  <1>2. CASE Configure \/ SetRx \/ Drop
    <2>1. /\ SameContents(chip, chip')
          /\ \/ chip'.mode = chip.mode /\ chip'.air = chip.air
             \/ chip'.mode = "standby" /\ chip'.air = None
             \/ chip'.mode = "rx" /\ chip'.air \in {chip.air, None}
      BY <1>0, <1>2, ConfigureEffect, SetRxEffect, DropEffect
    <2>2. UNCHANGED <<sent, opened>>
      BY <1>2 DEF Configure, SetRx, Drop, history
    <2>3. QED
      BY <1>0, <2>1, <2>2 DEF SameContents
  <1>3. CASE VerifyReadback \/ GetIrqStatus \/ ReadPacketFails \/ GetRxBufferStatus \/ ReadBuffer
              \/ GetPacketStatus \/ Arm \/ Poll \/ PollInterrupt \/ Open \/ Stop \/ Kill
    <2>1. OnlyStatus(chip, chip')
      BY <1>0, <1>3, ReadEffect
    <2>2. UNCHANGED <<sent, opened>>
      BY <1>3 DEF VerifyReadback, GetIrqStatus, ReadPacketFails, GetRxBufferStatus, ReadBuffer,
                  GetPacketStatus, Arm, Poll, PollInterrupt, Open, Stop, Kill, Reading, history
    <2>3. QED
      BY <1>0, <2>1, <2>2 DEF OnlyStatus, SameContents
  <1>4. CASE ClearIrq
    <2>1. UNCHANGED <<sent, opened>>
      BY <1>4 DEF ClearIrq
    <2>2. /\ chip'.mode = chip.mode /\ chip'.air = chip.air
          /\ chip'.buffer = chip.buffer /\ chip'.start = chip.start /\ chip'.signal = chip.signal
          /\ chip'.irq \in {{}, chip.irq}
      BY <1>0, <1>4, ClearEffect
    <2>3. QED
      BY <1>0, <2>1, <2>2
  <1>5. CASE \E at \in Offset : BeginPacket(at)
    <2>1. PICK at \in Offset : BeginPacket(at)
      BY <1>5
    <2>2. /\ sent' = sent + 1 /\ sent' \in Packet /\ chip.mode = "rx"
          /\ chip'.mode = chip.mode /\ chip'.irq = chip.irq
          /\ chip'.start = chip.start /\ chip'.signal = chip.signal
          /\ chip'.air = [id |-> sent', at |-> at]
          /\ chip'.buffer[at] = sent'
          /\ \A o \in Offset : chip'.buffer[o] = chip.buffer[o] \/ chip'.buffer[o] = sent'
          /\ opened' = opened
      BY <1>0, <2>1, BeginEffect
    <2>3. chip.start \in Offset /\ sent' <= sent'
      BY <1>0, <2>2 DEF Chip
    <2>4. QED
      BY <1>0, <2>2, <2>3
  <1>6. CASE \E valid \in BOOLEAN : EndPacket(valid)
    <2>1. PICK valid \in BOOLEAN : EndPacket(valid)
      BY <1>6
    <2>2. /\ chip.air # None /\ chip.air.id \in Packet
          /\ chip'.mode = chip.mode
          /\ chip'.buffer = chip.buffer
          /\ chip'.start = chip.air.at /\ chip'.signal = chip.air.id /\ chip'.air = None
          /\ UNCHANGED <<sent, opened>>
      BY <1>0, <2>1, EndEffect
    <2>3. QED
      BY <1>0, <2>2
  <1>7. CASE BadHeader \/ ChipTimeout
    <2>1. /\ sent' = sent + 1
          /\ chip'.mode = chip.mode /\ chip'.buffer = chip.buffer
          /\ chip'.start = chip.start /\ chip'.signal = chip.signal /\ chip'.air = chip.air
          /\ opened' = opened
      BY <1>0, <1>7, FlagEffect
    <2>2. "RxDone" \in chip'.irq => "RxDone" \in chip.irq
      BY <1>0, <1>7, FlagEffect
    <2>3. chip.air # None => chip.air.id \in Nat
      BY <1>0 DEF Chip, Packet
    <2>4. QED
      BY <1>0, <2>1, <2>2, <2>3
  <1>8. CASE UNCHANGED vars
    BY <1>0, <1>8 DEF vars, history
  <1>9. QED
    BY <1>1, <1>2, <1>3, <1>4, <1>5, <1>6, <1>7, <1>8 DEF Next, Driver, Radio

\* While the radio is set up it receives nothing.
LEMMA RadioIsQuiet ==
    ASSUME IInv, Radio
    PROVE  ~ Starting
  <1>1. TypeOK
    BY DEF IInv
  <1>2. chip.mode = "rx" \/ chip.air # None
    BY <1>1, BeginEffect, EndEffect, FlagEffect DEF Radio
  <1>3. QED
    BY <1>2 DEF IInv, StartsQuiet, RadioSound

\* What the radio does to the variables of the driver: nothing but to queue an edge.  Its flags and
\* the packets in its buffer only become more.
LEMMA RadioEffect ==
    ASSUME TypeOK, Radio
    PROVE  /\ UNCHANGED <<armed, pc, setting, initialized, event, offset, packet, handed, exit,
                          faults, opened, taken>>
           /\ chip.irq \subseteq chip'.irq
           /\ \A o \in Offset : chip.buffer[o] \in Packet => chip'.buffer[o] \in Packet
  <1>1. CASE \E at \in Offset : BeginPacket(at)
    BY <1>1, BeginEffect DEF process
  <1>2. CASE \E valid \in BOOLEAN : EndPacket(valid)
    <2>1. PICK valid \in BOOLEAN : EndPacket(valid)
      BY <1>2
    <2>2. QED
      BY <2>1, EndEffect
  <1>3. CASE BadHeader \/ ChipTimeout
    BY <1>3, FlagEffect
  <1>4. QED
    BY <1>1, <1>2, <1>3 DEF Radio

\* Every step keeps what has been read of a packet sound.
LEMMA ReadStep ==
    ASSUME IInv, [Next]_vars
    PROVE  ReadSound'
  <1> USE DEF ReadSound, InPacket, Restarting
  <1>0. /\ TypeOK /\ HistoryOK /\ Control /\ RadioSound /\ ReadSound /\ TypeOK'
        /\ chip \in Chip /\ offset \in Offset /\ event \in Kinds \cup {None}
    BY TypeStep DEF IInv, TypeOK
  <1>1. CASE HardwareReset \/ Configure \/ VerifyReadback \/ Drop \/ Open \/ Stop \/ Kill
    <2>1. pc' \in {"configure", "verify", "arm", "drop", "closed", "reset"}
      BY <1>0, <1>1, ResetEffect, ConfigureEffect DEF VerifyReadback, Drop, Open, Stop, Kill
    <2>2. QED
      BY <2>1
  <1>2. CASE Arm \/ Poll \/ PollInterrupt \/ SetRx
    <2>1. \/ pc' \in {"idle", "wait", "status", "drop"}
          \/ pc' = "clear" /\ event' = None
      BY <1>0, <1>2, SetRxEffect DEF Arm, Poll, PollInterrupt, Result
    <2>2. QED
      BY <2>1, NoneAssumption DEF Kinds
  <1>3. CASE GetIrqStatus
    <2>1. chip.irq \in SUBSET Flag /\ OnlyStatus(chip, chip')
      BY <1>0, <1>3, ReadEffect DEF Chip
    <2>2. \/ pc' = "drop"
          \/ pc' = "clear" /\ event' # "Packet"
          \/ pc' = "length" /\ event' = "Packet" /\ event' = classify_irq(chip.irq)
      BY <1>3 DEF GetIrqStatus
    <2>3. pc' = "length" => "RxDone" \in chip'.irq
      BY <2>1, <2>2, Classified DEF OnlyStatus, SameContents
    <2>4. QED
      BY <2>2, <2>3
  <1>4. CASE ReadPacketFails
    BY <1>4 DEF ReadPacketFails
  <1>5. CASE GetRxBufferStatus \/ ReadBuffer
    <2>1. OnlyStatus(chip, chip')
      BY <1>0, <1>5, ReadEffect
    <2>2. CASE GetRxBufferStatus
      BY <1>0, <2>1, <2>2 DEF GetRxBufferStatus, OnlyStatus, SameContents, RadioSound
    <2>3. CASE ReadBuffer
      <3>1. /\ packet' = [id |-> chip.buffer[offset], signal |-> None,
                          whole |-> chip.air = None \/ chip.air.at # offset]
            /\ pc = "buffer" /\ pc' = "signal"
        BY <2>3 DEF ReadBuffer
      <3>2. packet' \in RadioPacket
        BY <1>0, <3>1 DEF RadioPacket
      <3>3. QED
        BY <1>0, <2>1, <3>1, <3>2 DEF OnlyStatus, SameContents
    <2>4. QED
      BY <1>5, <2>2, <2>3
  <1>6. CASE GetPacketStatus
    <2>1. /\ packet \in RadioPacket /\ chip.signal \in Packet
          /\ packet' = [packet EXCEPT !.signal = chip.signal] /\ pc' = "clear"
      BY <1>0, <1>6 DEF GetPacketStatus, RadioSound
    <2>2. packet' \in RadioPacket /\ packet'.signal \in Packet
      BY <2>1 DEF RadioPacket
    <2>3. QED
      BY <2>1, <2>2
  <1>7. CASE ClearIrq
    <2>1. /\ pc' \in {"setrx", "drop"} /\ pc = "clear"
          /\ UNCHANGED <<event, packet>>
      BY <1>0, <1>7, ClearEffect DEF ClearIrq
    <2>2. QED
      BY <1>0, <2>1
  <1>8. CASE Radio
    BY <1>0, <1>8, RadioEffect
  <1>9. CASE UNCHANGED vars
    BY <1>0, <1>9 DEF vars, process
  <1>10. QED
    BY <1>1, <1>2, <1>3, <1>4, <1>5, <1>6, <1>7, <1>8, <1>9 DEF Next, Driver

\* Until the receiver is armed nothing has been received, short of two faults.
LEMMA QuietStep ==
    ASSUME IInv, [Next]_vars
    PROVE  StartsQuiet'
  <1> USE DEF StartsQuiet, Starting, InPacket
  <1>0. /\ TypeOK /\ HistoryOK /\ Control /\ RadioSound /\ StartsQuiet /\ faults \in Nat
        /\ chip \in Chip /\ event \in Kinds \cup {None}
    BY DEF IInv, TypeOK, HistoryOK
  <1>1. CASE HardwareReset
    <2>1. /\ pc' \in {"configure", "drop"}
          /\ pc' = "configure" => chip'.mode = "standby"
          /\ faults' = 0 => chip'.irq = {}
      BY <1>0, <1>1, ResetEffect
    <2>2. good' = {} /\ disturbed' = {} /\ turn' = {} /\ ~ taken'
      BY <1>1 DEF HardwareReset, ForgetHistory
    <2>3. QED
      BY <2>1, <2>2
  <1>2. CASE Configure
    <2>1. /\ pc' \in {"configure", "verify", "drop"} /\ pc = "configure"
          /\ chip'.mode = chip.mode \/ chip'.mode = "standby"
          /\ chip'.irq = chip.irq
          /\ faults' = 0 => faults = 0
      BY <1>0, <1>2, ConfigureEffect DEF SameContents, Configure
    <2>2. UNCHANGED <<good, disturbed, turn, taken>>
      BY <1>2 DEF Configure, history
    <2>3. QED
      BY <1>0, <2>1, <2>2
  <1>3. CASE VerifyReadback \/ Arm
    <2>1. /\ OnlyStatus(chip, chip')
          /\ faults' = 0 => faults = 0
      BY <1>0, <1>3, ReadEffect
    <2>2. /\ pc \in {"verify", "arm"}
          /\ pc' \in {"arm", "drop"} \/ (pc' = "clear" /\ event' = None)
          /\ UNCHANGED <<good, disturbed, turn, taken>>
      BY <1>3 DEF VerifyReadback, Arm, history
    <2>3. QED
      BY <1>0, <2>1, <2>2 DEF OnlyStatus, SameContents
  <1>4. CASE Poll \/ PollInterrupt \/ SetRx \/ ClearIrq \/ Drop \/ Open \/ Stop \/ Kill
    <2>1. pc' \in {"idle", "wait", "status", "drop", "closed", "reset", "setrx"}
      BY <1>0, <1>4, SetRxEffect, ClearEffect DEF Poll, PollInterrupt, Drop, Open, Stop, Kill, Result
    <2>2. QED
      BY <2>1
  <1>5. CASE GetIrqStatus
    <2>1. chip.irq \in SUBSET Flag
      BY <1>0 DEF Chip
    <2>2. pc' = "drop" \/ (pc' \in {"length", "clear"} /\ taken' /\ event' = classify_irq(chip.irq))
      BY <1>5 DEF GetIrqStatus
    <2>3. pc' = "drop" \/ (pc' \in {"length", "clear"} /\ taken' /\ event' # None)
      BY <2>1, <2>2, Classified, NoneAssumption
    <2>4. QED
      BY <2>3
  <1>6. CASE ReadPacketFails \/ GetRxBufferStatus \/ ReadBuffer \/ GetPacketStatus
    <2>1. /\ pc \in {"length", "buffer", "signal"} /\ pc' \in {"buffer", "signal", "clear"}
          /\ event' \in {"Error", event} /\ taken' = taken
      BY <1>6 DEF ReadPacketFails, GetRxBufferStatus, ReadBuffer, GetPacketStatus, history
    <2>2. event' # None
      BY <1>0, <2>1, NoneAssumption DEF Control, Kinds
    <2>3. QED
      BY <1>0, <2>1, <2>2
  <1>7. CASE Radio
    <2>1. ~ Starting
      BY <1>7, RadioIsQuiet
    <2>2. UNCHANGED <<pc, event, taken>>
      BY <1>0, <1>7, RadioEffect
    <2>3. QED
      BY <1>0, <2>1, <2>2
  <1>8. CASE UNCHANGED vars
    BY <1>0, <1>8 DEF vars, process, history
  <1>9. QED
    BY <1>1, <1>2, <1>3, <1>4, <1>5, <1>6, <1>7, <1>8 DEF Next, Driver

-----------------------------------------------------------------------------
(***************************************************************************)
(* The driver and the packets.                                             *)
(***************************************************************************)
\* The three parts of Receives, for the step lemmas.
Located == \A n \in good \ disturbed : Whereabouts(n)

\* Receives is the conjunction of its parts.
LEMMA ReceivesParts ==
    Receives <=> (Active /\ ~ Starting => TurnSound /\ PacketSound /\ Located)
  BY DEF Receives, Located

\* ... and so after a step.
LEMMA ReceivesPartsNext ==
    Receives' <=> (Active' /\ ~ Starting' => TurnSound' /\ PacketSound' /\ Located')
  BY DEF Receives, Located

\* Waiting for DIO1 changes nothing but the place in the program.
LEMMA WaitReceives ==
    ASSUME IInv, Receives, Poll \/ PollInterrupt
    PROVE  Receives'
  <1>1. /\ pc \in {"idle", "wait"} /\ pc' \in {"idle", "wait", "status"}
        /\ UNCHANGED <<chip, sent, event, offset, packet, handed, opened, good, disturbed, turn, taken>>
    BY DEF Poll, PollInterrupt, Reading, history
  <1>2. TurnSound /\ PacketSound /\ Located
    BY <1>1, ReceivesParts DEF Active, Starting
  <1>3. TurnSound'
    BY <1>1, <1>2 DEF TurnSound, Alone
  <1>4. PacketSound'
    BY <1>1 DEF PacketSound, InPacket, Restarting
  <1>5. Located'
    BY <1>1, <1>2 DEF Located, Whereabouts, InPacket, Restarting, Alone
  <1>6. QED
    BY <1>3, <1>4, <1>5, ReceivesPartsNext

\* The flags are read: what they tell of as a packet is alone in its turn, or disturbed.
LEMMA StatusReceives ==
    ASSUME IInv, Receives, GetIrqStatus
    PROVE  Receives'
  <1>0. TypeOK /\ chip \in Chip
    BY DEF IInv, TypeOK
  <1>1. /\ pc = "status" /\ OnlyStatus(chip, chip')
        /\ UNCHANGED <<sent, offset, packet, handed, opened, good, disturbed, turn>>
    BY <1>0, ReadEffect DEF GetIrqStatus
  <1>2. TurnSound /\ PacketSound /\ Located
    BY <1>1, ReceivesParts DEF Active, Starting
  <1>3. CASE pc' = "drop"
    BY <1>3 DEF Receives, Active
  <1>4. CASE pc' # "drop"
    <2>1. /\ event' = classify_irq(chip.irq) /\ chip' = chip
          /\ pc' = IF event' = "Packet" THEN "length" ELSE "clear"
      BY <1>4 DEF GetIrqStatus, ReadSucceeds
    <2>2. chip.irq \in SUBSET Flag
      BY <1>0 DEF Chip
    <2>3. /\ pc' = "length" => "RxDone" \in chip.irq /\ "CrcError" \notin chip.irq
          /\ chip.irq = {"RxDone"} => pc' = "length"
      BY <2>1, <2>2, Classified
    <2>4. TurnSound'
      BY <1>1, <1>2, <2>1 DEF TurnSound, Alone
    <2>5. PacketSound'
      BY <1>1, <1>2, <2>1, <2>3 DEF TurnSound, PacketSound, Alone, InPacket, Restarting
    <2>6. Located'
      <3> SUFFICES ASSUME NEW n \in good \ disturbed
                   PROVE  Whereabouts(n)'
        BY <1>1 DEF Located
      <3>1. Whereabouts(n)
        BY <1>2 DEF Located
      <3>2. CASE \E i \in DOMAIN handed : handed[i] = [id |-> n, whole |-> TRUE, signal |-> n]
        BY <3>2, <1>1 DEF Whereabouts
      <3>3. CASE chip.irq = {"RxDone"} /\ Alone(n)
        BY <3>3, <2>1, <2>3 DEF Whereabouts, Alone, InPacket
      <3>4. QED
        BY <3>1, <3>2, <3>3, <1>1 DEF Whereabouts, InPacket, Restarting
    <2>7. QED
      BY <2>4, <2>5, <2>6, ReceivesPartsNext
  <1>5. QED
    BY <1>3, <1>4

\* read_packet failed: the process ends after reception is restarted.
LEMMA FailReceives ==
    ASSUME IInv, Receives, ReadPacketFails
    PROVE  Receives'
  <1>0. TypeOK
    BY DEF IInv
  <1>1. /\ InPacket /\ pc' = "clear" /\ event' = "Error" /\ OnlyStatus(chip, chip')
        /\ UNCHANGED <<sent, opened, good, disturbed, turn>>
    BY <1>0, ReadEffect DEF ReadPacketFails, InPacket, history
  <1>2. TurnSound
    BY <1>1, ReceivesParts DEF Active, Starting, InPacket
  <1>3. TurnSound'
    BY <1>1, <1>2 DEF TurnSound, Alone, OnlyStatus, SameContents
  <1>4. PacketSound'
    BY <1>1 DEF PacketSound, InPacket, Restarting
  <1>5. Located'
    BY <1>1 DEF Located, Whereabouts, Restarting
  <1>6. QED
    BY <1>3, <1>4, <1>5, ReceivesPartsNext

\* The three reads of read_packet.
LEMMA ReadReceives ==
    ASSUME IInv, Receives, GetRxBufferStatus \/ ReadBuffer \/ GetPacketStatus
    PROVE  Receives'
  <1>0. TypeOK /\ ReadSound /\ Control /\ "RxDone" \in chip.irq
    BY DEF IInv, ReadSound, InPacket, GetRxBufferStatus, ReadBuffer, GetPacketStatus
  <1>1. /\ InPacket /\ OnlyStatus(chip, chip') /\ event' = event /\ event = "Packet"
        /\ UNCHANGED <<sent, handed, opened, good, disturbed, turn, taken>>
    BY <1>0, ReadEffect DEF GetRxBufferStatus, ReadBuffer, GetPacketStatus, InPacket, Control, history
  <1>2. TurnSound /\ PacketSound /\ Located
    BY <1>1, ReceivesParts DEF Active, Starting, InPacket
  <1>3. TurnSound'
    BY <1>1, <1>2 DEF TurnSound, Alone, OnlyStatus, SameContents
  <1>4. CASE GetRxBufferStatus
    <2>1. pc = "length" /\ pc' = "buffer" /\ offset' = chip.start
      BY <1>4 DEF GetRxBufferStatus
    <2>2. PacketSound'
      BY <1>0, <1>1, <1>2, <2>1 DEF PacketSound, TurnSound, Alone, InPacket, Restarting, OnlyStatus,
                              SameContents
    <2>3. Located'
      BY <1>1, <1>2, <2>1 DEF Located, Whereabouts, Alone, InPacket, Restarting, OnlyStatus,
                              SameContents
    <2>4. QED
      BY <1>3, <2>2, <2>3, ReceivesPartsNext
  <1>5. CASE ReadBuffer
    <2>1. /\ pc = "buffer" /\ pc' = "signal" /\ packet'.id = chip.buffer[offset]
          /\ packet'.whole = (chip.air = None \/ chip.air.at # offset)
      BY <1>5 DEF ReadBuffer
    <2>2. PacketSound'
      BY <1>0, <1>1, <1>2, <2>1 DEF PacketSound, TurnSound, Alone, InPacket, Restarting, OnlyStatus,
                              SameContents
    <2>3. Located'
      BY <1>1, <1>2, <2>1 DEF Located, Whereabouts, Alone, InPacket, Restarting, OnlyStatus,
                              SameContents
    <2>4. QED
      BY <1>3, <2>2, <2>3, ReceivesPartsNext
  <1>6. CASE GetPacketStatus
    <2>1. /\ pc = "signal" /\ pc' = "clear" /\ packet \in RadioPacket
          /\ packet' = [packet EXCEPT !.signal = chip.signal]
      BY <1>0, <1>6 DEF GetPacketStatus, ReadSound
    <2>2. packet' = [id |-> packet.id, whole |-> packet.whole, signal |-> chip.signal]
      BY <2>1 DEF RadioPacket
    <2>3. PacketSound'
      BY <1>0, <1>1, <1>2, <2>1, <2>2 DEF PacketSound, TurnSound, Alone, InPacket, Restarting
    <2>4. Located'
      <3> SUFFICES ASSUME NEW n \in good \ disturbed
                   PROVE  Whereabouts(n)'
        BY <1>1 DEF Located
      <3>1. Whereabouts(n)
        BY <1>2 DEF Located
      <3>2. CASE InPacket /\ chip.signal = n
        <4>1. packet.id = n /\ packet.whole
          BY <3>2, <1>1, <1>2, <2>1 DEF PacketSound, InPacket
        <4>2. packet.whole = TRUE
          BY <4>1, <2>1 DEF RadioPacket
        <4>3. packet' = [id |-> n, whole |-> TRUE, signal |-> n]
          BY <4>1, <4>2, <3>2, <2>2
        <4>4. QED
          BY <4>3, <2>1, <1>1 DEF Whereabouts, Restarting
      <3>3. CASE chip.irq = {"RxDone"} /\ ~ taken /\ Alone(n)
        BY <3>3, <1>1 DEF Whereabouts, Alone, OnlyStatus, SameContents
      <3>4. QED
        BY <3>1, <3>2, <3>3, <1>1, <2>1 DEF Whereabouts, InPacket, Restarting
    <2>5. QED
      BY <1>3, <2>3, <2>4, ReceivesPartsNext
  <1>7. QED
    BY <1>4, <1>5, <1>6

\* Clearing the flags ends the turn of all but the packet on the air.  The flags that are read are
\* the ones of a packet in hand, so nothing waits to be read.
LEMMA ClearReceives ==
    ASSUME IInv, faults' <= 1, Starting \/ Receives, ClearIrq
    PROVE  Receives'
  <1>0. TypeOK /\ HistoryOK /\ RadioSound /\ StartsQuiet /\ chip \in Chip /\ faults \in Nat
    BY DEF IInv, TypeOK, HistoryOK
  <1>1. /\ pc = "clear" /\ pc' \in {"setrx", "drop"}
        /\ chip'.air = chip.air /\ chip'.buffer = chip.buffer
        /\ chip'.start = chip.start /\ chip'.signal = chip.signal
        /\ \/ chip'.irq = {} /\ faults' \in {faults, faults + 1}
           \/ chip'.irq = chip.irq /\ faults' = faults + 1
        /\ UNCHANGED <<sent, event, packet, handed, opened, good, disturbed>>
    BY <1>0, ClearEffect DEF ClearIrq
  <1>2. CASE pc' = "drop"
    BY <1>2 DEF Receives, Active
  <1>3. CASE pc' = "setrx" /\ Starting
    <2>1. /\ chip.air = None /\ good = {} /\ turn = {} /\ event = None
          /\ faults = 0 => chip.irq = {}
      BY <1>0, <1>1, <1>3 DEF StartsQuiet, RadioSound, Starting
    <2>2. chip'.irq = {}
      BY <1>0, <1>1, <2>1
    <2>3. turn' = {}
      BY <2>1, <2>2 DEF ClearIrq, Dio1High
    <2>4. TurnSound'
      BY <1>1, <2>1, <2>2, <2>3 DEF TurnSound
    <2>5. PacketSound'
      BY <1>1, <1>3, <2>1, NoneAssumption DEF PacketSound, InPacket, Restarting, Kinds
    <2>6. Located'
      BY <1>1, <2>1 DEF Located
    <2>7. QED
      BY <2>4, <2>5, <2>6, ReceivesPartsNext
  <1>4. CASE pc' = "setrx" /\ ~ Starting
    <2>1. TurnSound /\ PacketSound /\ Located
      BY <1>1, <1>4, ReceivesParts DEF Active
    <2>2. taken
      BY <1>0, <1>1, <1>4 DEF StartsQuiet, Starting
    <2>3. PacketSound'
      BY <1>1, <1>4, <2>1 DEF PacketSound, InPacket, Restarting
    <2>4. Located'
      BY <1>1, <1>4, <2>1, <2>2 DEF Located, Whereabouts, InPacket, Restarting
    <2>5. TurnSound'
      <3>1. CASE chip'.irq = {}
        <4>1. turn' = IF chip.air = None THEN {} ELSE {chip.air.id}
          BY <3>1 DEF ClearIrq, Dio1High
        <4>2. chip.air # None => chip.air.id \in turn /\ chip.air.id > opened /\ turn \subseteq 0 .. sent
          BY <2>1 DEF TurnSound
        <4>3. QED
          BY <1>1, <3>1, <4>1, <4>2 DEF TurnSound
      <3>2. CASE chip'.irq # {}
        <4>1. turn' = turn /\ chip'.irq = chip.irq
          BY <3>2, <1>1 DEF ClearIrq, Dio1High
        <4>2. QED
          BY <1>1, <2>1, <4>1 DEF TurnSound, Alone
      <3>3. QED
        BY <3>1, <3>2
    <2>6. QED
      BY <2>3, <2>4, <2>5, ReceivesPartsNext
  <1>5. QED
    BY <1>1, <1>2, <1>3, <1>4

\* poll_receive returns: the packet in hand is handed over.
LEMMA SetRxReceives ==
    ASSUME IInv, Receives, SetRx
    PROVE  Receives'
  <1>0. TypeOK /\ ReadSound /\ handed \in Seq(RadioPacket)
    BY DEF IInv, TypeOK
  <1>1. /\ pc = "setrx" /\ event' = None
        /\ SameContents(chip, chip')
        /\ chip'.air \in {chip.air, None}
        /\ pc' \in {"idle", "drop"}
        /\ event = "Error" => pc' = "drop"
        /\ UNCHANGED <<sent, opened, good, disturbed, turn, taken>>
    BY <1>0, SetRxEffect DEF SetRx, Result, history
  <1>2. TurnSound /\ PacketSound /\ Located
    BY <1>1, ReceivesParts DEF Active, Starting
  <1>3. CASE pc' = "drop"
    BY <1>3 DEF Receives, Active
  <1>4. CASE pc' = "idle"
    <2>1. TurnSound'
      BY <1>1, <1>2 DEF TurnSound, Alone, SameContents
    <2>2. PacketSound'
      BY <1>4 DEF PacketSound, InPacket, Restarting
    <2>3. Located'
      <3> SUFFICES ASSUME NEW n \in good \ disturbed
                   PROVE  Whereabouts(n)'
        BY <1>1 DEF Located
      <3>1. Whereabouts(n)
        BY <1>2 DEF Located
      <3>2. CASE \E i \in DOMAIN handed : handed[i] = [id |-> n, whole |-> TRUE, signal |-> n]
        <4>1. PICK i \in DOMAIN handed : handed[i] = [id |-> n, whole |-> TRUE, signal |-> n]
          BY <3>2
        <4>2. handed' = handed \/ (event = "Packet" /\ handed' = Append(handed, packet))
          BY DEF SetRx
        <4>3. event = "Packet" => packet \in RadioPacket
          BY <1>0, <1>1 DEF ReadSound, Restarting
        <4>4. i \in DOMAIN handed' /\ handed'[i] = handed[i]
          <5>1. CASE handed' = handed
            BY <5>1, <4>1
          <5>2. CASE event = "Packet" /\ handed' = Append(handed, packet)
            <6>1. packet \in RadioPacket /\ i \in 1 .. Len(handed) /\ Len(handed) \in Nat
              BY <5>2, <4>1, <4>3, <1>0
            <6>2. DOMAIN handed' = 1 .. Len(handed) + 1
              BY <5>2, <6>1, <1>0, AppendProperties
            <6>3. QED
              BY <5>2, <6>1, <6>2, <1>0, AppendProperties
          <5>3. QED
            BY <4>2, <5>1, <5>2
        <4>5. QED
          BY <4>1, <4>4 DEF Whereabouts
      <3>3. CASE chip.irq = {"RxDone"} /\ ~ taken /\ Alone(n)
        BY <3>3, <1>1 DEF Whereabouts, Alone, SameContents
      <3>4. CASE event = "Packet" /\ packet = [id |-> n, whole |-> TRUE, signal |-> n]
        <4>1. packet \in RadioPacket /\ handed' = Append(handed, packet)
          BY <3>4, <1>0, <1>1, <1>4 DEF ReadSound, Restarting, SetRx
        <4>2. Len(handed) + 1 \in DOMAIN handed' /\ handed'[Len(handed) + 1] = packet
          BY <1>0, <4>1, AppendProperties
        <4>3. QED
          BY <3>4, <4>2 DEF Whereabouts
      <3>5. QED
        BY <3>1, <3>2, <3>3, <3>4, <1>1, <1>4 DEF Whereabouts, InPacket
    <2>4. QED
      BY <2>1, <2>2, <2>3, ReceivesPartsNext
  <1>5. QED
    BY <1>1, <1>3, <1>4

\* A packet begins: the others of the turn are disturbed.
LEMMA BeginReceives ==
    ASSUME IInv, Receives, ~ Starting, NEW at \in Offset, BeginPacket(at)
    PROVE  Receives'
  <1>0. /\ TypeOK /\ RadioSound /\ sent \in Nat /\ opened \in Nat /\ opened <= sent
        /\ chip \in Chip /\ offset \in Offset /\ chip.start \in Offset /\ disturbed \subseteq Packet
    BY DEF IInv, TypeOK, RadioSound, HistoryOK, Chip
  <1>1. /\ sent' = sent + 1 /\ sent' \in Packet /\ chip.air = None
        /\ chip'.irq = chip.irq
        /\ chip'.start = chip.start /\ chip'.signal = chip.signal
        /\ chip'.air = [id |-> sent', at |-> at]
        /\ \A o \in Offset : chip'.buffer[o] = chip.buffer[o] \/ chip'.buffer[o] = sent'
        /\ UNCHANGED <<pc, event, offset, packet, handed, opened, good, taken>>
        /\ turn' = turn \cup {sent'}
        /\ disturbed' = disturbed \cup (turn \cap Packet)
    BY <1>0, BeginEffect DEF process, BeginPacket
  <1>2. CASE ~ Active
    BY <1>2, <1>1 DEF Receives, Active
  <1>3. CASE Active
    <2>1. TurnSound /\ PacketSound /\ Located
      BY <1>3, ReceivesParts
    <2>2. "RxDone" \in chip.irq => chip.signal \in disturbed'
      BY <1>0, <1>1, <2>1 DEF TurnSound, RadioSound
    <2>3. InPacket => chip.signal \in disturbed'
      BY <2>2 DEF IInv, ReadSound
    <2>4. TurnSound'
      <3>1. turn' \subseteq 0 .. sent'
        BY <1>0, <1>1, <2>1 DEF TurnSound
      <3>2. chip'.air.id \in turn' /\ chip'.air.id > opened
        BY <1>0, <1>1
      <3>3. chip.irq # {} => \E x \in turn : x # sent'
        BY <1>0, <1>1, <2>1 DEF TurnSound
      <3>4. "RxDone" \in chip.irq => chip'.buffer[chip.start] > opened
        BY <1>0, <1>1, <2>1 DEF TurnSound
      <3>5. "RxDone" \in chip.irq => chip.signal \in turn /\ chip.signal > opened
        BY <2>1 DEF TurnSound
      <3>6. QED
        BY <1>1, <2>2, <3>1, <3>2, <3>3, <3>4, <3>5 DEF TurnSound
    <2>5. PacketSound'
      <3>1. pc = "buffer" => chip'.buffer[offset] > opened
        BY <1>0, <1>1, <2>1 DEF PacketSound
      <3>2. QED
        BY <1>1, <2>1, <2>3, <3>1 DEF PacketSound, InPacket, Restarting
    <2>6. Located'
      <3> SUFFICES ASSUME NEW n \in good \ disturbed'
                   PROVE  Whereabouts(n)'
        BY <1>1 DEF Located
      <3>1. Whereabouts(n) /\ n \in Packet
        BY <1>1, <2>1 DEF Located, IInv, HistoryOK
      <3>2. ~ Alone(n)
        BY <3>1, <1>1 DEF Alone
      <3>3. ~ (InPacket /\ chip.signal = n)
        BY <2>3
      <3>4. QED
        BY <3>1, <3>2, <3>3, <1>1 DEF Whereabouts, Restarting
    <2>7. QED
      BY <2>4, <2>5, <2>6, ReceivesPartsNext
  <1>4. QED
    BY <1>2, <1>3

\* A packet ends: it is alone in its turn and will be read, or it is disturbed.
LEMMA EndReceives ==
    ASSUME IInv, Receives, ~ Starting, NEW valid \in BOOLEAN, EndPacket(valid)
    PROVE  Receives'
  <1> PICK n : n = chip.air.id
    OBVIOUS
  <1>0. /\ TypeOK /\ RadioSound /\ sent \in Nat /\ opened \in Nat
        /\ disturbed \subseteq Packet /\ good \subseteq Packet
    BY DEF IInv, TypeOK, HistoryOK
  <1>1. /\ chip.air # None /\ n \in Packet
        /\ chip'.irq = chip.irq \cup {"RxDone"} \cup (IF valid THEN {} ELSE {"CrcError"})
        /\ chip'.buffer = chip.buffer
        /\ chip'.start = chip.air.at /\ chip'.signal = n /\ chip'.air = None
        /\ good' = IF valid THEN good \cup {n} ELSE good
        /\ UNCHANGED <<sent, pc, event, offset, packet, handed, opened, taken>>
        /\ turn' = turn \cup {n}
        /\ disturbed' = disturbed \cup (IF turn' # {n} \/ taken THEN turn' \cap Packet ELSE {})
    BY <1>0, EndEffect DEF Joins
  <1>2. chip.buffer[chip.air.at] = n
    BY <1>0, <1>1 DEF RadioSound
  <1>3. CASE ~ Active
    BY <1>3, <1>1 DEF Receives, Active
  <1>4. CASE Active
    <2>1. TurnSound /\ PacketSound /\ Located
      BY <1>4, ReceivesParts
    <2>2. n \in turn /\ n > opened /\ turn' = turn
      BY <1>1, <2>1 DEF TurnSound
    <2>3. n \in disturbed' \/ (turn = {n} /\ ~ taken)
      BY <1>1, <2>2
    <2>4. turn = {n} => chip.irq = {}
      BY <1>1, <2>1 DEF TurnSound
    <2>5. Alone(n)' <=> turn' = {n}
      BY <1>1, <1>2 DEF Alone
    <2>6. TurnSound'
      <3>1. "CrcError" \in chip'.irq \/ n \in good'
        BY <1>1
      <3>2. n \in disturbed' \/ Alone(n)'
        BY <2>2, <2>3, <2>5
      <3>3. turn' \subseteq 0 .. sent'
        BY <1>1, <2>1, <2>2 DEF TurnSound
      <3>4. chip'.buffer[chip'.start] = n /\ n > opened'
        BY <1>1, <1>2, <2>2
      <3>5. Alone(n)' => Alone(chip.signal)'
        BY <1>1 DEF Alone
      <3>6. QED
        BY <1>1, <2>2, <3>1, <3>2, <3>3, <3>4, <3>5 DEF TurnSound
    <2>7. InPacket => taken
      BY DEF IInv, StartsQuiet
    <2>8. PacketSound'
      BY <1>1, <2>1, <2>3, <2>7 DEF PacketSound, InPacket, Restarting
    <2>9. Located'
      <3> SUFFICES ASSUME NEW m \in good' \ disturbed'
                   PROVE  Whereabouts(m)'
        BY DEF Located
      <3>1. CASE m \in good /\ m # n
        <4>1. Whereabouts(m)
          BY <3>1, <1>1, <2>1 DEF Located
        <4>2. ~ Alone(m)
          BY <1>1 DEF Alone
        <4>3. ~ (InPacket /\ chip.signal = m)
          BY <1>1, <2>1 DEF PacketSound, Alone
        <4>4. QED
          BY <4>1, <4>2, <4>3, <1>1 DEF Whereabouts, Restarting
      <3>2. CASE m \in good /\ m = n /\ ~ valid
        <4>1. Whereabouts(m)
          BY <3>2, <1>1, <2>1 DEF Located
        <4>2. ~ Alone(m)
          BY <1>1 DEF Alone
        <4>3. ~ (InPacket /\ chip.signal = m)
          BY <1>1, <2>1 DEF PacketSound, Alone
        <4>4. QED
          BY <4>1, <4>2, <4>3, <1>1 DEF Whereabouts, Restarting
      <3>3. CASE m = n /\ valid
        <4>1. turn = {n} /\ ~ taken
          BY <3>3, <2>3
        <4>2. chip'.irq = {"RxDone"}
          BY <3>3, <4>1, <2>4, <1>1
        <4>3. Alone(m)'
          BY <3>3, <4>1, <2>2, <2>5, <1>1 DEF Alone
        <4>4. QED
          BY <4>1, <4>2, <4>3, <1>1 DEF Whereabouts
      <3>4. QED
        BY <3>1, <3>2, <3>3, <1>1
    <2>10. QED
      BY <2>6, <2>8, <2>9, ReceivesPartsNext
  <1>5. QED
    BY <1>3, <1>4

\* An error that is not about a packet disturbs the packets of its turn.
LEMMA FlagReceives ==
    ASSUME IInv, Receives, ~ Starting, BadHeader \/ ChipTimeout
    PROVE  Receives'
  <1>0. /\ TypeOK /\ RadioSound /\ sent \in Nat /\ opened \in Nat /\ chip \in Chip
        /\ disturbed \subseteq Packet /\ good \subseteq Packet
    BY DEF IInv, TypeOK, HistoryOK
  <1>1. /\ sent' = sent + 1
        /\ chip'.buffer = chip.buffer
        /\ chip'.start = chip.start /\ chip'.signal = chip.signal /\ chip'.air = chip.air
        /\ UNCHANGED <<pc, event, offset, packet, handed, opened, good, taken>>
        /\ turn' = turn \cup {0}
        /\ disturbed' = disturbed \cup (IF turn' # {0} \/ taken THEN turn' \cap Packet ELSE {})
    BY <1>0, FlagEffect DEF Joins
  <1>2. /\ chip'.irq # {} /\ "RxDone" \in chip'.irq => "RxDone" \in chip.irq
        /\ chip.air # None => chip.air.id # 0
    BY <1>0, FlagEffect DEF Chip, Packet
  <1>3. \A x \in turn \cap Packet : x \in disturbed'
    <2> SUFFICES ASSUME NEW x \in turn \cap Packet
                 PROVE  x \in disturbed'
      OBVIOUS
    <2>1. x # 0 /\ x \in turn'
      BY <1>1 DEF Packet
    <2>2. QED
      BY <1>1, <2>1
  <1>4. CASE ~ Active
    BY <1>4, <1>1 DEF Receives, Active
  <1>5. CASE Active
    <2>1. TurnSound /\ PacketSound /\ Located
      BY <1>5, ReceivesParts
    <2>2. "RxDone" \in chip.irq => chip.signal \in disturbed'
      BY <1>0, <1>3, <2>1 DEF TurnSound, RadioSound
    <2>3. InPacket => chip.signal \in disturbed'
      BY <2>2 DEF IInv, ReadSound
    <2>4. TurnSound'
      <3>1. turn' \subseteq 0 .. sent'
        BY <1>0, <1>1, <2>1 DEF TurnSound
      <3>2. \E x \in turn' : chip'.air = None \/ x # chip'.air.id
        BY <1>1, <1>2
      <3>3. QED
        BY <1>1, <1>2, <2>1, <2>2, <3>1, <3>2 DEF TurnSound
    <2>5. PacketSound'
      BY <1>1, <2>1, <2>3 DEF PacketSound, InPacket, Restarting
    <2>6. Located'
      <3> SUFFICES ASSUME NEW n \in good \ disturbed'
                   PROVE  Whereabouts(n)'
        BY <1>1 DEF Located
      <3>1. Whereabouts(n) /\ n \in Packet
        BY <1>0, <1>1, <2>1 DEF Located
      <3>2. ~ Alone(n)
        BY <3>1, <1>3 DEF Alone
      <3>3. ~ (InPacket /\ chip.signal = n)
        BY <2>3
      <3>4. QED
        BY <3>1, <3>2, <3>3, <1>1 DEF Whereabouts, Restarting
    <2>7. QED
      BY <2>4, <2>5, <2>6, ReceivesPartsNext
  <1>6. QED
    BY <1>4, <1>5

\* Faults are not forgotten.
LEMMA FaultsGrow ==
    ASSUME IInv, [Next]_vars
    PROVE  faults' \in Nat /\ faults <= faults'
  <1>0. TypeOK /\ Control /\ faults \in Nat
    BY DEF IInv, HistoryOK
  <1>1. CASE HardwareReset \/ Configure \/ ClearIrq \/ SetRx \/ Drop
    BY <1>0, <1>1, ResetEffect, ConfigureEffect, ClearEffect, SetRxEffect, DropEffect
  <1>2. CASE VerifyReadback \/ GetIrqStatus \/ ReadPacketFails \/ GetRxBufferStatus \/ ReadBuffer
            \/ GetPacketStatus \/ Arm \/ Poll \/ PollInterrupt \/ Open \/ Stop \/ Kill
    BY <1>0, <1>2, ReadEffect
  <1>3. CASE Radio
    BY <1>0, <1>3, RadioEffect
  <1>4. CASE UNCHANGED vars
    BY <1>0, <1>4 DEF vars
  <1>5. QED
    BY <1>1, <1>2, <1>3, <1>4 DEF Next, Driver

\* All steps together.
LEMMA ReceivesStep ==
    ASSUME IInv, [Next]_vars, faults' <= 1
    PROVE  Receives'
  <1>0. TypeOK /\ Control /\ faults \in Nat
    BY DEF IInv, HistoryOK
  <1>1. faults' \in Nat /\ faults <= faults'
    BY FaultsGrow
  <1>2. Receives
    BY <1>0, <1>1 DEF IInv
  <1>3. CASE HardwareReset \/ Configure \/ VerifyReadback \/ Arm \/ Drop \/ Open \/ Stop \/ Kill
    <2>1. \/ pc' \in {"configure", "verify", "arm", "drop", "closed", "reset"}
          \/ pc' = "clear" /\ event' = None
      BY <1>0, <1>3, ResetEffect, ConfigureEffect DEF VerifyReadback, Arm, Drop, Open, Stop, Kill
    <2>2. QED
      BY <2>1 DEF Receives, Active, Starting
  <1>4. CASE Poll \/ PollInterrupt
    BY <1>2, <1>4, WaitReceives
  <1>5. CASE GetIrqStatus
    BY <1>2, <1>5, StatusReceives
  <1>6. CASE ReadPacketFails
    BY <1>2, <1>6, FailReceives
  <1>7. CASE GetRxBufferStatus \/ ReadBuffer \/ GetPacketStatus
    BY <1>2, <1>7, ReadReceives
  <1>8. CASE ClearIrq
    BY <1>2, <1>8, ClearReceives
  <1>9. CASE SetRx
    BY <1>2, <1>9, SetRxReceives
  <1>10. CASE Radio
    BY <1>2, <1>10, RadioIsQuiet, BeginReceives, EndReceives, FlagReceives DEF Radio
  <1>11. CASE UNCHANGED vars
    BY <1>2, <1>11 DEF vars, process, history, Receives, Active, Starting, TurnSound, PacketSound,
                       Whereabouts, Alone, InPacket, Restarting
  <1>12. QED
    BY <1>3, <1>4, <1>5, <1>6, <1>7, <1>8, <1>9, <1>10, <1>11 DEF Next, Driver

\* What is handed over is sound when it is, and stays so.
LEMMA HandedStep ==
    ASSUME IInv, [Next]_vars, Receives, MixedOnlyDisturbed, NoStalePacket
    PROVE  MixedOnlyDisturbed' /\ NoStalePacket'
  <1>0. TypeOK /\ ReadSound /\ Control /\ handed \in Seq(RadioPacket)
    BY DEF IInv, TypeOK
  <1>1. CASE HardwareReset
    <2>1. handed' = <<>>
      BY <1>0, <1>1 DEF HardwareReset, Control
    <2>2. QED
      BY <2>1 DEF MixedOnlyDisturbed, NoStalePacket
  <1>2. CASE Open
    <2>1. handed' = <<>>
      BY <1>2 DEF Open
    <2>2. QED
      BY <2>1 DEF MixedOnlyDisturbed, NoStalePacket
  <1>3. CASE SetRx
    <2>1. /\ pc = "setrx" /\ UNCHANGED <<opened, good, disturbed>>
          /\ handed' = handed \/ (event = "Packet" /\ handed' = Append(handed, packet))
      BY <1>3 DEF SetRx, history
    <2>2. CASE handed' = handed
      BY <2>1, <2>2 DEF MixedOnlyDisturbed, NoStalePacket
    <2>3. CASE event = "Packet" /\ handed' = Append(handed, packet)
      <3>1. /\ packet \in RadioPacket
            /\ packet.id > opened /\ packet.signal > opened
            /\ \/ packet.signal \in disturbed
               \/ packet.whole /\ packet.id \in good /\ packet.signal = packet.id
        BY <1>0, <2>1, <2>3, ReceivesParts DEF ReadSound, Active, Starting, PacketSound, Restarting
      <3>2. ASSUME NEW i \in DOMAIN handed'
            PROVE  (i \in DOMAIN handed /\ handed'[i] = handed[i]) \/ handed'[i] = packet
        <4>1. i \in 1 .. Len(handed) + 1 /\ Len(handed) \in Nat /\ DOMAIN handed = 1 .. Len(handed)
          BY <1>0, <2>3, <3>1, AppendProperties
        <4>2. i = Len(handed) + 1 \/ i \in 1 .. Len(handed)
          BY <4>1
        <4>3. QED
          BY <1>0, <2>3, <3>1, <4>1, <4>2, AppendProperties
      <3>3. NoStalePacket'
        BY <2>1, <3>1, <3>2 DEF NoStalePacket
      <3>4. MixedOnlyDisturbed'
        BY <2>1, <3>1, <3>2 DEF MixedOnlyDisturbed
      <3>5. QED
        BY <3>3, <3>4
    <2>4. QED
      BY <2>1, <2>2, <2>3
  <1>4. CASE Configure \/ VerifyReadback \/ Arm \/ Poll \/ PollInterrupt \/ GetIrqStatus
            \/ ReadPacketFails \/ GetRxBufferStatus \/ ReadBuffer \/ GetPacketStatus \/ ClearIrq
            \/ Stop \/ Drop \/ Kill \/ UNCHANGED vars
    <2>1. UNCHANGED <<handed, opened, good, disturbed>>
      BY <1>4 DEF Configure, VerifyReadback, Arm, Poll, PollInterrupt, GetIrqStatus, ReadPacketFails,
                  GetRxBufferStatus, ReadBuffer, GetPacketStatus, ClearIrq, Stop, Drop, Kill, Reading,
                  vars, process, history
    <2>2. QED
      BY <2>1 DEF MixedOnlyDisturbed, NoStalePacket
  <1>5. CASE Radio
    <2>1. /\ UNCHANGED <<handed, opened>>
          /\ good \subseteq good' /\ disturbed \subseteq disturbed'
      <3>1. UNCHANGED <<handed, opened>>
        BY <1>0, <1>5, RadioEffect
      <3>2. good \subseteq good' /\ disturbed \subseteq disturbed'
        BY <1>5 DEF Radio, BeginPacket, EndPacket, BadHeader, ChipTimeout, Joins
      <3>3. QED
        BY <3>1, <3>2
    <2>2. NoStalePacket'
      BY <2>1 DEF NoStalePacket
    <2>3. MixedOnlyDisturbed'
      BY <2>1 DEF MixedOnlyDisturbed
    <2>4. QED
      BY <2>2, <2>3
  <1>6. QED
    BY <1>1, <1>2, <1>3, <1>4, <1>5 DEF Next, Driver

-----------------------------------------------------------------------------
\* The invariant holds before the radio is opened.
LEMMA InitIInv == Init => IInv
  <1> SUFFICES ASSUME Init
               PROVE  IInv
    OBVIOUS
  <1>0. /\ chip \in Chip /\ chip.mode = "standby" /\ chip.air = None /\ chip.irq = {}
        /\ offset \in Offset /\ 1 \in 1 .. Len(Setting) + 1
    BY ResetIsChip, SettingsCounted, Sx1262Assumption DEF Init, ResetChip
  <1>1. TypeOK /\ HistoryOK
    <2>1. armed \in BOOLEAN /\ initialized \in BOOLEAN /\ taken \in BOOLEAN
      BY Zenon DEF Init
    <2>2. handed \in Seq(RadioPacket)
      BY EmptySeq DEF Init
    <2>3. sent \in 0 .. MaxPackets /\ edges \in 0 .. EdgeQueue /\ setting \in 1 .. Len(Setting) + 1
      BY <1>0, Sx1262Assumption DEF Init
    <2>4. QED
      BY <1>0, <2>1, <2>2, <2>3 DEF Init, TypeOK, HistoryOK
  <1>2. Control /\ LeftInStandby
    BY <1>0 DEF Init, Control, LeftInStandby, Active, InPacket
  <1>3. RadioSound /\ ReadSound /\ StartsQuiet
    BY <1>0 DEF Init, RadioSound, ReadSound, StartsQuiet, Starting, InPacket, Restarting
  <1>4. Receives
    BY DEF Init, Receives, Active
  <1>5. MixedOnlyDisturbed /\ NoStalePacket
    BY DEF Init, MixedOnlyDisturbed, NoStalePacket
  <1>6. QED
    BY <1>1, <1>2, <1>3, <1>4, <1>5 DEF IInv

\* Every step keeps the invariant.
LEMMA NextIInv ==
    ASSUME IInv, [Next]_vars
    PROVE  IInv'
  <1>1. TypeOK' /\ HistoryOK'
    BY TypeStep DEF IInv
  <1>2. Control' /\ LeftInStandby' /\ RadioSound' /\ ReadSound' /\ StartsQuiet'
    BY ControlStep, RadioStep, ReadStep, QuietStep
  <1>3. ASSUME faults' <= 1
        PROVE  Receives' /\ MixedOnlyDisturbed' /\ NoStalePacket'
    <2>1. faults <= 1
      BY <1>3, FaultsGrow DEF IInv, HistoryOK
    <2>2. Receives /\ MixedOnlyDisturbed /\ NoStalePacket
      BY <2>1 DEF IInv
    <2>3. QED
      BY <1>3, <2>2, ReceivesStep, HandedStep
  <1>4. QED
    BY <1>1, <1>2, <1>3 DEF IInv

\* The inductive invariant holds of every behaviour of the driver, the radio and the air.
THEOREM Safety == Spec => []IInv
  <1>1. QED
    BY InitIInv, NextIInv, PTL DEF Spec

\* TypeOK: the fields of the driver keep their types; in particular what read_packet returns are the
\* bytes of a packet, never those of an empty buffer.
THEOREM TypeCorrect == Spec => []TypeOK
  <1>1. IInv => TypeOK
    BY DEF IInv
  <1>2. QED
    BY <1>1, Safety, PTL

\* LeftInStandby: whatever fails in open or later, Drop leaves the radio in standby, unless it was
\* killed or the radio refused the command.
THEOREM ExitLeavesStandby == Spec => []LeftInStandby
  <1>1. IInv => LeftInStandby
    BY DEF IInv
  <1>2. QED
    BY <1>1, Safety, PTL

\* NoStalePacket: it takes two faults, a reset that does not take and a rejected ClearIrqStatus, for
\* a packet that an earlier process left in the radio to be handed over.
THEOREM StaleTakesTwoFaults == Spec => [](faults <= 1 => NoStalePacket)
  <1>1. IInv => (faults <= 1 => NoStalePacket)
    BY DEF IInv
  <1>2. QED
    BY <1>1, Safety, PTL

\* MixedOnlyDisturbed: however the reads of read_packet fall between what the radio does, bytes and
\* measurements of different packets are only handed over when packets shared a turn.
THEOREM MixingNeedsDisturbance == Spec => [](faults <= 1 => MixedOnlyDisturbed)
  <1>1. IInv => (faults <= 1 => MixedOnlyDisturbed)
    BY DEF IInv
  <1>2. QED
    BY <1>1, Safety, PTL

\* UndisturbedHanded: a valid packet that has its turn to itself is handed over, wherever poll_receive
\* was when it came.
THEOREM UndisturbedArrives == Spec => [](faults <= 1 => UndisturbedHanded)
  <1>1. IInv => (faults <= 1 => UndisturbedHanded)
    <2> SUFFICES ASSUME IInv, faults <= 1, pc \in {"idle", "wait"}, ~ Dio1High(chip),
                        NEW n \in good \ disturbed
                 PROVE  \E i \in DOMAIN handed :
                           handed[i] = [id |-> n, whole |-> TRUE, signal |-> n]
      BY DEF UndisturbedHanded
    <2>1. Whereabouts(n)
      BY DEF IInv, Receives, Active, Starting
    <2>2. QED
      BY <2>1 DEF Whereabouts, InPacket, Restarting, Dio1High
  <1>2. QED
    BY <1>1, Safety, PTL

=============================================================================
