------------------------------- MODULE WireV2 -------------------------------
(***************************************************************************)
(* A record on its way from a node to the receiver: the node encodes it,   *)
(* its frames are sent again and again, lost, and altered field by field   *)
(* (a fault the PHY CRC did not catch, or a faulty node), and the receiver *)
(* decodes what arrives and keeps it.                                      *)
(***************************************************************************)
EXTENDS ProtocolV2

CONSTANTS
    Records,        \* what nodes try to send, valid or not
    Alterable,      \* bound: the records whose frames are altered
    Ids,            \* values of config_id an alteration may choose
    Counts,         \* counts, indices and bits an alteration may choose
    MaxAlter        \* bound: alterations in a behaviour

ASSUME WireAssumption == MaxAlter \in Nat /\ Alterable \subseteq Records /\ Counts \subseteq Nat

\* What a node can hold in memory, sound or not.
ConfigRecord ==
    [flags : SUBSET {"hash_valid", "unknown"}, build_flags : SUBSET {"id_valid", "unknown"},
     build_id : Nat, output_routes : SUBSET {"lora", "unknown"}, profile_identity : BOOLEAN,
     in_range : BOOLEAN, expected_step_count : Nat, readback_valid : SUBSET Nat,
     hash_algorithm : Nat, calibration_hash : Nat, steps : [StepIndex -> 0 .. 2]]

HealthRecord ==
    [flags : SUBSET {"boot_id_unavailable", "config_mismatch", "unknown"}, profile_id : Nat,
     profile_version : Nat, mcu_temperature : Nat \cup {None}, vdd : Nat \cup {None}]

NodeRecord(r) ==
    /\ r.common \in Common
    /\ \/ /\ r.kind = "scan"
          /\ r.meta \in ProfileMeta /\ r.steps \in [StepIndex -> ProfileStep \cup {None}]
       \/ r.kind = "config" /\ r.config \in ConfigRecord /\ r.repeated \in BOOLEAN
       \/ r.kind = "health" /\ r.health \in HealthRecord

ASSUME RecordsAssumption == \A r \in Records : NodeRecord(r)

VARIABLES
    record,         \* the record of the node
    sent,           \* its frames by fragment index; none when the encoder refuses
    frame,          \* the frame in the air, or None
    altered,        \* alterations so far
    kept            \* what the receiver keeps: fragments of a scan, or a record

vars == <<record, sent, frame, altered, kept>>

\* The frames the encoder of a record returns.
Encode(r) ==
    CASE r.kind = "scan" /\ encodes_profile(r.common, r.meta, r.steps) ->
            encode_profile(r.common, r.meta, r.steps)
      [] r.kind = "config" /\ encodes_device_config(r.common, r.config) ->
            [i \in {0} |-> encode_device_config(r.common, r.config, r.repeated)]
      [] r.kind = "health" /\ encodes_device_health(r.common, r.health) ->
            [i \in {0} |-> encode_device_health(r.common, r.health)]
      [] OTHER -> <<>>

Init ==
    /\ record \in Records
    /\ sent = Encode(record)
    /\ frame = None
    /\ altered = 0
    /\ kept = {}

Send(i) ==
    /\ frame = None
    /\ frame' = sent[i]
    /\ UNCHANGED <<record, sent, altered, kept>>

Lose ==
    /\ frame # None
    /\ frame' = None
    /\ UNCHANGED <<record, sent, altered, kept>>

-----------------------------------------------------------------------------
(***************************************************************************)
(* Alterations of one field.  The frame type stays: a payload of one type  *)
(* read as another is a frame of that type in its own right.               *)
(***************************************************************************)
AlteredHeaders(h) ==
    {[h EXCEPT !.discriminator = FALSE]}
    \cup {[h EXCEPT !.fragment_index = n] : n \in Counts}
    \cup {[h EXCEPT !.fragment_count = n] : n \in Counts}
    \cup {[h EXCEPT !.payload_len = n] : n \in {0, h.payload_len + 1, h.payload_len + PROFILE_STEP_LEN}}
    \cup {[h EXCEPT !.common.flags = g] : g \in SUBSET {"boot_id_valid", "from_hw_rng", "unknown"}}
    \cup {[h EXCEPT !.common.boot_id = 1 - @]}
    \cup {[h EXCEPT !.common.config_id = n] : n \in Ids}
    \cup {[h EXCEPT !.common.reset_cause_flags = {"unknown"}]}

AlteredMeta(m) ==
    {[m EXCEPT !.profile_identity = FALSE]}
    \cup {[m EXCEPT !.expected_step_count = n] : n \in Counts}
    \cup {[m EXCEPT !.observed_unique_step_count = n] : n \in Counts}
    \cup {[m EXCEPT !.observed_field_count = n] : n \in Counts}
    \cup {[m EXCEPT !.missing_steps = g] :
            g \in {{}, step_mask(m.expected_step_count)} \cup {{s} : s \in Counts}}
    \cup {[m EXCEPT !.duplicate_steps = g] : g \in {{}, {0}, {MaxSteps}}}
    \cup {[m EXCEPT !.collection_flags = {g}] : g \in CollectionFlags}
    \cup {[m EXCEPT !.finish_reason = g] : g \in FinishReasons}
    \cup {[m EXCEPT !.intermediate_field_count = 1 - @]}

AlteredStep(s) ==
    {[s EXCEPT !.step_index = n] : n \in Counts} \cup {[s EXCEPT !.gas_index = n] : n \in Counts}
    \cup {[s EXCEPT !.raw_agrees = FALSE], [s EXCEPT !.measured = @ + 1]}

StepEdits(steps) == [k \in DOMAIN steps |-> AlteredStep(steps[k])]

\* Steps altered (to one of edits[k] at position k), cut off, repeated, or swapped.
AlteredSequences(steps, edits) ==
    (UNION {{[steps EXCEPT ![k] = s] : s \in edits[k]} : k \in DOMAIN steps})
    \cup {SubSeq(steps, 1, k) : k \in 0 .. Len(steps)}
    \cup {Append(steps, steps[k]) : k \in DOMAIN steps}
    \cup {[steps EXCEPT ![k] = steps[1], ![1] = steps[k]] : k \in DOMAIN steps}

AlteredProfiles(p) ==
    {[p EXCEPT !.schema = FALSE], [p EXCEPT !.extra = 1]}
    \cup {[p EXCEPT !.meta = m] : m \in AlteredMeta(p.meta)}
    \cup {[p EXCEPT !.steps_in_fragment = n] : n \in 0 .. STEPS_PER_FRAGMENT + 1}
    \cup {[p EXCEPT !.step_window_start = n] : n \in Counts}
    \cup {[p EXCEPT !.steps = s] : s \in AlteredSequences(p.steps, StepEdits(p.steps))}

AlteredConfigs(p) ==
    {[p EXCEPT !.schema = FALSE], [p EXCEPT !.extra = 1], [p EXCEPT !.base.in_range = FALSE],
     [p EXCEPT !.base.profile_identity = FALSE], [p EXCEPT !.base.build_id = 1 - @],
     [p EXCEPT !.base.calibration_hash = 1 - @], [p EXCEPT !.base.hash_algorithm = 1 - @],
     [p EXCEPT !.base.output_routes = {}]}
    \cup {[p EXCEPT !.base.flags = g] : g \in SUBSET {"hash_valid", "unknown"}}
    \cup {[p EXCEPT !.base.build_flags = g] : g \in SUBSET {"id_valid", "unknown"}}
    \cup {[p EXCEPT !.base.expected_step_count = n] : n \in Counts}
    \cup {[p EXCEPT !.base.readback_valid = g] : g \in {{}, {0}, {MaxSteps}}}
    \cup {[p EXCEPT !.steps = s] : s \in AlteredSequences(p.steps, [k \in DOMAIN p.steps |-> 0 .. 2])}

AlteredTlv(t) ==
    {[t EXCEPT !.kind = k] : k \in 0 .. 3} \cup {[t EXCEPT !.len = n] : n \in 0 .. 3}
    \cup {[t EXCEPT !.value = @ + 1]}

TlvEdits(tlvs) == [k \in DOMAIN tlvs |-> AlteredTlv(tlvs[k])]

AlteredHealths(p) ==
    {[p EXCEPT !.schema = FALSE], [p EXCEPT !.extra = 1],
     [p EXCEPT !.base.profile_id = 1 - @], [p EXCEPT !.base.profile_version = 1 - @]}
    \cup {[p EXCEPT !.base.flags = g] :
            g \in SUBSET {"boot_id_unavailable", "config_mismatch", "unknown"}}
    \cup {[p EXCEPT !.extension_len = n] : n \in {0, 1, 4, 5, 8, 12}}
    \cup {[p EXCEPT !.tlvs = t] : t \in AlteredSequences(p.tlvs, TlvEdits(p.tlvs))}

AlteredPayloads(f) ==
    CASE f.header.frame_type = "ProfileFragment" -> AlteredProfiles(f.payload)
      [] f.header.frame_type = "DeviceConfig"    -> AlteredConfigs(f.payload)
      [] f.header.frame_type = "DeviceHealth"    -> AlteredHealths(f.payload)

Alter ==
    /\ frame # None
    /\ record \in Alterable /\ altered < MaxAlter
    /\ \/ \E h \in AlteredHeaders(frame.header) : frame' = [frame EXCEPT !.header = h]
       \/ \E p \in AlteredPayloads(frame) : frame' = [frame EXCEPT !.payload = p]
    /\ altered' = altered + 1
    /\ UNCHANGED <<record, sent, kept>>

-----------------------------------------------------------------------------
(***************************************************************************)
(* The receiver.  A fragment joins the scan it belongs to unless its       *)
(* metadata differ or its index has been received (reassembly.rs); a       *)
(* configuration or health record is one record by itself.                 *)
(***************************************************************************)
Joins(g) ==
    \A o \in kept : /\ g.identity = o.identity /\ g.meta = o.meta
                    /\ g.expected_fragment_count = o.expected_fragment_count
                    /\ g.fragment_index # o.fragment_index

Keep(f) ==
    CASE f.header.frame_type = "ProfileFragment" ->
            IF Joins(from_view(f)) THEN kept \cup {from_view(f)} ELSE kept
      [] f.header.frame_type = "DeviceConfig" -> {device_configuration(f)}
      [] f.header.frame_type = "DeviceHealth" -> {device_health(f)}

Receive ==
    /\ frame # None
    /\ frame' = None
    /\ kept' = IF decode(frame) THEN Keep(frame) ELSE kept
    /\ UNCHANGED <<record, sent, altered>>

Next == (\E i \in DOMAIN sent : Send(i)) \/ Lose \/ Alter \/ Receive

Spec == Init /\ [][Next]_vars

-----------------------------------------------------------------------------
(***************************************************************************)
(* Properties.                                                             *)
(***************************************************************************)
\* Whatever record a node offers, the frames its encoder returns are frames the decoder
\* accepts, no longer than the 231 bytes every configuration announces as max_frame_len, and a
\* profile has all the fragments its headers announce and no more than EncodedProfile holds: the
\* two sides' validators agree, and no encoder fails or writes beyond its buffer after it has
\* validated the record.
EncodedFramesDecode ==
    \A i \in DOMAIN sent :
        LET h == sent[i].header
        IN /\ decode(sent[i])
           /\ encode_header(h.common, h.fragment_index, h.fragment_count, h.payload_len)
           /\ HEADER_LEN + h.payload_len <= MAX_V2_FRAME_LEN
           /\ h.fragment_index = i
           /\ h.fragment_count = Cardinality(DOMAIN sent)
           /\ h.fragment_count <= MAX_PROFILE_FRAGMENTS

\* The scan, as a node would hold it, whose steps the receiver has all.
NodeSteps(scan) ==
    [s \in StepIndex |->
        IF s \in StepsOf(scan)
        THEN scan.steps[CHOOSE k \in DOMAIN scan.steps : scan.steps[k].step_index = s] ELSE None]

\* The frame an encoder writes for what the receiver makes of f, or None when it refuses.
Reencoded(f) ==
    LET common == f.header.common
        view == from_view(f)
        config == ConfigOf(f.payload)
        health == HealthOf(f.payload)
    IN CASE f.header.frame_type = "ProfileFragment" ->
               LET p == ProfilePayload(view.meta, view.fragment_index, view.steps)
               IN [header |-> Header("ProfileFragment", view.identity, view.fragment_index,
                                     view.expected_fragment_count, ProfilePayloadLen(p)),
                   payload |-> p]
         [] f.header.frame_type = "DeviceConfig" ->
               IF encodes_device_config(common, config)
               THEN encode_device_config(common, config, "config_repeat" \in common.flags) ELSE None
         [] f.header.frame_type = "DeviceHealth" ->
               IF encodes_device_health(common, health)
               THEN encode_device_health(common, health) ELSE None

\* The decoder accepts only canonical frames: a frame it accepts, altered or not, is byte for byte
\* the one the encoder writes for the record the receiver keeps of it.  So two accepted frames
\* that give the same fragment are the same frame, which is what the store's comparison of a
\* repeated fragment with the archived payload relies on.
Canonical == frame # None => (decode(frame) => frame = Reencoded(frame))

IsScan == record.kind = "scan" /\ kept # {}

\* Whatever fragments of a scan arrive, in whatever order, the record the reassembler makes of
\* them passes the validation the store runs before it writes, and so does a configuration:
\* a record that reaches the store is never refused there.
StoreAccepts ==
    /\ IsScan => validate(finish(kept))
    /\ record.kind = "config" => \A r \in kept : validate_configuration(r)

\* The checks of the single fragments add up: a scan whose fragments have all arrived is one that
\* a node could have sent, and its fragments are those the encoder writes for it.
CompleteScansEncode ==
    IsScan /\ is_transport_complete(finish(kept)) =>
        LET scan == finish(kept)
            steps == NodeSteps(scan)
        IN /\ encodes_profile(scan.identity, scan.meta, steps)
           /\ LET frames == encode_profile(scan.identity, scan.meta, steps)
              IN kept = {from_view(frames[i]) : i \in DOMAIN frames}

\* Without alteration the receiver ends up with the record of the node: nothing a node sends is
\* moved, merged or dropped on the way, however many of its readings are missing.
FaithfulWhenUnaltered ==
    altered = 0 =>
        /\ IsScan =>
              LET scan == finish(kept)
              IN /\ scan.identity = record.common /\ scan.meta = record.meta
                 /\ \A s \in StepsOf(scan) : NodeSteps(scan)[s] = record.steps[s]
                 /\ is_transport_complete(scan) => NodeSteps(scan) = record.steps
        /\ record.kind = "health" => \A r \in kept : r.health = record.health
        /\ record.kind = "config" =>
              \A r \in kept : /\ r.identity.config_id = fnv1a64(write_config_payload(record.config))
                              /\ r.config.steps = write_config_payload(record.config).steps
                              /\ record.repeated => r.repeated

=============================================================================
