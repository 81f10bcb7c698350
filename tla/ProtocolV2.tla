----------------------------- MODULE ProtocolV2 -----------------------------
(***************************************************************************)
(* The codec of crates/vesta-protocol/src/v2.rs and what the receiver      *)
(* makes of its frames (reassembly.rs, records.rs): encoders, decoders,    *)
(* and the validators on both sides.                                       *)
(*                                                                         *)
(* A frame is a header and a payload of fields, with the number of bytes   *)
(* that follow the last whole step or TLV.  Flag words and bitmaps are     *)
(* sets.  A value no check looks at (counters, measurements, identities)   *)
(* is one opaque field; values that are only checked to be in range are    *)
(* one field that tells whether they are.                                  *)
(***************************************************************************)
EXTENDS Integers, Sequences, FiniteSets

CONSTANTS
    None,
    MaxSteps,       \* MAX_PROFILE_STEPS, or fewer
    fnv1a64(_)      \* the hash of a configuration payload, zero included

ASSUME ProtocolAssumption == MaxSteps \in 1 .. 10

STEPS_PER_FRAGMENT == 3
HEADER_LEN == 48
PROFILE_FRAGMENT_META_LEN == 42
PROFILE_STEP_LEN == 47
CONFIG_BASE_LEN == 83
CONFIG_STEP_LEN == 10
HEALTH_BASE_LEN == 54
MAX_PHY_FRAME_LEN == 255

\* The longest frame a node sends, and the frames EncodedProfile has room for.
MAX_V2_FRAME_LEN == HEADER_LEN + PROFILE_FRAGMENT_META_LEN + STEPS_PER_FRAGMENT * PROFILE_STEP_LEN
MAX_PROFILE_FRAGMENTS == 4

StepIndex == 0 .. MaxSteps - 1

\* step_mask, as a set of bits.
step_mask(step_count) == 0 .. step_count - 1

ensure_known(flags) == "unknown" \notin flags

-----------------------------------------------------------------------------
(***************************************************************************)
(* The header.  origin is node id, sequence and uptime; discriminator is   *)
(* magic, version and header length, right or not.                         *)
(***************************************************************************)
CommonFlags == {"boot_id_valid", "from_hw_rng", "config_repeat", "unknown"}

Common ==
    [flags : SUBSET CommonFlags, origin : Nat, boot_id : Nat, config_id : Nat,
     reset_cause_flags : SUBSET {"unknown"}]

ValidCommon(c) ==
    /\ ensure_known(c.flags)
    /\ "from_hw_rng" \in c.flags => "boot_id_valid" \in c.flags
    /\ "boot_id_valid" \notin c.flags => c.boot_id = 0
    /\ ensure_known(c.reset_cause_flags)

Header(type, common, index, count, payload_len) ==
    [discriminator |-> TRUE, frame_type |-> type, common |-> common,
     fragment_index |-> index, fragment_count |-> count, payload_len |-> payload_len]

\* encode_header accepts these arguments.
encode_header(common, index, count, payload_len) ==
    /\ index < count
    /\ ValidCommon(common)
    /\ HEADER_LEN + payload_len <= MAX_PHY_FRAME_LEN

decode_header(h, length) ==
    /\ length >= HEADER_LEN
    /\ h.discriminator
    /\ h.fragment_index < h.fragment_count
    /\ ValidCommon(h.common)
    /\ length = HEADER_LEN + h.payload_len

-----------------------------------------------------------------------------
(***************************************************************************)
(* Profiles.  A step has the indices the checks compare, whether status,   *)
(* gas index and gas range agree with the raw bytes, and the measurements. *)
(***************************************************************************)
ProfileStep == [step_index : Nat, gas_index : Nat, raw_agrees : BOOLEAN, measured : Nat]

\* None is neither a step nor a value of a health record.
ASSUME NoneAssumption == None \notin ProfileStep /\ None \notin Nat

CollectionFlags == {"config_mismatch", "stale_pre_scan_fields", "unknown"}
FinishReasons == {"complete", "incomplete", "unknown"}

\* The metadata every fragment of a scan repeats.
ProfileMeta ==
    [profile_identity : BOOLEAN, expected_step_count : Nat, observed_unique_step_count : Nat,
     observed_field_count : Nat, missing_steps : SUBSET Nat, duplicate_steps : SUBSET Nat,
     collection_flags : SUBSET CollectionFlags, finish_reason : FinishReasons,
     intermediate_field_count : Nat]

validate_profile_step(step) == step.raw_agrees /\ step.gas_index = step.step_index

validate_profile_config_identity(common, m) ==
    common.config_id = 0 =>
        "config_mismatch" \in m.collection_flags /\ m.finish_reason # "complete"

\* Mutant: a step too many fits no fragment.
profile_fragment_count_floor(expected_step_count) ==
    1 + expected_step_count \div STEPS_PER_FRAGMENT

profile_fragment_count(expected_step_count) ==
    (expected_step_count + STEPS_PER_FRAGMENT - 1) \div STEPS_PER_FRAGMENT

\* The steps of a window.
WindowStart(index) == index * STEPS_PER_FRAGMENT

\* Mutant: the last step belongs to no window.
Window_short(index, expected_step_count) ==
    {s \in WindowStart(index) .. WindowStart(index) + STEPS_PER_FRAGMENT - 1 : s + 1 < expected_step_count}

Window(index, expected_step_count) ==
    {s \in WindowStart(index) .. WindowStart(index) + STEPS_PER_FRAGMENT - 1 : s < expected_step_count}

\* The order in which a loop over the window meets the steps of S.
InOrder(S) ==
    [k \in 1 .. Cardinality(S) |-> CHOOSE s \in S : Cardinality({t \in S : t < s}) = k - 1]

\* A scan of the sensor: metadata and, for each position, its step or None.
validate_profile(m, steps) ==
    /\ m.profile_identity
    /\ m.expected_step_count \in 1 .. MaxSteps
    /\ ensure_known(m.collection_flags)
    /\ m.finish_reason # "unknown"
    /\ "stale_pre_scan_fields" \in m.collection_flags => m.intermediate_field_count # 0
    /\ m.missing_steps \cup m.duplicate_steps \subseteq step_mask(m.expected_step_count)
    /\ m.observed_unique_step_count = m.expected_step_count - Cardinality(m.missing_steps)
    /\ m.observed_field_count >= m.observed_unique_step_count
    /\ \A s \in StepIndex :
          IF s < m.expected_step_count /\ s \notin m.missing_steps
          THEN steps[s] # None /\ steps[s].step_index = s /\ validate_profile_step(steps[s])
          ELSE steps[s] = None

ProfilePayload(m, index, steps) ==
    [schema |-> TRUE, meta |-> m, steps_in_fragment |-> Len(steps),
     step_window_start |-> WindowStart(index), steps |-> steps, extra |-> 0]

ProfilePayloadLen(p) == PROFILE_FRAGMENT_META_LEN + PROFILE_STEP_LEN * Len(p.steps) + p.extra

\* Every fragment is sent, also one whose steps are all missing.
EncodesFragment(m, steps, index) == index < profile_fragment_count(m.expected_step_count)

encodes_profile(common, m, steps) ==
    /\ validate_profile(m, steps)
    /\ validate_profile_config_identity(common, m)
    /\ ValidCommon(common)

\* The frames of a scan, by fragment index.
encode_profile(common, m, steps) ==
    LET count == profile_fragment_count(m.expected_step_count)
        present(i) == InOrder({s \in Window(i, m.expected_step_count) : steps[s] # None})
        payload(i) == ProfilePayload(m, i, [k \in DOMAIN present(i) |-> steps[present(i)[k]]])
    IN [i \in {j \in 0 .. MaxSteps : EncodesFragment(m, steps, j)} |->
           [header |-> Header("ProfileFragment", common, i, count, ProfilePayloadLen(payload(i))),
            payload |-> payload(i)]]

\* decode_profile_fragment: the window is the one the fragment index requires.
WindowChecked(h, p) == p.step_window_start = WindowStart(h.fragment_index)

\* The steps of the window that are not missing.
RequiredSteps(index, m) == InOrder(Window(index, m.expected_step_count) \ m.missing_steps)

\* Mutant: only the number of steps is checked.
StepsChecked_counted(h, p) ==
    LET required == RequiredSteps(h.fragment_index, p.meta)
    IN p.steps_in_fragment = Len(required) /\ Len(p.steps) = p.steps_in_fragment /\ p.extra = 0

\* ... and the steps are those of the window that are not missing, in order.
StepsChecked(h, p) ==
    LET required == RequiredSteps(h.fragment_index, p.meta)
    IN /\ p.steps_in_fragment = Len(required)
       /\ ProfilePayloadLen(p) =
             PROFILE_FRAGMENT_META_LEN + PROFILE_STEP_LEN * p.steps_in_fragment
       /\ \A k \in DOMAIN required :
             p.steps[k].step_index = required[k] /\ validate_profile_step(p.steps[k])

decode_profile_fragment(h, p) ==
    LET m == p.meta
    IN /\ p.schema
       /\ m.expected_step_count \in 1 .. MaxSteps
       /\ ensure_known(m.collection_flags)
       /\ m.profile_identity
       /\ validate_profile_config_identity(h.common, m)
       /\ m.finish_reason # "unknown"
       /\ "stale_pre_scan_fields" \in m.collection_flags => m.intermediate_field_count # 0
       /\ h.fragment_count = profile_fragment_count(m.expected_step_count)
       /\ WindowChecked(h, p)
       /\ m.missing_steps \cup m.duplicate_steps \subseteq step_mask(m.expected_step_count)
       /\ m.observed_unique_step_count = m.expected_step_count - Cardinality(m.missing_steps)
       /\ m.observed_field_count >= m.observed_unique_step_count
       /\ StepsChecked(h, p)

-----------------------------------------------------------------------------
(***************************************************************************)
(* Device configuration.  in_range stands for the scalars that are only    *)
(* compared with constants; a heater step is 0 (all fields zero), 1 (no    *)
(* read-back values) or 2 (with read-back values).                         *)
(***************************************************************************)
validate_config(c) ==
    /\ ensure_known(c.flags) /\ ensure_known(c.build_flags) /\ ensure_known(c.output_routes)
    /\ c.output_routes # {}
    /\ c.profile_identity
    /\ c.in_range
    /\ c.expected_step_count \in 1 .. MaxSteps
    /\ c.readback_valid \subseteq step_mask(c.expected_step_count)
    /\ IF "hash_valid" \in c.flags
       THEN c.hash_algorithm = 1
       ELSE c.hash_algorithm = 0 /\ c.calibration_hash = 0
    /\ "id_valid" \notin c.build_flags => c.build_id = 0
    /\ \A s \in StepIndex :
          /\ s >= c.expected_step_count => c.steps[s] = 0
          /\ s < c.expected_step_count /\ s \notin c.readback_valid => c.steps[s] # 2

\* write_config_payload: the first expected_step_count steps follow the base.
write_config_payload(c) ==
    [schema |-> TRUE, base |-> [c EXCEPT !.steps = None],
     steps |-> [k \in 1 .. c.expected_step_count |-> c.steps[k - 1]], extra |-> 0]

ConfigPayloadLen(p) == CONFIG_BASE_LEN + CONFIG_STEP_LEN * Len(p.steps) + p.extra

\* Mutant: an id of zero is as good as any.
device_config_id_zero(c) == TRUE

\* A configuration whose hash is the reserved value cannot be sent.
device_config_id(c) == fnv1a64(write_config_payload(c)) # 0

encodes_device_config(common, c) ==
    /\ validate_config(c)
    /\ device_config_id(c)
    /\ ValidCommon(common)

encode_device_config(common, c, repeated) ==
    LET p == write_config_payload(c)
        flags == common.flags \cup (IF repeated THEN {"config_repeat"} ELSE {})
    IN [header |-> Header("DeviceConfig",
                          [common EXCEPT !.config_id = fnv1a64(p), !.flags = flags],
                          0, 1, ConfigPayloadLen(p)),
        payload |-> p]

ConfigIdChecked(h, p) == h.common.config_id # 0 /\ h.common.config_id = fnv1a64(p)

validate_decoded_config(h, p) ==
    /\ h.fragment_index = 0 /\ h.fragment_count = 1
    /\ p.schema
    /\ p.base.expected_step_count \in 1 .. MaxSteps
    /\ ConfigPayloadLen(p) = CONFIG_BASE_LEN + CONFIG_STEP_LEN * p.base.expected_step_count
    /\ ConfigIdChecked(h, p)

\* The steps beyond expected_step_count are zero.
ConfigOf(p) ==
    [p.base EXCEPT !.steps = [s \in StepIndex |-> IF s < Len(p.steps) THEN p.steps[s + 1] ELSE 0]]

decode_device_config(h, p) ==
    /\ validate_decoded_config(h, p)
    /\ validate_config(ConfigOf(p))

-----------------------------------------------------------------------------
(***************************************************************************)
(* Device health, with TLV extensions: kind 1 is the MCU temperature, kind *)
(* 2 the supply voltage, two bytes each, at most once and in this order.   *)
(***************************************************************************)
validate_health_flags(common, flags) ==
    /\ ensure_known(flags)
    /\ "boot_id_valid" \notin common.flags <=> "boot_id_unavailable" \in flags

validate_health_config_identity(common, x) ==
    /\ x.profile_id = 0 <=> x.profile_version = 0
    /\ IF x.profile_id = 0
       THEN common.config_id = 0
       ELSE common.config_id = 0 => "config_mismatch" \in x.flags

encodes_device_health(common, x) ==
    /\ validate_health_flags(common, x.flags)
    /\ validate_health_config_identity(common, x)
    /\ ValidCommon(common)

Tlvs(x) ==
    (IF x.mcu_temperature = None THEN <<>> ELSE <<[kind |-> 1, len |-> 2, value |-> x.mcu_temperature]>>)
    \o (IF x.vdd = None THEN <<>> ELSE <<[kind |-> 2, len |-> 2, value |-> x.vdd]>>)

TlvBytes(tlvs) ==
    LET bytes[n \in 0 .. Len(tlvs)] == IF n = 0 THEN 0 ELSE bytes[n - 1] + 2 + tlvs[n].len
    IN bytes[Len(tlvs)]

HealthPayloadLen(p) == HEALTH_BASE_LEN + TlvBytes(p.tlvs) + p.extra

encode_device_health(common, x) ==
    LET p == [schema |-> TRUE, base |-> [x EXCEPT !.mcu_temperature = None, !.vdd = None],
              extension_len |-> TlvBytes(Tlvs(x)), tlvs |-> Tlvs(x), extra |-> 0]
    IN [header |-> Header("DeviceHealth", common, 0, 1, HealthPayloadLen(p)), payload |-> p]

\* Mutant: the kinds may come in any order and more than once.
TlvsOrdered_any(tlvs) == TRUE

TlvsOrdered(tlvs) == \A i, j \in DOMAIN tlvs : i < j => tlvs[i].kind < tlvs[j].kind

\* validate_decoded_health.  A single byte after the TLVs is no TLV.
validate_decoded_health(h, p) ==
    /\ h.fragment_index = 0 /\ h.fragment_count = 1
    /\ p.schema
    /\ validate_health_flags(h.common, p.base.flags)
    /\ HealthPayloadLen(p) = HEALTH_BASE_LEN + p.extension_len
    /\ TlvsOrdered(p.tlvs)
    /\ \A i \in DOMAIN p.tlvs : p.tlvs[i].kind \in {1, 2} /\ p.tlvs[i].len = 2
    /\ p.extra = 0

\* The last TLV of a kind gives its value.
TlvValue(tlvs, kind) ==
    IF \E i \in DOMAIN tlvs : tlvs[i].kind = kind
    THEN tlvs[CHOOSE i \in DOMAIN tlvs : /\ tlvs[i].kind = kind
                                         /\ \A j \in i + 1 .. Len(tlvs) : tlvs[j].kind # kind].value
    ELSE None

HealthOf(p) ==
    [p.base EXCEPT !.mcu_temperature = TlvValue(p.tlvs, 1), !.vdd = TlvValue(p.tlvs, 2)]

decode_device_health(h, p) ==
    /\ validate_decoded_health(h, p)
    /\ validate_health_config_identity(h.common, HealthOf(p))

-----------------------------------------------------------------------------
PayloadLen(f) ==
    CASE f.header.frame_type = "ProfileFragment" -> ProfilePayloadLen(f.payload)
      [] f.header.frame_type = "DeviceConfig"    -> ConfigPayloadLen(f.payload)
      [] f.header.frame_type = "DeviceHealth"    -> HealthPayloadLen(f.payload)

\* Whether decode accepts a frame.
decode(f) ==
    /\ decode_header(f.header, HEADER_LEN + PayloadLen(f))
    /\ CASE f.header.frame_type = "ProfileFragment" -> decode_profile_fragment(f.header, f.payload)
         [] f.header.frame_type = "DeviceConfig"    -> decode_device_config(f.header, f.payload)
         [] f.header.frame_type = "DeviceHealth"    -> decode_device_health(f.header, f.payload)

-----------------------------------------------------------------------------
(***************************************************************************)
(* What the receiver keeps of a decoded frame.                             *)
(***************************************************************************)
\* OwnedFragment::from_view: window start, step count and length are left out.
from_view(f) ==
    [identity |-> f.header.common, meta |-> f.payload.meta,
     expected_fragment_count |-> f.header.fragment_count,
     fragment_index |-> f.header.fragment_index, steps |-> f.payload.steps]

\* The record keeps the steps up to expected_step_count, and derives repeated from the flags.
device_configuration(f) ==
    LET c == ConfigOf(f.payload)
    IN [identity |-> f.header.common, repeated |-> "config_repeat" \in f.header.common.flags,
        config |-> [c EXCEPT !.steps = [k \in 1 .. c.expected_step_count |-> c.steps[k - 1]]]]

\* DeviceConfiguration::validate of records.rs.
validate_configuration(r) ==
    /\ r.config.expected_step_count \in 1 .. MaxSteps
    /\ Len(r.config.steps) = r.config.expected_step_count
    /\ r.config.readback_valid \subseteq step_mask(r.config.expected_step_count)

device_health(f) == [identity |-> f.header.common, health |-> HealthOf(f.payload)]

\* ActiveProfile::finish, over the fragments received of one scan.  The code sorts the steps by
\* their index; here they are not ordered, and a step is known by the fragment and the position it
\* came from.
finish(fragments) ==
    LET first == CHOOSE g \in fragments : TRUE
        received == {g.fragment_index : g \in fragments}
        steps(i) == (CHOOSE g \in fragments : g.fragment_index = i).steps
    IN [identity |-> first.identity, meta |-> first.meta,
        expected_fragment_count |-> first.expected_fragment_count,
        received_fragments |-> received,
        steps |-> [x \in UNION {{i} \X DOMAIN steps(i) : i \in received} |-> steps(x[1])[x[2]]]]

is_transport_complete(scan) ==
    0 .. scan.expected_fragment_count - 1 \subseteq scan.received_fragments

StepsOf(scan) == {scan.steps[k].step_index : k \in DOMAIN scan.steps}

\* ProfileScan::validate of records.rs, which the store asks for before it writes.
validate(scan) ==
    LET m == scan.meta
    IN /\ m.expected_step_count \in 1 .. MaxSteps
       /\ scan.expected_fragment_count = (m.expected_step_count + 2) \div 3
       /\ m.missing_steps \cup m.duplicate_steps \subseteq step_mask(m.expected_step_count)
       /\ scan.received_fragments \subseteq 0 .. scan.expected_fragment_count - 1
       /\ m.observed_unique_step_count = m.expected_step_count - Cardinality(m.missing_steps)
       /\ m.observed_field_count >= m.observed_unique_step_count
       /\ \A k \in DOMAIN scan.steps :
             /\ scan.steps[k].step_index < m.expected_step_count
             /\ \A j \in DOMAIN scan.steps \ {k} : scan.steps[j].step_index # scan.steps[k].step_index
             /\ validate_profile_step(scan.steps[k])
             /\ scan.steps[k].step_index \div 3 \in scan.received_fragments
       /\ \A s \in step_mask(m.expected_step_count) :
             s \div 3 \in scan.received_fragments /\ s \notin m.missing_steps => s \in StepsOf(scan)
       /\ is_transport_complete(scan) =>
             step_mask(m.expected_step_count) \ StepsOf(scan) = m.missing_steps

=============================================================================
