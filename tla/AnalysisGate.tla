---------------------------- MODULE AnalysisGate ----------------------------
(***************************************************************************)
(* Which scans may feed analysis: the gate of analysis.rs, joined with the *)
(* configuration records that arrive, over what the codec and the          *)
(* reassembler make of the frames of one node that scans, restarts and     *)
(* scans again.                                                            *)
(*                                                                         *)
(* The records are those of ProtocolV2 with the fields the gate looks at:  *)
(* a step has its status bits, the quantities out of range, whether its    *)
(* gas resistance is zero, and the heater settings it was taken with; the  *)
(* metadata have their profile and anomalies, the counters that must be    *)
(* zero; a configuration has its profile and its settings.                 *)
(***************************************************************************)
EXTENDS ProtocolV2

CONSTANTS
    Histories,      \* pairs of scans the node may take: [common, meta, steps, config]
    Configurations, \* records a node may announce: [common, config]
    MaxCount        \* bound of the duplicate and conflict counters

\* A configuration has settings for its own steps.
SettingsPerStep(config) ==
    config.settings = [s \in step_mask(config.expected_step_count) |-> config.settings[s]]

\* A node takes a scan under one configuration, each step with the settings that it gives the
\* position, and names it by its hash, or by 0 when it knows that the two do not agree.  A step
\* that it marks as read back has read-back values.
NodeScan(x) ==
    /\ SettingsPerStep(x.config)
    /\ x.config.expected_step_count = x.meta.expected_step_count
    /\ x.config.profile = x.meta.profile
    /\ x.common.config_id \in {0, fnv1a64(write_config_payload(x.config))}
    /\ \A s \in StepIndex : x.steps[s] # None => x.steps[s].settings = x.config.settings[s]
    /\ \A s \in x.config.readback_valid : x.config.steps[s] = 2

\* The fields of a configuration that the gate looks at.
ConfigFields == {"flags", "expected_step_count", "readback_valid", "profile", "settings", "steps"}

ASSUME GateAssumption == MaxCount \in Nat \ {0}
ASSUME HistoriesAssumption == \A m \in Histories : NodeScan(m[1]) /\ NodeScan(m[2])
ASSUME ConfigurationsAssumption ==
    \A c \in Configurations :
        c.common \in Common /\ ConfigFields \subseteq DOMAIN c.config /\ SettingsPerStep(c.config)

VARIABLES
    measured,       \* the node's two scans, with a restart in between
    records,        \* of each key: the scan as the receiver has it
    known           \* configuration records received

GateVars == <<measured, records, known>>

KeyOf(common) ==
    [origin |-> common.origin, boot_id_valid |-> "boot_id_valid" \in common.flags,
     boot_id |-> common.boot_id, config_id |-> common.config_id]

Keys == {KeyOf(measured[n].common) : n \in 1 .. 2}

-----------------------------------------------------------------------------
(***************************************************************************)
(* Quality of one step and of one scan.                                    *)
(***************************************************************************)
sample_quality(step) ==
    {"NOT_NEW_DATA" : b \in {"new_data"} \ step.status_bits}
    \cup {"GAS_INVALID" : b \in {"gas_valid"} \ step.status_bits}
    \cup {"HEATER_UNSTABLE" : b \in {"heater_stable"} \ step.status_bits}
    \cup {"UNKNOWN_STATUS" : b \in {"unknown"} \cap step.status_bits}
    \cup step.out_of_range
    \cup {"GAS_RESISTANCE_ZERO" : z \in {TRUE} \cap {step.gas_zero}}

\* Mutant: duplicate observations are critical.
ANALYSIS_ALLOWED_COLLECTION_FLAGS_strict == {"sensor_reconfigured"}

ANALYSIS_ALLOWED_COLLECTION_FLAGS == {"duplicate", "sensor_reconfigured"}

computed_unavailable_steps(scan) == step_mask(scan.meta.expected_step_count) \ StepsOf(scan)

\* Mutants: the boot nonce is not asked for; repeated fragments count against the scan.
profile_scan_allows_analysis_any_boot(scan) ==
    /\ validate(scan)
    /\ is_transport_complete(scan)
    /\ computed_unavailable_steps(scan) = {}
    /\ scan.meta.finish_reason = "complete"
    /\ scan.meta.collection_flags \subseteq ANALYSIS_ALLOWED_COLLECTION_FLAGS
    /\ scan.meta.anomalies = 0
    /\ scan.conflicts = 0

profile_scan_allows_analysis_single(scan) ==
    /\ profile_scan_allows_analysis_any_boot(scan)
    /\ "boot_id_valid" \in scan.identity.flags
    /\ scan.duplicates = 0

profile_scan_allows_analysis(scan) ==
    /\ validate(scan)
    /\ "boot_id_valid" \in scan.identity.flags
    /\ is_transport_complete(scan)
    /\ computed_unavailable_steps(scan) = {}
    /\ scan.meta.finish_reason = "complete"
    /\ scan.meta.collection_flags \subseteq ANALYSIS_ALLOWED_COLLECTION_FLAGS
    /\ scan.meta.anomalies = 0
    /\ scan.conflicts = 0

\* Every step was taken with the settings the configuration gives its position.
SettingsMatch(scan, c) ==
    \A k \in DOMAIN scan.steps :
        /\ scan.steps[k].step_index < Len(c.config.steps)
        /\ c.config.settings[scan.steps[k].step_index] = scan.steps[k].settings

configuration_resolved(scan, c) ==
    /\ validate_configuration(c)
    /\ "read_back" \in c.config.flags
    /\ c.config.readback_valid = step_mask(c.config.expected_step_count)
    /\ c.identity.origin = scan.identity.origin
    /\ c.identity.config_id = scan.identity.config_id
    /\ c.config.profile = scan.meta.profile
    /\ c.config.expected_step_count = scan.meta.expected_step_count
    /\ SettingsMatch(scan, c)

extract_profile_features_inner(scan, resolved) ==
    LET allowed == profile_scan_allows_analysis(scan)
        quality(step) ==
            sample_quality(step) \cup {"PROFILE_SCAN_UNUSABLE" : b \in {FALSE} \cap {allowed}}
        usable == allowed /\ \A k \in DOMAIN scan.steps : quality(scan.steps[k]) = {}
    IN [profile_quality_usable |-> usable,
        configuration_resolved |-> resolved,
        usable_for_analysis |-> usable /\ resolved]

extract_profile_features_with_configuration(scan, c) ==
    extract_profile_features_inner(scan, configuration_resolved(scan, c))

-----------------------------------------------------------------------------
(***************************************************************************)
(* The receiver's record of a key: fragments join, repeat or contradict it *)
(* (reassembly.rs, database.rs).                                           *)
(***************************************************************************)
Empty == [fragments |-> {}, duplicates |-> 0, conflicts |-> 0]

Bump(n) == IF n < MaxCount THEN n + 1 ELSE MaxCount

Ingest(r, g) ==
    CASE \A o \in r.fragments : /\ o.identity = g.identity /\ o.meta = g.meta
                                /\ o.fragment_index # g.fragment_index ->
            [r EXCEPT !.fragments = @ \cup {g}]
      [] g \in r.fragments -> [r EXCEPT !.duplicates = Bump(@)]
      [] OTHER -> [r EXCEPT !.conflicts = Bump(@)]

\* ActiveProfile::finish with the receiver's counters.
ScanOf(r) ==
    LET scan == finish(r.fragments)
    IN [identity |-> scan.identity, meta |-> scan.meta, steps |-> scan.steps,
        expected_fragment_count |-> scan.expected_fragment_count,
        received_fragments |-> scan.received_fragments,
        duplicates |-> r.duplicates, conflicts |-> r.conflicts]

\* The restarted node draws another nonce, or has none again.  Without one its scan may have
\* the sequence, the uptime and the configuration of the scan before.
GateInit ==
    /\ measured \in {m \in Histories :
          /\ \A n \in 1 .. 2 : encodes_profile(m[n].common, m[n].meta, m[n].steps)
          /\ "boot_id_valid" \in m[1].common.flags /\ "boot_id_valid" \in m[2].common.flags =>
                m[1].common.boot_id # m[2].common.boot_id
          /\ \A s \in StepIndex : m[1].steps[s] # None /\ m[2].steps[s] # None =>
                m[1].steps[s].measured # m[2].steps[s].measured}
    /\ records = [k \in Keys |-> Empty]
    /\ known = {}

ReceiveFragment(n, i) ==
    LET frames == encode_profile(measured[n].common, measured[n].meta, measured[n].steps)
        k == KeyOf(measured[n].common)
    IN /\ i \in DOMAIN frames
       /\ decode(frames[i])
       /\ records' = [records EXCEPT ![k] = Ingest(@, from_view(frames[i]))]
       /\ UNCHANGED <<measured, known>>

ReceiveConfiguration(c) ==
    /\ encodes_device_config(c.common, c.config)
    /\ LET frame == encode_device_config(c.common, c.config, FALSE)
       IN decode(frame) /\ known' = known \cup {device_configuration(frame)}
    /\ UNCHANGED <<measured, records>>

GateNext ==
    \/ \E n \in 1 .. 2, i \in 0 .. MAX_PROFILE_FRAGMENTS - 1 : ReceiveFragment(n, i)
    \/ \E c \in Configurations : ReceiveConfiguration(c)

GateSpec == GateInit /\ [][GateNext]_GateVars

-----------------------------------------------------------------------------
(***************************************************************************)
(* Properties.                                                             *)
(***************************************************************************)
Usable(r, c) ==
    r.fragments # {} /\ extract_profile_features_with_configuration(ScanOf(r), c).usable_for_analysis

\* docs/server-analysis.md:103-125: the steps of a usable scan are all those of one scan that the
\* node took, with the settings of the configuration in force and read back from the sensor, also
\* when another configuration has the same hash.  Fragments of two boots that cannot be told apart
\* join without a conflict when each boot delivers half, and only the gate keeps such a scan out.
UsableIsOneScan ==
    \A k \in Keys, c \in known :
        Usable(records[k], c) =>
            \E n \in 1 .. 2 :
                LET steps  == ScanOf(records[k]).steps
                    config == measured[n].config
                IN /\ KeyOf(measured[n].common) = k
                   /\ \A s \in step_mask(measured[n].meta.expected_step_count) :
                         \E j \in DOMAIN steps : steps[j] = measured[n].steps[s]
                   /\ c.identity.origin = measured[n].common.origin
                   /\ config.settings = c.config.settings
                   /\ \A s \in step_mask(config.expected_step_count) :
                         s \in config.readback_valid /\ config.steps[s] = 2

\* A scan that was ready for analysis stays so when fragments are repeated and configurations
\* arrive; a conflict, and nothing else, takes it back, and for good.
OnlyConflictsWithdraw ==
    [][\A k \in Keys, c \in known :
          /\ Usable(records[k], c) /\ ~ Usable(records'[k], c) => records'[k].conflicts > 0
          /\ records[k].conflicts > 0 => ~ Usable(records'[k], c)]_GateVars

\* What the node itself finds nothing wrong with: observations may be duplicate, and the sensor may
\* have been configured anew before the scan.
Clean(n) ==
    LET m == measured[n].meta
    IN /\ "boot_id_valid" \in measured[n].common.flags
       /\ m.finish_reason = "complete" /\ m.missing_steps = {} /\ m.anomalies = 0
       /\ m.collection_flags \subseteq {"duplicate", "sensor_reconfigured"}
       /\ \A s \in step_mask(m.expected_step_count) :
             LET step == measured[n].steps[s]
             IN /\ step.status_bits = {"new_data", "gas_valid", "heater_stable"}
                /\ step.out_of_range = {} /\ ~ step.gas_zero

\* The gate is not too strict: a scan the node finds nothing wrong with is usable once all its
\* fragments and a fully read-back record of its own configuration have arrived, in whatever
\* order, repeated or not (docs/server-analysis.md:130-136).
CleanBecomesUsable ==
    \A n \in 1 .. 2, c \in known :
        LET r == records[KeyOf(measured[n].common)]
            own == measured[n].config
        IN /\ Clean(n)
           /\ Cardinality(r.fragments) = profile_fragment_count(own.expected_step_count)
           /\ c.identity.origin = measured[n].common.origin
           /\ c.config.settings = own.settings /\ c.identity.config_id = measured[n].common.config_id
           /\ "read_back" \in c.config.flags
           /\ c.config.readback_valid = step_mask(c.config.expected_step_count)
           => Usable(r, c)

=============================================================================
