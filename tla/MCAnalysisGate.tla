--------------------------- MODULE MCAnalysisGate ---------------------------
EXTENDS AnalysisGate

\* A hash that tells the number of read-back steps and nothing else: configurations with
\* different settings have the same id.
MCHash(p) == Cardinality(p.base.readback_valid)

N == MaxSteps

Config(settings, readback) ==
    [flags |-> {"hash_valid"} \cup (IF readback = {} THEN {} ELSE {"read_back"}),
     build_flags |-> {}, build_id |-> 0, output_routes |-> {"lora"}, profile_identity |-> TRUE,
     in_range |-> TRUE, expected_step_count |-> N, readback_valid |-> readback,
     hash_algorithm |-> 1, calibration_hash |-> 1, profile |-> 1, settings |-> settings,
     steps |-> [s \in StepIndex |-> IF s \in readback THEN 2 ELSE 1]]

Low == [s \in StepIndex |-> "low"]
High == [Low EXCEPT ![N - 1] = "high"]

Full == StepIndex

NodeConfigs == {Config(Low, Full), Config(High, Full), Config(Low, Full \ {0})}

NodeCommon(node, boot, config) ==
    [flags |-> IF boot = 0 THEN {} ELSE {"boot_id_valid"}, origin |-> node, boot_id |-> boot,
     config_id |-> config, reset_cause_flags |-> {}]

Meta(flags, finish_reason, missing, anomalies) ==
    [profile_identity |-> TRUE, profile |-> 1, expected_step_count |-> N,
     observed_unique_step_count |-> N - Cardinality(missing), observed_field_count |-> N,
     missing_steps |-> missing, duplicate_steps |-> {}, collection_flags |-> flags,
     finish_reason |-> finish_reason, intermediate_field_count |-> 1, anomalies |-> anomalies]

Good == {"new_data", "gas_valid", "heater_stable"}

Step(s, scan, settings, status, range, zero) ==
    [step_index |-> s, gas_index |-> s, raw_agrees |-> TRUE, measured |-> scan,
     status_bits |-> status, out_of_range |-> range, gas_zero |-> zero, settings |-> settings]

\* The last step is as given, the others are good.
MCScan(scan, boot, config, meta, status, range, zero) ==
    [common |-> NodeCommon(1, boot, IF "config_mismatch" \in meta.collection_flags
                                THEN 0 ELSE fnv1a64(write_config_payload(config))),
     meta |-> meta, config |-> config,
     steps |-> [s \in StepIndex |->
        IF s \in meta.missing_steps THEN None
        ELSE IF s = N - 1 THEN Step(s, scan, config.settings[s], status, range, zero)
        ELSE Step(s, scan, config.settings[s], Good, {}, FALSE)]]

Clear == Meta({}, "complete", {}, 0)

FaultyMetas ==
    {Meta({"stale_pre_scan_fields"}, "complete", {}, 0), Meta({}, "complete", {}, 1),
     Meta({}, "complete", {1}, 0), Meta({}, "incomplete", {}, 0),
     Meta({"config_mismatch"}, "incomplete", {}, 0)}

\* The first scan may have any one fault, or no nonce; the second is good, of any boot and configuration.
First ==
    {MCScan(1, b, c, m, Good, {}, FALSE) :
        b \in 0 .. 1, c \in NodeConfigs, m \in {Clear, Meta({"duplicate"}, "complete", {}, 0)}}
    \cup {MCScan(1, 1, Config(Low, Full), m, Good, {}, FALSE) : m \in FaultyMetas}
    \cup {MCScan(1, 1, Config(Low, Full), Clear, Good \ {"gas_valid"}, {}, FALSE),
          MCScan(1, 1, Config(Low, Full), Clear, Good \cup {"unknown"}, {}, FALSE),
          MCScan(1, 1, Config(Low, Full), Clear, Good, {"PRESSURE_OUT_OF_RANGE"}, FALSE),
          MCScan(1, 1, Config(Low, Full), Clear, Good, {}, TRUE)}

Second ==
    {MCScan(2, b, c, Clear, Good, {}, FALSE) :
        b \in {0, 2}, c \in {Config(Low, Full), Config(High, Full)}}

MCHistories == First \X Second

\* The configurations of the node, and the first of another node.
MCConfigurations ==
    {[common |-> NodeCommon(1, 1, 0), config |-> c] : c \in NodeConfigs}
    \cup {[common |-> NodeCommon(2, 1, 0), config |-> Config(Low, Full)]}

=============================================================================
