------------------------------ MODULE MCWireV2 ------------------------------
EXTENDS WireV2

\* A hash with collisions, zero among its values.
MCHash(p) == (Len(p.steps) + Cardinality(p.base.readback_valid) + p.base.calibration_hash) % 4

Boot(flags, boot, config) ==
    [flags |-> flags, origin |-> 1, boot_id |-> boot, config_id |-> config, reset_cause_flags |-> {}]

Commons ==
    {Boot({"boot_id_valid"}, 1, 1), Boot({}, 0, 0), Boot({}, 1, 1),
     Boot({"from_hw_rng"}, 0, 1)}

Meta(count, missing) ==
    [profile_identity |-> TRUE, expected_step_count |-> count,
     observed_unique_step_count |-> count - Cardinality(missing),
     observed_field_count |-> count, missing_steps |-> missing, duplicate_steps |-> {},
     collection_flags |-> {"config_mismatch"}, finish_reason |-> "incomplete",
     intermediate_field_count |-> 0]

Step(s) == [step_index |-> s, gas_index |-> s, raw_agrees |-> TRUE, measured |-> s]

Steps(count, missing) ==
    [s \in StepIndex |-> IF s < count /\ s \notin missing THEN Step(s) ELSE None]

Scan(common, meta, steps) == [kind |-> "scan", common |-> common, meta |-> meta, steps |-> steps]

\* Scans with every set of missing steps, of the long ones in the windows at both ends, ...
Missing(n) == SUBSET {s \in 0 .. n - 1 : n > 5 => s \in {0, 1, n - 2, n - 1}}

ValidScans ==
    UNION {{Scan(c, Meta(n, g), Steps(n, g)) : g \in Missing(n)} :
              n \in 1 .. MaxSteps, c \in {Boot({"boot_id_valid"}, 1, 1), Boot({}, 0, 0)}}

\* ... and scans whose metadata or steps disagree.
OddScans ==
    LET n == MaxSteps
    IN {Scan(c, m, Steps(n, {1})) : c \in Commons, m \in AlteredMeta(Meta(n, {1}))}
       \cup {Scan(c, Meta(n, {}), [Steps(n, {}) EXCEPT ![0] = s]) :
                c \in Commons, s \in AlteredStep(Step(0)) \cup {None}}

Config(n) ==
    [flags |-> {"hash_valid"}, build_flags |-> {"id_valid"}, build_id |-> 1,
     output_routes |-> {"lora"}, profile_identity |-> TRUE, in_range |-> TRUE,
     expected_step_count |-> n, readback_valid |-> {0}, hash_algorithm |-> 1,
     calibration_hash |-> 1, steps |-> [s \in StepIndex |-> IF s = 0 THEN 2 ELSE IF s < n THEN 1 ELSE 0]]

OddConfigs(c) ==
    {[c EXCEPT !.flags = {}], [c EXCEPT !.build_flags = {}], [c EXCEPT !.flags = {"unknown"}],
     [c EXCEPT !.output_routes = {}], [c EXCEPT !.in_range = FALSE],
     [c EXCEPT !.expected_step_count = 0], [c EXCEPT !.expected_step_count = MaxSteps + 1],
     [c EXCEPT !.readback_valid = {}], [c EXCEPT !.readback_valid = {MaxSteps}],
     [c EXCEPT !.hash_algorithm = 0], [c EXCEPT !.steps[MaxSteps - 1] = 2]}

Configs ==
    {[kind |-> "config", common |-> c, config |-> k, repeated |-> r] :
        c \in Commons, r \in BOOLEAN,
        k \in UNION {{Config(n)} \cup OddConfigs(Config(n)) : n \in 1 .. MaxSteps}}

Healths ==
    {[kind |-> "health", common |-> c,
      health |-> [flags |-> g, profile_id |-> i, profile_version |-> v,
                  mcu_temperature |-> t, vdd |-> d]] :
        c \in Commons, g \in SUBSET {"boot_id_unavailable", "config_mismatch", "unknown"},
        i \in 0 .. 1, v \in 0 .. 1, t \in {None, 5}, d \in {None, 6}}

MCRecords == ValidScans \cup OddScans \cup Configs \cup Healths

\* Frames are altered of scans of a full and a partial fragment, with nothing, a step or a whole
\* fragment missing, and of small configurations.
MCAlterable ==
    {r \in MCRecords : /\ r.kind = "scan" => /\ r.meta.expected_step_count = 4
                                              /\ r.meta.missing_steps \in {{}, {1}, {3}, {0, 1, 2}}
                       /\ r.kind = "config" => r.config.expected_step_count <= 2}

=============================================================================
