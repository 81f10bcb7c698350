-------------------------- MODULE TemporalFeatures --------------------------
(***************************************************************************)
(* TemporalFeatureExtractor of crates/vesta-receiver/src/analysis.rs: the  *)
(* last good sample of each series, and the rates computed against it.     *)
(*                                                                         *)
(* A sample is what its caller makes of a stored reading or profile step.  *)
(* Samples arrive in any order and any number of times, as packets do.     *)
(* "scan" is the ordinal of the scan on the device: the code never sees it *)
(* and the properties use it to say what a rate was computed from.         *)
(* Channel values and the arithmetic on them are left out: a rate is the   *)
(* pair of samples it is computed from.  Times fit in 64 bits of           *)
(* microseconds, so a positive difference always converts.                 *)
(***************************************************************************)
EXTENDS Integers

CONSTANTS
    Profile,        \* v2 series: node, config, profile, revision and step
    Legacy,         \* v1 series: node
    Boot,           \* boot nonces
    MaxScan,        \* bound: the ordinal of the last scan of a boot
    MaxSequence,    \* the largest sequence number, 2^32 - 1
    FirstSequence,  \* the sequence number of scan 0
    HostTime,       \* receive times of v1 packets
    Missing         \* no boot nonce, no sample

ASSUME TemporalAssumption ==
    /\ Profile \cap Legacy = {}
    /\ Missing \notin Boot
    /\ MaxSequence \in Nat \ {0}
    /\ FirstSequence \in 0 .. MaxSequence
    /\ MaxScan \in 0 .. MaxSequence
    /\ HostTime \subseteq Nat

wrapping_add_one(n) == IF n = MaxSequence THEN 0 ELSE n + 1

\* The sequence number the device gives to a scan.
SequenceOf(scan) ==
    IF FirstSequence + scan <= MaxSequence
    THEN FirstSequence + scan
    ELSE FirstSequence + scan - (MaxSequence + 1)

\* from_profile_step: the time is device uptime, which grows from scan to scan.
\* The boot nonce is missing after an RNG failure, and such a scan fails the quality
\* gate.  A scan that is good in one call may be tainted by a conflict in the next.
ProfileSample ==
    {s \in {[series |-> x, boot |-> b, scan |-> n, sequence |-> SequenceOf(n), time |-> n,
             usable |-> u, reset |-> r] :
               x \in Profile, b \in Boot \cup {Missing}, n \in 0 .. MaxScan, u, r \in BOOLEAN} :
        s.boot = Missing => ~ s.usable}

\* from_v1: no boot nonce, no reset, and the time is the host's, which may be set
\* back between two packets.
LegacySample ==
    {[series |-> x, boot |-> Missing, scan |-> n, sequence |-> SequenceOf(n), time |-> t,
      usable |-> u, reset |-> FALSE] :
        x \in Legacy, n \in 0 .. MaxScan, t \in HostTime, u \in BOOLEAN}

Sample == ProfileSample \cup LegacySample

IsProfile(s) == s.series \in Profile

HistoryKey == (Profile \X Boot) \cup (Legacy \X {Missing})

Features == [sample : Sample, prior : Sample \cup {Missing}, reset : BOOLEAN]

\* Missing is none of the values it stands beside.
ASSUME MissingAssumption == Missing \notin HistoryKey /\ Missing \notin Sample /\ Missing \notin Features

\* A v2 sample without a boot nonce has no history.
history_key(s) == IF IsProfile(s) /\ s.boot = Missing THEN Missing ELSE <<s.series, s.boot>>

\* elapsed_since is Some: the sample is strictly newer.
Newer(s, prior) == prior.time < s.time

VARIABLES
    previous,       \* the last good sample of each history key, if any
    features        \* of the last call: its sample, the prior its rates are
                    \* computed from, if any, and temporal_history_reset

TemporalVars == <<previous, features>>

TemporalInit ==
    /\ previous = [k \in HistoryKey |-> Missing]
    /\ features = Missing

PriorOf(s) == IF history_key(s) = Missing THEN Missing ELSE previous[history_key(s)]

\* Mutant: a late sample may reset.
explicit_reset_late(s, prior) == s.reset

explicit_reset(s, prior) == s.reset /\ (prior = Missing \/ Newer(s, prior))

\* Mutant: a gap in the sequence is bridged.
sequence_gap_never(s, prior) == FALSE

sequence_gap_reset(s, prior) ==
    /\ IsProfile(s)
    /\ prior # Missing
    /\ Newer(s, prior)
    /\ s.sequence # wrapping_add_one(prior.sequence)

Reset(s) == explicit_reset(s, PriorOf(s)) \/ sequence_gap_reset(s, PriorOf(s))

\* The prior that is left once a reset has removed it.
Kept(s) == IF Reset(s) THEN Missing ELSE PriorOf(s)

\* The prior the rates use.
UsablePrevious(s) ==
    IF Kept(s) # Missing /\ s.usable /\ Kept(s).usable /\ Newer(s, Kept(s))
    THEN Kept(s) ELSE Missing

Stored_not_after_reset(s) ==
    s.usable /\ ~ Reset(s) /\ (Kept(s) = Missing \/ Newer(s, Kept(s)))

\* Whether the sample becomes the history of its key.
Stored(s) == s.usable /\ (Kept(s) = Missing \/ Newer(s, Kept(s)))

ingest(s) ==
    /\ features' = [sample |-> s, prior |-> UsablePrevious(s), reset |-> Reset(s)]
    /\ previous' =
          IF history_key(s) = Missing THEN previous
          ELSE [previous EXCEPT ![history_key(s)] = IF Stored(s) THEN s ELSE Kept(s)]

TemporalNext == \E s \in Sample : ingest(s)

TemporalSpec == TemporalInit /\ [][TemporalNext]_TemporalVars

-----------------------------------------------------------------------------
(***************************************************************************)
(* Properties.                                                             *)
(***************************************************************************)

\* The variables have the types of the extractor's fields; only good samples, of
\* their own key, are kept.
TemporalTypeOK ==
    /\ previous \in [HistoryKey -> Sample \cup {Missing}]
    /\ \A k \in HistoryKey : previous[k] # Missing =>
          previous[k].usable /\ history_key(previous[k]) = k
    /\ features \in Features \cup {Missing}

\* docs/server-analysis.md:97-104 and :138-140: a v2 rate is computed from two good
\* samples of one series in one known boot, of scans that follow each other on the
\* device, and never across a sensor recovery, whatever was lost, late, repeated
\* or bad in between, and also where the sequence number wraps.
RatesSound ==
    features # Missing /\ features.prior # Missing =>
        LET s == features.sample
            p == features.prior
        IN /\ s.usable /\ p.usable
           /\ s.series = p.series /\ s.boot = p.boot
           /\ p.time < s.time
           /\ IsProfile(s) => s.boot # Missing /\ s.scan = p.scan + 1 /\ ~ s.reset

\* A late or repeated sample neither replaces nor clears a newer history, even one
\* that reports a sensor recovery.
HistoryAdvances ==
    [][\A k \in HistoryKey : previous[k] # Missing /\ previous'[k] # previous[k] =>
          Newer(features'.sample, previous[k])]_TemporalVars

\* docs/server-analysis.md:99 "the sample becomes a fresh baseline": after a good
\* sample, its series has a history at least as new, reset or not.
BaselineFresh ==
    features # Missing /\ features.sample.usable /\ history_key(features.sample) # Missing =>
        LET prior == previous[history_key(features.sample)]
        IN prior # Missing /\ ~ Newer(features.sample, prior)

=============================================================================
