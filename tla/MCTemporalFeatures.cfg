SPECIFICATION TemporalSpec
CONSTANTS
    Missing = Missing
    Profile = {step}
    Legacy = {v1}
    Boot = {boot1, boot2}
    MaxScan = 3
    MaxSequence = 3
    FirstSequence = 2
    HostTime = {0, 1}
INVARIANTS
    RatesSound
    BaselineFresh
PROPERTY
    HistoryAdvances
