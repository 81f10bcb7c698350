SPECIFICATION GateSpec
CONSTANTS
    None = None
    MaxSteps = 4
    fnv1a64 <- MCHash
    Histories <- MCHistories
    Configurations <- MCConfigurations
    MaxCount = 1
INVARIANTS
    UsableIsOneScan
    CleanBecomesUsable
PROPERTIES
    OnlyConflictsWithdraw
