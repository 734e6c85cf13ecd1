SPECIFICATION Spec
CONSTANTS
    Drill = {w1}
    WorkDir = {w1}
    Target <- OwnTarget
    Archive = {"indexed"}
    Vault <- MCVault
    Damaged <- MCDamaged
    ConfigChoice = {"none"}
    StagingName = {d1, d2}
    NoName = none
    MaxSegment = 2
    MaxRecord = 2
    MaxClock = 0
    StaleAge = 1
    MaxFaults = 1
INVARIANT
    FailedMoveRolledBack
