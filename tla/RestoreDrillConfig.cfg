SPECIFICATION Spec
CONSTANTS
    Drill = {w1}
    WorkDir = {w1}
    Target <- OwnTarget
    Archive = {"plain"}
    Vault <- MCVault
    Damaged <- MCDamaged
    ConfigChoice = {"foreign"}
    StagingName = {d1, d2}
    NoName = none
    MaxSegment = 2
    MaxRecord = 2
    MaxClock = 0
    StaleAge = 1
    MaxFaults = 0
INVARIANT
    FailedDrillLeavesWork
