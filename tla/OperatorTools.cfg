SPECIFICATION OperatorSpec
VIEW PartView
CONSTANTS
    Ill = Ill
    Record <- MCRecord
    Digest <- MCDigest
    Genesis = "genesis"
    HashOf <- MCHashOf
    ChainPrev <- MCChainPrev
    Event <- MCEvent
    EventId <- MCEventId
    Capacity = 2
    MaxReported = 1
    None = "none"
    Streams <- MCStreams
    NoValue = novalue
    EscapingPath = {"../out"}
    Mode = {"observe", "correct", "enforce"}
    Release <- MCRelease
    ShippedFile <- MCShippedFile
    FixedEdit <- MCFixedEdit
    Detector = {"d1", "d2", "d9"}
    ThresholdEdit <- MCThresholdEdit
    Variable = {"URL", "SECRET", "OTHER"}
    MaxEdits = 2
    Installable <- MCInstallable
    Configs <- MCConfigs
    Cycle = 1
    MaxHour = 2
    MaxContent = 2
    MaxChanges = 2
    MaxSegment = 2
    MaxRecord = 3
    Exported <- MCExported
    Damaged <- MCDamaged
    Notes = 9
    Outside = Outside
    MaxDamage = 3
    FileOrder <- MCFileOrder
    Spelling <- MCSpelling
    Dotted = {"index.json."}
    Device = {"nul.json"}
    SegmentName = {"evidence-1.jsonl", "evidence-2.jsonl"}
    JsonName = {"index.json", "nul.json"}
    IndexName = {"index.json", "INDEX.json"}
    ServerFiles <- MCServerFiles
    MaxHostEdits = 3
    World <- MCWorld
    MaxListed = 1
INVARIANTS
    ChainVerdict
    ChainReport
    ConfigVerdict
    SecretsPass
    SecretsUndisturbed
    ArchiveVerdict
    HostVerdict
    CommandVerdict
PROPERTIES
    SpellingIsNoChange
