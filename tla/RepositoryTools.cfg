SPECIFICATION UpkeepSpec
VIEW PartView
CONSTANTS
    Ill = Ill
    NoValue = novalue
    EscapingPath = {"../out"}
    Mode = {"observe", "correct", "enforce"}
    NaN = NaN
    ZeroDigest = ZeroDigest
    Registered = {"stack", "delta"}
    ShippedTrace <- MCShippedTrace
    HeaderEdit <- MCHeaderEdit
    ClockEdit <- MCClockEdit
    BudgetEdit <- MCBudgetEdit
    CaseEdit <- MCCaseEdit
    ExpectEdit <- MCExpectEdit
    EventEdit <- MCEventEdit
    MaxTraceEdits = 3
    MaxSchemaDepth = 3
    Schema <- MCSchemas
    Records <- MCRecords
    Scalar <- MCScalar
    Key = {"a", "b", "steam"}
    MaxWalk = 6
    MaxNesting = 6
    MaxDepth = 3
    MaxMutations = 2
    Pristine <- MCPristine
    Example <- MCExample
    ValueEdit <- MCValueEdit
    RangeEdit <- MCRangeEdit
    InputEdit <- MCInputEdit
    MaxGateEdits = 2
    NoDocument = NoDocument
    PartOfDocument = PartOfDocument
    Locks <- MCLocks
    MaxRelocks = 1
    Unreleased = Unreleased
    Version <- MCVersion
    ChangeType = {"Breaking", "Added", "Changed", "Deprecated", "Removed", "Fixed", "Security"}
    Heading = {"Breaking", "Fixed", "Improvements"}
    MaxReleaseEdits = 4
    Unset = Unset
    Fuzzer = {"evidence_check", "backup_status"}
    SelfTesting = {"restore_drill", "replay"}
    Exercised = {"replay"}
    ArchiveTool = {"restore_drill"}
    Distribution = {"pyyaml", "mypy", "types-pyyaml"}
    Stub = {"types-pyyaml"}
    ImportName <- MCImportName
    Place = {"tools", "tests"}
    UvRelease = {"0.12.13", "0.13.0"}
    Commit = {"3d3c42e", "c18668a"}
    Ref = {"c18668a", "v10"}
    SetupUv = "setup-uv"
    Seed = {"0", "1"}
    BackupTarget = {"backup", "backup-status"}
    Contained <- MCContained
    ShippedTree <- MCTree
    MaxRepoEdits = 3
    MaxPublished = 1
    ConfigKey <- MCConfigKey
    PlainRow <- MCPlainRow
    WideRow <- MCWideRow
    ShippedSchema <- MCContract
    ShippedKeys <- MCContractKeys
    ShippedRows <- MCContractRows
    MaxConfigDepth = 1
    MaxContractEdits = 4
    NoAnchor = NoAnchor
    Name = {"docs", "Docs", "INDEX", "index"}
    Folded <- MCFolded
    Page <- MCPage
    PageHeading <- MCPageHeading
    LinkPath <- MCLinkPath
    LinkAnchor <- MCLinkAnchor
    Fence = {"tick", "tilde"}
    MaxDocEdits = 4
    HarnessRun = {1, 2, 3}
    Iterations = {1, 2}
    MaxBeside = 1
    SegmentFile = {"a", "b"}
    IndexFile = "index"
    Bytes = {0, 1}
    MaxWrites = 3
INVARIANTS
    ReplayVerdict
    SchemaVerdict
    DetectorVerdict
    RuntimeIsReachable
    SameLockSameDocument
    NothingOmitted
    ReleaseVerdict
    RepositoryVerdict
    EveryKeyHasValue
    DocumentVerdict
    FuzzVerdict
PROPERTIES
    SealHidesNothing
    PublishingMovesNothing
