SPECIFICATION SchemaSpec
CONSTANTS
    Ill = Ill
    MaxSchemaDepth = 4
    Schema <- MCSchemas
    Records <- MCRecords
    Scalar <- MCScalar
    Key = {"a", "b", "steam"}
    MaxWalk = 6
    MaxNesting = 6
    MaxDepth = 3
    MaxMutations = 2
INVARIANT GateSeesEveryBag
CHECK_DEADLOCK FALSE
