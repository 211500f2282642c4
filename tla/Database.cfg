SPECIFICATION Spec
CONSTANT MaxDepth = 3
INVARIANTS
    SchemaMatchesRevision
    StatementsSucceed
PROPERTIES
    RecordsOutliveDeletions
CHECK_DEADLOCK FALSE
