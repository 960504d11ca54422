SPECIFICATION Spec
CONSTANTS
    Keys <- MCKeys
    MaxNestingDepth = 3
    MaxJsonValues = 5
    MaxObjectMembers = 3
    MaxArrayItems = 2
    DiagnosticLimits = {0, 1, 2}
    SchemaErrors = {1, 2, 3}
    MaxSchemaErrors = 4
INVARIANT WithinBudgets
INVARIANT BudgetsAddUp
INVARIANT RetentionIsBounded
INVARIANT ResultIsCoherent
CHECK_DEADLOCK FALSE
