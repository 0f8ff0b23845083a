SPECIFICATION Spec
CONSTANTS
    SQUADS_PROGRAM_ID = SQUADS
    Malformed = Malformed
    ADDRESS_LOOKUP_TABLE_PROGRAM_ID = LOOKUP
    COMPUTE_BUDGET_PROGRAM_ID = BUDGET
    a = a
    b = b
    c = c
    t1 = t1
    t2 = t2
    x = x
    y = y
    z = z
    d1 = d1
    d2 = d2
    Messages <- MCMessages
    TableLists <- MCTableLists
    ExpectedLists <- MCExpectedLists
INVARIANTS
    AcceptsExactlyTheExpansion
    TamperedDataIsReported
    ClientPassesTheDiff
CHECK_DEADLOCK FALSE
