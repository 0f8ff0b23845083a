SPECIFICATION Spec
CONSTANTS
    SQUADS_PROGRAM_ID = SQUADS
    Malformed = Malformed
    wallet = wallet
    Members <- MCMembers
    Threshold = 1
    Tries = 3
    Polls = 3
    Runs = 3
INVARIANTS
    TypeOK
    ScenarioInv
    RefusedBeforeApproved
    PassedMeansApproved
    HealthyRunPasses
    HealthyInv
PROPERTIES
    Terminates
    EachCallAdvances
CHECK_DEADLOCK FALSE
