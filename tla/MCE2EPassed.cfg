SPECIFICATION Spec
CONSTANTS
    SQUADS_PROGRAM_ID = SQUADS
    Malformed = Malformed
    wallet = wallet
    Members <- MCMembers
    Threshold = 1
    Tries = 2
    Polls = 2
    Runs = 1
INVARIANT
    PassedMeansExecuted
CHECK_DEADLOCK FALSE
