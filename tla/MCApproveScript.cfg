SPECIFICATION Spec
CONSTANTS
    SQUADS_PROGRAM_ID = SQUADS
    Malformed = Malformed
    alice = alice
    bob = bob
    carol = carol
    Members <- MCMembers
    Threshold = 2
    wallet = alice
    Tries = 3
    Polls = 2
INVARIANTS
    TypeOK
    ScriptInv
    ApprovedMeansCounted
    RefusedMeansNoVote
    NoFalseAlarm
    OneSendReportsTruly
PROPERTIES
    Terminates
    EachCallAdvances
CHECK_DEADLOCK FALSE
