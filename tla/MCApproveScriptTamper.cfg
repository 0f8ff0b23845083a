SPECIFICATION Spec
CONSTANTS
    SQUADS_PROGRAM_ID = SQUADS
    Malformed = Malformed
    alice = alice
    bob = bob
    carol = carol
    Members <- MCMembers
    Threshold = 2
    wallet = alice
    Tries = 2
    Polls = 2
INVARIANT
    TamperedNeverVotes
CHECK_DEADLOCK FALSE
