SPECIFICATION Spec
CONSTANTS
    SQUADS_PROGRAM_ID = SQUADS
    Malformed = Malformed
    ADDRESS_LOOKUP_TABLE_PROGRAM_ID = LOOKUP
    COMPUTE_BUDGET_PROGRAM_ID = BUDGET
    BPF_LOADER_UPGRADEABLE_ID = LOADER
    DigestLen = 1
    Sha256 <- MCSha256
    SELF = SELF
    INSTRUCTIONS_SYSVAR_ID = SYSVAR
    SYSTEM_PROGRAM_ID = SYSTEM
    ms = ms
    alice = alice
    bob = bob
    dest = dest
    program = program
    dataA = dataA
    dataB = dataB
    T1 = T1
    T2 = T2
    k1 = k1
    k2 = k2
    Multisigs <- MCMultisigs
    Members <- MCMembers
    Threshold = 2
    ClearSigners <- MCMembers
    MaxIndex = 2
    Contents <- MCContents
    Tables <- MCTables
    InitialAddresses <- MCInitialAddresses
    TableKeys <- MCTableKeys
    MaxTableLen = 2
    Buffers = {}
    Builds = {}
    VAULT = VAULT
    DEPLOYER = DEPLOYER
    Transactions <- MCTransactions
    Intent <- MCIntent
INVARIANTS
    TypeOK
    SeenStaysTrue
    CInv
    TruthfulVotesAreAccepted
PROPERTY
    ImplementsClearVote
