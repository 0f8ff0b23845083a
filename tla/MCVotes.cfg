SPECIFICATION Spec
CONSTANTS
    SQUADS_PROGRAM_ID = SQUADS
    Malformed = Malformed
    ADDRESS_LOOKUP_TABLE_PROGRAM_ID = LOOKUP
    COMPUTE_BUDGET_PROGRAM_ID = BUDGET
    BPF_LOADER_UPGRADEABLE_ID = LOADER
    DigestLen = 1
    Sha256 <- MCSha256
    SELF = SELF
    INSTRUCTIONS_SYSVAR_ID = SYSVAR
    SYSTEM_PROGRAM_ID = SYSTEM
    ms = ms
    alice = alice
    bob = bob
    carol = carol
    dest = dest
    transfer = transfer
    foreign = foreign
    MaxInstructions = 3
    Multisigs <- MCMultisigs
    Members <- MCMembers
    Threshold = 2
    ClearSigners <- MCClearSigners
    MaxIndex = 2
    Contents <- MCContents
    Tables = {}
    InitialAddresses <- MCInitialAddresses
    TableKeys = {}
    MaxTableLen = 0
    Buffers = {}
    Builds = {}
    VAULT = VAULT
    DEPLOYER = DEPLOYER
    Transactions <- MCTransactions
    Intent <- MCIntent
INVARIANTS
    OnlyTheShownVote
    NoBlindVote
PROPERTY
    ImplementsClearVote
