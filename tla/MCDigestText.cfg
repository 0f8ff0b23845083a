SPECIFICATION Spec
CONSTANTS
    BPF_LOADER_UPGRADEABLE_ID = LOADER
    DigestLen = 1
    Sha256 <- MCSha256
    ByteValues = {0, 1, 2}
    MaxBytes = 4
    Characters <- MCCharacters
    MaxText = 3
INVARIANTS
    DigestIgnoresPaddingOnly
    ClientTrimsAlike
    OneTextPerDigest
CHECK_DEADLOCK FALSE
