\* unreferenced keys leave the ledger when rounds keep ending
CONSTANTS
    Keys = {k1, k2}
    Aliases = {"nick", "nora"}
    NftIDs = {1, 2}
    strCharKey <- CharKeys2
    Pcms = {50000}
    Rewards = {3}
    DockValues = {2}
    ClaimValues = {1, 2}
    QP_MIN_SECS_PER_CLAIM = 2
    ForkQPoS = 2
    ForkReinstate = 0
    MaxStakers = 1
    MaxHeight = 4
    MaxTime = 4
SPECIFICATION FairSpec
PROPERTIES UnreferencedLeave
CHECK_DEADLOCK FALSE
