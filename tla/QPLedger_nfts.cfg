\* more purchases than NFTs
CONSTANTS
    Keys = {k1}
    Aliases = {"nick", "nora", "alan", "beth", "carl"}
    NftIDs = {1, 2}
    strCharKey <- CharKeys2
    Pcms = {50000}
    Rewards = {3}
    DockValues = {2}
    ClaimValues = {1, 2}
    QP_MIN_SECS_PER_CLAIM = 2
    ForkQPoS = 2
    ForkReinstate = 3
    MaxStakers = 3
    MaxHeight = 3
    MaxTime = 4
SPECIFICATION Spec
INVARIANTS OrdinaryAliasFindsNft
CHECK_DEADLOCK FALSE
