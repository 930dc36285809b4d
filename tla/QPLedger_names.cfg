\* three stakers choosing among reserved and ordinary aliases
CONSTANTS
    Keys = {k1}
    Aliases = {"nick", "nora", "obi", "alan", "beth"}
    NftIDs = {1, 2, 3}
    strCharKey <- CharKeys3
    Pcms = {0}
    Rewards = {3}
    DockValues = {2}
    ClaimValues = {1, 2}
    QP_MIN_SECS_PER_CLAIM = 2
    ForkQPoS = 3
    ForkReinstate = 3
    MaxStakers = 3
    MaxHeight = 2
    MaxTime = 2
SPECIFICATION Spec
INVARIANTS NftsOnePerStaker ReservedAliasFollowsNft
CHECK_DEADLOCK FALSE
