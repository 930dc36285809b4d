\* two stakers sharing two keys: references, balances and claims
CONSTANTS
    Keys = {k1, k2}
    Aliases = {"nick", "nora"}
    NftIDs = {1, 2}
    strCharKey <- CharKeys2
    Pcms = {50000}
    Rewards = {3}
    DockValues = {2}
    ClaimValues = {1, 2}
    QP_MIN_SECS_PER_CLAIM = 4
    ForkQPoS = 2
    ForkReinstate = 3
    MaxStakers = 2
    MaxHeight = 3
    MaxTime = 5
SPECIFICATION Spec
INVARIANTS TypeOK ActiveCountsReferences LedgerDomains BalancesNonNegative  Conservation
PROPERTIES ReferencedKeepBalance
SYMMETRY KeySymmetry
CHECK_DEADLOCK FALSE
