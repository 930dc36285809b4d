SPECIFICATION ReplaySpec
CONSTANTS
    QP_TARGET_SPACING = 2
    QP_STAKER_RECENT_BLOCKS = 2
    QP_STAKER_MAX_MISSES = 2
    QP_STAKER_REENABLE_WAIT = 1
    QP_NOOB_BLOCKS = 1
    QP_MIN_OF_BLOCKS_MISSED_MAX = 0
    Hashes = {0, 1}
    Shuffle <- MCShuffle
    TRIL = 100
    QP_MIN_PICO_POWER = 51
    MinEnabled = 1
    MaxStakers = 1
    ForkQPoS = 2
    ForkFeeless = 3
    ForkMissFix = 3
    ForkReinstate = 4
    ForkMissFix2 = 5
    ForkFeeless2 = 5
    NumStakers = 1
    StartTime = 1
    Gaps = {2}
    MaxHeight = 7
    MaxOps = 0
INVARIANTS
    ReentersReplay
