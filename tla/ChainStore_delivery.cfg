SPECIFICATION FairSpec
CONSTANTS
    Blocks <- BushBlocks
    Parent <- BushParent
    Trust <- BushTrust
    Bad = {3}
    Refused = {}
    START_PURCHASE = 1
    BLOCKS_PER_SNAPSHOT = 2
    RECENT_SNAPSHOTS = 2
    PERMANENT_SNAPSHOT_RATIO = 2
    CheckDepth = 2
    Settings <- BushSettings
PROPERTY OrphansAdopted
CHECK_DEADLOCK FALSE
