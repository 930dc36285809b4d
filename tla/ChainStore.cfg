SPECIFICATION Spec
CONSTANTS
    Blocks <- ForkedBlocks
    Parent <- ForkedParent
    Trust <- ForkedTrust
    Bad = {8}
    Refused = {12}
    START_PURCHASE = 1
    BLOCKS_PER_SNAPSHOT = 2
    RECENT_SNAPSHOTS = 2
    PERMANENT_SNAPSHOT_RATIO = 2
    CheckDepth = 2
    Settings <- ForkedSettings
INVARIANTS
    
    RegistryIsOfOneBlock
    RewindIsExact
    RegistrySurvivesRestart
    HeaviestKnown
    LinksExact
    IntactUnlessHarmed
    OrphansWaitForParent
PROPERTIES
    RestartFailsOnlyAboveSnapshot
    ImplementsBestChain
CHECK_DEADLOCK FALSE
