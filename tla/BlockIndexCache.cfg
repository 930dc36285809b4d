SPECIFICATION Spec
CONSTANTS
    reader = reader
    main = main
    Hashes = {1, 2, 3}
    Readers = {reader}
    Handler = main
    MAX_CACHE_SIZE = 2
    Times = {1, 2}
    MaxVersion = 1
    MaxAborts = 1
INVARIANTS
    LookupMatchesCache
    CacheBounded
    
