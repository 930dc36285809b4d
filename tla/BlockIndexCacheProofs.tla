----------------------- MODULE BlockIndexCacheProofs -----------------------
(***************************************************************************)
(* The two structures of the cache agree and the cache is bounded, for     *)
(* every number of threads and blocks, every size and every behaviour of   *)
(* the clock.                                                              *)
(***************************************************************************)
EXTENDS BlockIndexCache, FiniteSetTheorems, WellFoundedInduction, TLAPS

(* The types of the state, as far as the argument uses them.               *)
CacheTypes ==
    /\ pc \in [Threads -> {Idle, Absent, "lookup", "readdb", "lock", "store"}]
    /\ arg = [t \in Threads |-> [hash |-> arg[t].hash, val |-> arg[t].val]]
    /\ \A t \in Threads : pc[t] \notin {Idle, Absent} => arg[t].hash \in Hashes
    /\ mapCache = [h \in DOMAIN mapCache |-> mapCache[h]]
    /\ DOMAIN mapCache \subseteq Hashes
    /\ \A h \in DOMAIN mapCache : mapCache[h].time \in Times

(* The inductive invariant.                                                *)
CacheInv == CacheTypes /\ LookupMatchesCache /\ CacheBounded

(* One cache, as the helpers take and return it.                           *)
Sound(c) ==
    /\ c.map = [h \in DOMAIN c.map |-> c.map[h]]
    /\ DOMAIN c.map \subseteq Hashes
    /\ \A h \in DOMAIN c.map : c.map[h].time \in Times
    /\ c.lookup = {<<c.map[h].time, h>> : h \in DOMAIN c.map}
    /\ IsFiniteSet(DOMAIN c.map)
    /\ Cardinality(DOMAIN c.map) <= MAX_CACHE_SIZE

-----------------------------------------------------------------------------
(* A set of natural numbers that is not empty has a least element.         *)
LEMMA LeastNatural ==
    ASSUME NEW T, T \subseteq Nat, T # {}
    PROVE  \E m \in T : \A n \in T : m <= n
<1>1. PICK m \in T : \A n \in T : ~ (<<n, m>> \in OpToRel(<, Nat))
  BY NatLessThanWellFounded, WFMin, Zenon
<1>2. ASSUME NEW n \in T
      PROVE  m <= n
  <2>1. m \in Nat /\ n \in Nat
    OBVIOUS
  <2>2. n < m => <<n, m>> \in OpToRel(<, Nat)
    BY <2>1 DEF OpToRel
  <2>3. ~ (n < m)
    BY <1>1, <2>2, Zenon
  <2> QED
    BY <2>1, <2>3
<1> QED
  BY <1>2

(* setLookup.begin() is an element of a set of pairs that is not empty:    *)
(* pairs of numbers have a least one in the order of the set.              *)
LEMMA OldestMember ==
    ASSUME NEW L, L \subseteq Nat \X Nat, L # {}
    PROVE  Oldest(L) \in L
<1> DEFINE T == {p[1] : p \in L}
<1>1. T \subseteq Nat /\ T # {}
  OBVIOUS
<1>2. PICK m \in T : \A n \in T : m <= n
  BY <1>1, LeastNatural
<1> DEFINE H == {h \in Nat : <<m, h>> \in L}
<1>3. H \subseteq Nat /\ H # {}
  <2>1. PICK p \in L : m = p[1]
    BY <1>2
  <2>2. p = <<m, p[2]>> /\ p[2] \in Nat
    BY <2>1
  <2> QED
    BY <2>1, <2>2
<1>4. PICK k \in H : \A n \in H : k <= n
  BY <1>3, LeastNatural
<1>5. ASSUME NEW q \in L
      PROVE  m < q[1] \/ (m = q[1] /\ k <= q[2])
  <2>1. q[1] \in T /\ q[1] \in Nat /\ q[2] \in Nat /\ q = <<q[1], q[2]>>
    OBVIOUS
  <2>2. m <= q[1] /\ m \in Nat
    BY <2>1, <1>1, <1>2
  <2>3. CASE m = q[1]
    <3>1. q[2] \in H
      BY <2>1, <2>3
    <3> QED
      BY <3>1, <2>3, <1>4
  <2> QED
    BY <2>1, <2>2, <2>3
<1>6. <<m, k>> \in L
  BY <1>4
<1>7. \E p \in L : \A q \in L : p[1] < q[1] \/ (p[1] = q[1] /\ p[2] <= q[2])
  <2> DEFINE p == <<m, k>>
  <2>1. p[1] = m /\ p[2] = k
    OBVIOUS
  <2>2. \A q \in L : p[1] < q[1] \/ (p[1] = q[1] /\ p[2] <= q[2])
    BY <2>1, <1>5
  <2> QED
    BY <1>6, <2>2
<1> QED
  BY <1>7 DEF Oldest

(* A sound cache has pairs of numbers in setLookup.                        *)
LEMMA LookupPairs ==
    ASSUME NEW c, Sound(c)
    PROVE  c.lookup \subseteq Nat \X Nat
<1>1. ASSUME NEW p \in c.lookup
      PROVE  p \in Nat \X Nat
  <2>1. PICK h \in DOMAIN c.map : p = <<c.map[h].time, h>>
    BY DEF Sound
  <2>2. h \in Nat /\ c.map[h].time \in Nat
    BY CacheAssumption DEF Sound
  <2> QED
    BY <2>1, <2>2
<1> QED
  BY <1>1

(* A cache without the entry of h and its pair.                            *)
Dropped(c, h) == [map |-> Without(c.map, h),
                  lookup |-> c.lookup \ {<<c.map[h].time, h>>}]

(* Without one entry of the map and its pair the cache stays sound.        *)
LEMMA WithoutSound ==
    ASSUME NEW c, Sound(c), NEW h \in DOMAIN c.map
    PROVE  /\ Sound(Dropped(c, h))
           /\ DOMAIN Dropped(c, h).map = DOMAIN c.map \ {h}
           /\ Cardinality(DOMAIN Dropped(c, h).map) < MAX_CACHE_SIZE
<1> DEFINE d == Dropped(c, h)
<1>1. d.map = [k \in DOMAIN c.map \ {h} |-> c.map[k]] /\ DOMAIN d.map = DOMAIN c.map \ {h}
  BY DEF Without, Dropped
<1>2. d.lookup = {<<d.map[k].time, k>> : k \in DOMAIN d.map}
  BY <1>1 DEF Sound, Dropped
<1>3. /\ IsFiniteSet(DOMAIN d.map)
      /\ Cardinality(DOMAIN d.map) = Cardinality(DOMAIN c.map) - 1
  BY <1>1, FS_RemoveElement DEF Sound
<1>4. Cardinality(DOMAIN c.map) \in Nat /\ MAX_CACHE_SIZE \in Nat
  BY FS_CardinalityType, CacheAssumption DEF Sound
<1>5. Cardinality(DOMAIN d.map) < MAX_CACHE_SIZE
  BY <1>3, <1>4 DEF Sound
<1>6. Sound(d)
  BY <1>1, <1>2, <1>3, <1>4, <1>5 DEF Sound
<1> HIDE DEF d
<1> QED
  BY <1>1, <1>5, <1>6 DEF d

(* RemoveFromCacheLocked of a block that has an entry.                     *)
LEMMA RemoveSound ==
    ASSUME NEW c, Sound(c), NEW h \in DOMAIN c.map
    PROVE  /\ Sound(RemoveFromCacheLocked(c, h))
           /\ h \notin DOMAIN RemoveFromCacheLocked(c, h).map
           /\ Cardinality(DOMAIN RemoveFromCacheLocked(c, h).map) < MAX_CACHE_SIZE
<1>1. RemoveFromCacheLocked(c, h) = Dropped(c, h)
  BY DEF RemoveFromCacheLocked, Dropped
<1>2. h \notin DOMAIN Dropped(c, h).map
  BY WithoutSound
<1> QED
  BY <1>1, <1>2, WithoutSound

(* EvictOldestIfFullLocked makes room and adds nothing.                    *)
LEMMA EvictSound ==
    ASSUME NEW c, Sound(c)
    PROVE  /\ Sound(EvictOldestIfFullLocked(c))
           /\ DOMAIN EvictOldestIfFullLocked(c).map \subseteq DOMAIN c.map
           /\ Cardinality(DOMAIN EvictOldestIfFullLocked(c).map) < MAX_CACHE_SIZE
<1>1. CASE Cardinality(DOMAIN c.map) < MAX_CACHE_SIZE
  BY <1>1 DEF EvictOldestIfFullLocked
<1>2. CASE ~ (Cardinality(DOMAIN c.map) < MAX_CACHE_SIZE)
  <2>1. DOMAIN c.map # {}
    BY <1>2, FS_EmptySet, CacheAssumption
  <2>2. c.lookup # {}
    <3>1. PICK k \in DOMAIN c.map : TRUE
      BY <2>1
    <3>2. <<c.map[k].time, k>> \in c.lookup
      BY <3>1 DEF Sound
    <3> QED
      BY <3>2
  <2>3. Oldest(c.lookup) \in c.lookup
    BY <2>2, LookupPairs, OldestMember
  <2>4. PICK h \in DOMAIN c.map : Oldest(c.lookup) = <<c.map[h].time, h>>
    BY <2>3 DEF Sound
  <2>5. EvictOldestIfFullLocked(c) = Dropped(c, h)
    BY <1>2, <2>4 DEF EvictOldestIfFullLocked, Dropped
  <2>6. DOMAIN Dropped(c, h).map \subseteq DOMAIN c.map
    BY WithoutSound
  <2> QED
    BY <2>5, <2>6, WithoutSound
<1> QED
  BY <1>1, <1>2

(* InsertIntoCacheLocked of a block that has no entry, where there is room. *)
LEMMA InsertSound ==
    ASSUME NEW c, Sound(c), NEW h \in Hashes, h \notin DOMAIN c.map, NEW v,
           NEW now \in Times, Cardinality(DOMAIN c.map) < MAX_CACHE_SIZE
    PROVE  Sound(InsertIntoCacheLocked(c, h, v, now))
<1> DEFINE d == InsertIntoCacheLocked(c, h, v, now)
<1>1. d.map = [k \in DOMAIN c.map \cup {h} |->
                  IF k = h THEN [time |-> now, val |-> v] ELSE c.map[k]]
  BY DEF InsertIntoCacheLocked
<1>2. DOMAIN d.map = DOMAIN c.map \cup {h}
  BY <1>1
<1>3. d.map[h].time = now /\ \A k \in DOMAIN c.map : d.map[k] = c.map[k]
  BY <1>1
<1>4. d.lookup = {<<d.map[k].time, k>> : k \in DOMAIN d.map}
  <2>1. d.lookup = c.lookup \cup {<<now, h>>}
    BY DEF InsertIntoCacheLocked
  <2> HIDE DEF d
  <2> QED
    BY <2>1, <1>2, <1>3 DEF Sound
<1>5. /\ IsFiniteSet(DOMAIN d.map)
      /\ Cardinality(DOMAIN d.map) = Cardinality(DOMAIN c.map) + 1
  <2> HIDE DEF d
  <2>1. IsFiniteSet(DOMAIN c.map)
    BY DEF Sound
  <2>2. /\ IsFiniteSet(DOMAIN c.map \cup {h})
        /\ Cardinality(DOMAIN c.map \cup {h}) = Cardinality(DOMAIN c.map) + 1
    BY <2>1, FS_AddElement
  <2> QED
    BY <2>2, <1>2
<1>6. Cardinality(DOMAIN c.map) \in Nat /\ MAX_CACHE_SIZE \in Nat
  BY FS_CardinalityType, CacheAssumption DEF Sound
<1>7. Cardinality(DOMAIN d.map) <= MAX_CACHE_SIZE
  BY <1>5, <1>6
<1>8. /\ d.map = [k \in DOMAIN d.map |-> d.map[k]]
      /\ DOMAIN d.map \subseteq Hashes
      /\ \A k \in DOMAIN d.map : d.map[k].time \in Times
  <2>1. d.map = [k \in DOMAIN d.map |-> d.map[k]]
    BY <1>1
  <2> HIDE DEF d
  <2> QED
    BY <2>1, <1>2, <1>3 DEF Sound
<1> HIDE DEF d
<1>9. Sound(d)
  BY <1>4, <1>5, <1>7, <1>8 DEF Sound
<1> QED
  BY <1>9 DEF d

(* The end of both functions.                                              *)
LEMMA StoreSound ==
    ASSUME NEW c, Sound(c), NEW h \in Hashes, NEW v, NEW now \in Times
    PROVE  Sound(StoreLocked(c, h, v, now))
<1>1. CASE h \in DOMAIN c.map
  BY <1>1, RemoveSound, InsertSound DEF StoreLocked
<1>2. CASE h \notin DOMAIN c.map
  <2> DEFINE d == EvictOldestIfFullLocked(c)
  <2>1. Sound(d) /\ h \notin DOMAIN d.map /\ Cardinality(DOMAIN d.map) < MAX_CACHE_SIZE
    BY <1>2, EvictSound
  <2> HIDE DEF d
  <2>2. Sound(InsertIntoCacheLocked(d, h, v, now))
    BY <2>1, InsertSound
  <2> QED
    BY <1>2, <2>2 DEF StoreLocked, d
<1> QED
  BY <1>1, <1>2

-----------------------------------------------------------------------------
(* The state's cache is sound exactly if the invariant holds of it.        *)
LEMMA CacheIsSound ==
    ASSUME CacheInv
    PROVE  Sound(Cache)
BY DEF CacheInv, CacheTypes, LookupMatchesCache, CacheBounded, Sound, Cache

LEMMA SetSound ==
    ASSUME NEW c, Sound(c), SetCache(c)
    PROVE  /\ LookupMatchesCache' /\ CacheBounded'
           /\ mapCache' = [h \in DOMAIN mapCache' |-> mapCache'[h]]
           /\ DOMAIN mapCache' \subseteq Hashes
           /\ \A h \in DOMAIN mapCache' : mapCache'[h].time \in Times
BY DEF SetCache, Sound, LookupMatchesCache, CacheBounded

LEMMA InitCacheInv == Init => CacheInv
<1> SUFFICES ASSUME Init PROVE CacheInv
  OBVIOUS
<1>1. DOMAIN mapCache = {}
  BY DEF Init
<1>2. CacheTypes
  BY <1>1 DEF Init, CacheTypes
<1>3. LookupMatchesCache
  BY <1>1 DEF Init, LookupMatchesCache
<1>4. CacheBounded
  BY <1>1, FS_EmptySet, CacheAssumption DEF CacheBounded
<1> QED
  BY <1>2, <1>3, <1>4 DEF CacheInv

(* Every step keeps the invariant: only Hit and Store touch the cache.     *)
LEMMA NextCacheInv == CacheInv /\ [Next]_vars => CacheInv'
<1> SUFFICES ASSUME CacheInv, [Next]_vars PROVE CacheInv'
  OBVIOUS
<1>1. ASSUME mapCache' = mapCache, setLookup' = setLookup,
             /\ pc' \in [Threads -> {Idle, Absent, "lookup", "readdb", "lock", "store"}]
             /\ arg' = [t \in Threads |->
                            [hash |-> arg'[t].hash, val |-> arg'[t].val]]
             /\ \A t \in Threads : pc'[t] \notin {Idle, Absent} => arg'[t].hash \in Hashes
      PROVE  CacheInv'
  BY <1>1 DEF CacheInv, CacheTypes, LookupMatchesCache, CacheBounded
<1>2. ASSUME NEW c, Sound(c), SetCache(c),
             NEW u \in Threads, Goto(u, Idle), arg' = arg
      PROVE  CacheInv'
  <2>1. /\ pc' \in [Threads -> {Idle, Absent, "lookup", "readdb", "lock", "store"}]
        /\ arg' = [t \in Threads |->
                            [hash |-> arg'[t].hash, val |-> arg'[t].val]]
        /\ \A t \in Threads : pc'[t] \notin {Idle, Absent} => arg'[t].hash \in Hashes
    BY <1>2 DEF CacheInv, CacheTypes, Goto
  <2> QED
    BY <2>1, <1>2, SetSound DEF CacheInv, CacheTypes
<1> USE DEF Goto
<1>3. ASSUME NEW t \in Threads, NEW h \in Hashes, TryLock(t, h)
      PROVE  CacheInv'
  BY <1>1, <1>3, CacheAssumption DEF TryLock, CacheInv, CacheTypes
<1>4. ASSUME NEW t \in Threads, Hit(t)
      PROVE  CacheInv'
  <2> DEFINE h == arg[t].hash
  <2>1. h \in DOMAIN mapCache /\ h \in Hashes
    BY <1>4 DEF Hit, CacheInv, CacheTypes, Idle, Absent
  <2>2. PICK now \in Times :
            SetCache(InsertIntoCacheLocked(RemoveFromCacheLocked(Cache, h),
                                           h, mapCache[h].val, now))
    BY <1>4 DEF Hit
  <2>3. Sound(Cache) /\ h \in DOMAIN Cache.map
    BY <2>1, CacheIsSound DEF Cache
  <2>4. Sound(InsertIntoCacheLocked(RemoveFromCacheLocked(Cache, h),
                                    h, mapCache[h].val, now))
    BY <2>1, <2>3, RemoveSound, InsertSound
  <2>5. Goto(t, Idle) /\ arg' = arg
    BY <1>4 DEF Hit
  <2> QED
    BY <1>2, <2>2, <2>4, <2>5
<1>5. ASSUME NEW t \in Threads, Miss(t)
      PROVE  CacheInv'
  BY <1>1, <1>5 DEF Miss, CacheInv, CacheTypes, Idle, Absent
<1>6. ASSUME NEW t \in Threads, ReadBlockIndex(t)
      PROVE  CacheInv'
  BY <1>1, <1>6 DEF ReadBlockIndex, CacheInv, CacheTypes, Idle, Absent
<1>7. ASSUME NEW h \in Hashes, NEW own \in BOOLEAN, WriteBlockIndex(h, own)
      PROVE  CacheInv'
  BY <1>1, <1>7, CacheAssumption
     DEF WriteBlockIndex, CacheInv, CacheTypes, Idle, Absent, Threads
<1>8. ASSUME NEW t \in Threads, Lock(t)
      PROVE  CacheInv'
  BY <1>1, <1>8 DEF Lock, CacheInv, CacheTypes, Idle, Absent
<1>9. ASSUME NEW t \in Threads, Store(t)
      PROVE  CacheInv'
  <2>1. arg[t].hash \in Hashes
    BY <1>9 DEF Store, CacheInv, CacheTypes, Idle, Absent
  <2>2. PICK now \in Times :
            SetCache(StoreLocked(Cache, arg[t].hash, arg[t].val, now))
    BY <1>9 DEF Store
  <2>3. Sound(StoreLocked(Cache, arg[t].hash, arg[t].val, now))
    BY <2>1, CacheIsSound, StoreSound
  <2>4. Goto(t, Idle) /\ arg' = arg
    BY <1>9 DEF Store
  <2> QED
    BY <1>2, <2>2, <2>3, <2>4
<1>10. CASE TxnBegin \/ TxnCommit \/ TxnAbort
  BY <1>1, <1>10 DEF TxnBegin, TxnCommit, TxnAbort, CacheInv, CacheTypes
<1>11. CASE UNCHANGED vars
  BY <1>1, <1>11 DEF vars, CacheInv, CacheTypes
<1> QED
  BY <1>3, <1>4, <1>5, <1>6, <1>7, <1>8, <1>9, <1>10, <1>11 DEF Next

(* In every behaviour the invariant holds.                                 *)
LEMMA CacheInvariant == Spec => []CacheInv
BY InitCacheInv, NextCacheInv, PTL DEF Spec

(* mapCache and setLookup agree entry by entry, for any number of readers, *)
(* blocks and clock values: the assertion of InsertIntoCacheLocked and the *)
(* two exceptions of the helpers never fire.                               *)
THEOREM LookupAlwaysMatches == Spec => []LookupMatchesCache
<1>1. CacheInv => LookupMatchesCache
  BY DEF CacheInv
<1> QED
  BY CacheInvariant, <1>1, PTL

(* The cache holds at most MAX_CACHE_SIZE records at every moment.         *)
THEOREM CacheAlwaysBounded == Spec => []CacheBounded
<1>1. CacheInv => CacheBounded
  BY DEF CacheInv
<1> QED
  BY CacheInvariant, <1>1, PTL

-----------------------------------------------------------------------------
(* The thread with cs_main works alone and has aborted nothing.            *)
Alone == (\A t \in Readers : pc[t] = Absent) /\ aborts = 0

Storing == pc[Handler] \in {"lock", "store"}

(* Why the cache is current between calls: during a call one record may be *)
(* old, the one the call is about to store, and what it will store is what *)
(* the database has.  Without an active batch nothing hides the disk.      *)
CurrentInv ==
    /\ aborts \in Nat
    /\ ~fTxn => DOMAIN batch = {}
    /\ Alone =>
          /\ \A h \in DOMAIN mapCache :
                /\ h \in DOMAIN Visible(Handler)
                /\ \/ mapCache[h].val = Visible(Handler)[h]
                   \/ Storing /\ arg[Handler].hash = h
          /\ Storing =>
                /\ arg[Handler].hash \in DOMAIN Visible(Handler)
                /\ arg[Handler].val = Visible(Handler)[arg[Handler].hash]

(* What the end of both functions leaves in the cache: the caller's record *)
(* and, of the others, what was there.                                     *)
LEMMA StoredValues ==
    ASSUME NEW c, NEW h, NEW v, NEW now
    PROVE  LET d == StoreLocked(c, h, v, now).map IN
           /\ h \in DOMAIN d /\ d[h].val = v
           /\ \A k \in DOMAIN d \ {h} : k \in DOMAIN c.map /\ d[k] = c.map[k]
<1> DEFINE e == IF h \in DOMAIN c.map THEN RemoveFromCacheLocked(c, h)
                                     ELSE EvictOldestIfFullLocked(c)
           d == InsertIntoCacheLocked(e, h, v, now).map
<1>1. \A k \in DOMAIN e.map : k \in DOMAIN c.map /\ e.map[k] = c.map[k]
  BY DEF RemoveFromCacheLocked, EvictOldestIfFullLocked, Without
<1> HIDE DEF e
<1>2. /\ h \in DOMAIN d /\ d[h].val = v
      /\ \A k \in DOMAIN d \ {h} : k \in DOMAIN e.map /\ d[k] = e.map[k]
  BY DEF InsertIntoCacheLocked
<1> QED
  BY <1>1, <1>2 DEF StoreLocked, e

LEMMA InitCurrentInv == Init => CurrentInv
<1> SUFFICES ASSUME Init PROVE CurrentInv
  OBVIOUS
<1>1. DOMAIN mapCache = {} /\ DOMAIN batch = {} /\ aborts = 0
  BY DEF Init, Nothing
<1>2. pc[Handler] = Idle
  BY DEF Init, Threads
<1> QED
  BY <1>1, <1>2 DEF CurrentInv, Storing, Idle

(* A step of a thread that is there leaves the absent ones absent.         *)
LEMMA AloneBefore ==
    ASSUME CacheInv, CurrentInv, [Next]_vars, Alone'
    PROVE  Alone
<1>1. \A t \in Threads : pc'[t] = Absent => pc[t] = Absent
  <2> USE DEF CacheInv, CacheTypes, Goto, Idle, Absent
  <2>1. CASE \E t \in Threads, h \in Hashes : TryLock(t, h)
    BY <2>1 DEF TryLock
  <2>2. CASE \E t \in Threads : Hit(t) \/ Miss(t)
    BY <2>2 DEF Hit, Miss
  <2>3. CASE \E t \in Threads : ReadBlockIndex(t)
    BY <2>3 DEF ReadBlockIndex
  <2>4. CASE \E t \in Threads : Lock(t) \/ Store(t)
    BY <2>4 DEF Lock, Store
  <2>5. CASE \E h \in Hashes, own \in BOOLEAN : WriteBlockIndex(h, own)
    BY <2>5 DEF WriteBlockIndex, Threads
  <2>6. CASE TxnBegin \/ TxnCommit \/ TxnAbort \/ UNCHANGED vars
    BY <2>6 DEF TxnBegin, TxnCommit, TxnAbort, vars
  <2> QED
    BY <2>1, <2>2, <2>3, <2>4, <2>5, <2>6 DEF Next
<1>2. aborts' = aborts \/ aborts' = aborts + 1
  BY DEF Next, TryLock, Hit, Miss, ReadBlockIndex, Lock, Store, WriteBlockIndex,
         TxnBegin, TxnCommit, TxnAbort, vars
<1>3. aborts \in Nat
  BY DEF CurrentInv
<1> QED
  BY <1>1, <1>2, <1>3 DEF Alone, Threads

(* The part of the invariant about the cache.                              *)
CurrentBut ==
    /\ \A h \in DOMAIN mapCache :
          /\ h \in DOMAIN Visible(Handler)
          /\ \/ mapCache[h].val = Visible(Handler)[h]
             \/ Storing /\ arg[Handler].hash = h
    /\ Storing =>
          /\ arg[Handler].hash \in DOMAIN Visible(Handler)
          /\ arg[Handler].val = Visible(Handler)[arg[Handler].hash]

LEMMA VisibleSame ==
    ASSUME db' = db, batch' = batch
    PROVE  Visible(Handler)' = Visible(Handler)
BY DEF Visible

(* What a write makes visible: the new version, and the rest as before.    *)
LEMMA WriteVisible ==
    ASSUME CacheInv, CurrentInv, NEW h \in Hashes, NEW own \in BOOLEAN,
           WriteBlockIndex(h, own)
    PROVE  /\ h \in DOMAIN Visible(Handler)'
           /\ arg'[Handler].val = Visible(Handler)'[h]
           /\ \A k \in DOMAIN Visible(Handler) \ {h} :
                 /\ k \in DOMAIN Visible(Handler)'
                 /\ Visible(Handler)'[k] = Visible(Handler)[k]
<1> DEFINE v == IF h \in DOMAIN Visible(Handler) THEN Visible(Handler)[h] + 1 ELSE 0
<1>1. arg'[Handler].val = v
  BY DEF WriteBlockIndex, CacheInv, CacheTypes, Threads
<1>2. CASE fTxn /\ ~own
  <2>1. /\ db' = db
        /\ batch' = [k \in DOMAIN batch \cup {h} |-> IF k = h THEN v ELSE batch[k]]
    BY <1>2 DEF WriteBlockIndex
  <2> HIDE DEF v
  <2> QED
    BY <1>1, <2>1 DEF Visible
<1>3. CASE ~(fTxn /\ ~own)
  <2>1. /\ DOMAIN batch = {} /\ batch' = batch
        /\ db' = [k \in DOMAIN db \cup {h} |-> IF k = h THEN v ELSE db[k]]
    BY <1>3 DEF WriteBlockIndex, CurrentInv, Nothing
  <2> HIDE DEF v
  <2> QED
    BY <1>1, <2>1 DEF Visible
<1> QED
  BY <1>2, <1>3

(* No step of the thread with cs_main leaves an old record behind.         *)
LEMMA NextCurrentBut ==
    ASSUME CacheInv, CurrentInv, [Next]_vars, Alone'
    PROVE  CurrentBut'
<1>1. Alone /\ CurrentBut
  BY AloneBefore DEF CurrentInv, CurrentBut
<1>2. ASSUME NEW t \in Threads, pc[t] # Absent
      PROVE  t = Handler
  BY <1>1, <1>2 DEF Alone, Threads
<1>3. Handler \in Threads /\ Cache.map = mapCache
  BY DEF Threads, Cache
<1> USE DEF CacheInv, CacheTypes, Goto, Idle, Absent, Storing
<1>4. ASSUME NEW t \in Threads, NEW h \in Hashes, TryLock(t, h)
      PROVE  CurrentBut'
  <2>1. t = Handler /\ Visible(Handler)' = Visible(Handler) /\ mapCache' = mapCache
    BY <1>2, <1>4, VisibleSame DEF TryLock
  <2>2. ~Storing /\ ~Storing'
    BY <2>1, <1>4, <1>3 DEF TryLock
  <2> QED
    BY <1>1, <2>1, <2>2 DEF CurrentBut
<1>5. ASSUME NEW t \in Threads, Hit(t)
      PROVE  CurrentBut'
  <2> DEFINE h == arg[t].hash
  <2>1. t = Handler /\ Visible(Handler)' = Visible(Handler) /\ h \in DOMAIN mapCache
    BY <1>2, <1>5, VisibleSame DEF Hit
  <2>2. ~Storing /\ ~Storing'
    BY <2>1, <1>5, <1>3 DEF Hit
  <2>3. PICK now \in Times :
            mapCache' = InsertIntoCacheLocked(RemoveFromCacheLocked(Cache, h),
                                              h, mapCache[h].val, now).map
    BY <1>5 DEF Hit, SetCache
  <2>4. \A k \in DOMAIN mapCache' :        \* the entry is only made the newest
            k \in DOMAIN mapCache /\ mapCache'[k].val = mapCache[k].val
    BY <2>1, <2>3
       DEF InsertIntoCacheLocked, RemoveFromCacheLocked, Without, Cache
  <2> QED
    BY <1>1, <2>1, <2>2, <2>4 DEF CurrentBut
<1>6. ASSUME NEW t \in Threads, Miss(t)
      PROVE  CurrentBut'
  <2>1. t = Handler /\ Visible(Handler)' = Visible(Handler) /\ mapCache' = mapCache
    BY <1>2, <1>6, VisibleSame DEF Miss
  <2>2. ~Storing /\ ~Storing'
    BY <2>1, <1>6, <1>3 DEF Miss
  <2> QED
    BY <1>1, <2>1, <2>2 DEF CurrentBut
<1>7. ASSUME NEW t \in Threads, ReadBlockIndex(t)
      PROVE  CurrentBut'
  <2>1. t = Handler /\ Visible(Handler)' = Visible(Handler) /\ mapCache' = mapCache
    BY <1>2, <1>7, VisibleSame DEF ReadBlockIndex
  <2>2. ~Storing
    BY <2>1, <1>7, <1>3 DEF ReadBlockIndex
  <2>3. Storing' => /\ arg'[Handler].hash \in DOMAIN Visible(Handler)
                    /\ arg'[Handler].val = Visible(Handler)[arg'[Handler].hash]
    BY <2>1, <1>7, <1>3 DEF ReadBlockIndex
  <2> QED
    BY <1>1, <2>1, <2>2, <2>3 DEF CurrentBut
<1>8. ASSUME NEW t \in Threads, Lock(t)
      PROVE  CurrentBut'
  <2>1. t = Handler /\ Visible(Handler)' = Visible(Handler)
    BY <1>2, <1>8, VisibleSame DEF Lock
  <2>2. Storing /\ mapCache' = mapCache /\ arg' = arg /\ Storing'
    BY <2>1, <1>8, <1>3 DEF Lock
  <2> QED
    BY <1>1, <2>1, <2>2 DEF CurrentBut
<1>9. ASSUME NEW t \in Threads, Store(t)
      PROVE  CurrentBut'
  <2> DEFINE h == arg[Handler].hash
  <2>1. t = Handler /\ Visible(Handler)' = Visible(Handler)
    BY <1>2, <1>9, VisibleSame DEF Store
  <2>2. Storing /\ ~Storing'
    BY <2>1, <1>9, <1>3 DEF Store
  <2>3. PICK now \in Times :
            mapCache' = StoreLocked(Cache, h, arg[Handler].val, now).map
    BY <2>1, <1>9 DEF Store, SetCache
  <2>4. /\ h \in DOMAIN mapCache' /\ mapCache'[h].val = arg[Handler].val
        /\ \A k \in DOMAIN mapCache' \ {h} :
              k \in DOMAIN mapCache /\ mapCache'[k] = mapCache[k]
    BY <2>3, <1>3, StoredValues
  <2> QED
    BY <1>1, <2>1, <2>2, <2>4 DEF CurrentBut
<1>10. ASSUME NEW h \in Hashes, NEW own \in BOOLEAN, WriteBlockIndex(h, own)
       PROVE  CurrentBut'
  <2>1. /\ ~Storing /\ mapCache' = mapCache
        /\ Storing' /\ arg'[Handler].hash = h
    BY <1>10, <1>3 DEF WriteBlockIndex
  <2> QED
    BY <1>1, <1>10, <2>1, WriteVisible DEF CurrentBut
<1>11. CASE TxnBegin \/ UNCHANGED vars
  <2>1. /\ Visible(Handler)' = Visible(Handler)
        /\ mapCache' = mapCache /\ arg' = arg /\ pc' = pc
    BY <1>11, VisibleSame DEF TxnBegin, vars
  <2> QED
    BY <1>1, <2>1 DEF CurrentBut
<1>12. CASE TxnCommit
  <2>1. Visible(Handler)' = Visible(Handler)
    BY <1>12 DEF TxnCommit, Visible, Nothing
  <2>2. mapCache' = mapCache /\ arg' = arg /\ pc' = pc
    BY <1>12 DEF TxnCommit
  <2> QED
    BY <1>1, <2>1, <2>2 DEF CurrentBut
<1>13. CASE TxnAbort
  <2>1. aborts' = aborts + 1 /\ aborts \in Nat /\ aborts' = 0
    BY <1>13 DEF TxnAbort, CurrentInv, Alone
  <2> QED
    BY <2>1
<1> QED
  BY <1>4, <1>5, <1>6, <1>7, <1>8, <1>9, <1>10, <1>11, <1>12, <1>13 DEF Next

LEMMA NextCurrentInv == CacheInv /\ CurrentInv /\ [Next]_vars => CurrentInv'
<1> SUFFICES ASSUME CacheInv, CurrentInv, [Next]_vars PROVE CurrentInv'
  OBVIOUS
<1>1. aborts' \in Nat /\ (~fTxn' => DOMAIN batch' = {})
  <2> USE DEF CurrentInv
  <2>1. CASE \E t \in Threads, h \in Hashes : TryLock(t, h)
    BY <2>1 DEF TryLock
  <2>2. CASE \E t \in Threads : Hit(t) \/ Miss(t)
    BY <2>2 DEF Hit, Miss
  <2>3. CASE \E t \in Threads : ReadBlockIndex(t) \/ Lock(t) \/ Store(t)
    BY <2>3 DEF ReadBlockIndex, Lock, Store
  <2>4. ASSUME NEW h \in Hashes, NEW own \in BOOLEAN, WriteBlockIndex(h, own)
        PROVE  aborts' \in Nat /\ (~fTxn' => DOMAIN batch' = {})
    <3>1. fTxn' = fTxn /\ aborts' = aborts /\ (~fTxn => batch' = batch)
      BY <2>4 DEF WriteBlockIndex
    <3> QED
      BY <3>1
  <2>5. CASE TxnBegin \/ TxnCommit \/ TxnAbort
    BY <2>5 DEF TxnBegin, TxnCommit, TxnAbort, Nothing
  <2>6. CASE UNCHANGED vars
    BY <2>6 DEF vars
  <2> QED
    BY <2>1, <2>2, <2>3, <2>4, <2>5, <2>6 DEF Next
<1>2. Alone' => CurrentBut'
  BY NextCurrentBut
<1> QED
  BY <1>1, <1>2 DEF CurrentInv, CurrentBut

(* If no other thread reads and no transaction was aborted, every record   *)
(* in the cache is the one the database would return, between the calls of *)
(* ReadDiskBlockIndex and WriteDiskBlockIndex, for every number of blocks, *)
(* every size of the cache and every order of writes, commits and          *)
(* evictions.                                                              *)
THEOREM OwnCacheAlwaysCurrent == Spec => []OwnCacheCurrent
<1>1. Spec => []CurrentInv
  BY CacheInvariant, InitCurrentInv, NextCurrentInv, PTL DEF Spec
<1>2. CurrentInv => OwnCacheCurrent
  BY DEF CurrentInv, OwnCacheCurrent, Alone, Storing, Idle
<1> QED
  BY <1>1, <1>2, PTL
============================================================================
