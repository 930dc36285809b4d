-------------------------- MODULE BlockIndexCache --------------------------
(***************************************************************************)
(* The cache of block index records in db-leveldb/txdb-leveldb.cpp: the    *)
(* map mapCache from a block's hash to its record, the ordered set         *)
(* setLookup by which the oldest entry is found, and their lock            *)
(* cs_mapCache.  ReadDiskBlockIndex and WriteDiskBlockIndex are the only   *)
(* functions that touch them.                                              *)
(*                                                                         *)
(* Records are written only by the thread that holds cs_main, called the   *)
(* Handler here, through a CTxDB that may have an active batch.  Records   *)
(* are read by other threads too: the block template code (main.cpp:9079)  *)
(* and the RPC command createfeework (rpcwallet.cpp:1987, registered       *)
(* "unlocked" in bitcoinrpc.cpp:421) read them without cs_main.            *)
(*                                                                         *)
(* A record is a version number, the count of the writes of that block's   *)
(* record so far.                                                          *)
(***************************************************************************)
EXTENDS Integers, FiniteSets

CONSTANTS
    Hashes,          \* the blocks; a hash is a number, for setLookup's order
    Readers,         \* threads that read records without cs_main
    Handler,         \* the thread that holds cs_main
    MAX_CACHE_SIZE,  \* entries the cache may hold (30000 in the code)
    Times,           \* values GetTimeMicros may return, in any order
    MaxVersion,      \* bound: writes of one record
    MaxAborts        \* bound: transactions that are aborted

Threads == Readers \cup {Handler}

Idle == "idle"
Absent == "absent"   \* a reader that does not run

ASSUME CacheAssumption ==
    /\ MAX_CACHE_SIZE \in Nat \ {0}
    /\ Hashes \subseteq Nat
    /\ Times \subseteq Nat
    /\ Handler \notin Readers
    /\ MaxVersion \in Nat
    /\ MaxAborts \in Nat
    /\ "free" \notin Threads

VARIABLES
    db,           \* the records on disk: hash -> version
    batch,        \* the records in the Handler's active batch
    fTxn,         \* has the Handler's CTxDB an active batch?
    mapCache,     \* hash -> [time, val]
    setLookup,    \* set of <<time, hash>>
    cs_mapCache,  \* the thread in the critical section, or "free"
    pc,           \* where each thread is
    arg,          \* the call's hash and the record it holds
    aborts        \* transactions aborted so far

vars == <<db, batch, fTxn, mapCache, setLookup, cs_mapCache, pc, arg, aborts>>

Entry == [time : Times, val : 0..MaxVersion]
Nothing == [h \in {} |-> 0]

-----------------------------------------------------------------------------
(* The helpers on the cache: each maps a record of the two structures to   *)
(* the record after it.                                                    *)

Cache == [map |-> mapCache, lookup |-> setLookup]

(* setLookup.begin(): pairs are ordered by time, then by hash.             *)
Oldest(lookup) ==
    CHOOSE p \in lookup : \A q \in lookup :
        p[1] < q[1] \/ (p[1] = q[1] /\ p[2] <= q[2])

Without(map, h) == [k \in DOMAIN map \ {h} |-> map[k]]

RemoveFromCacheLocked(c, h) ==
    IF h \in DOMAIN c.map
      THEN [map    |-> Without(c.map, h),
            lookup |-> c.lookup \ {<<c.map[h].time, h>>}]
      ELSE c

(* Mutant: room is made one entry too late.                                *)
EvictOldestLate(c) ==
    IF Cardinality(DOMAIN c.map) <= MAX_CACHE_SIZE
      THEN c
      ELSE LET oldest == Oldest(c.lookup)
           IN  [map    |-> Without(c.map, oldest[2]),
                lookup |-> c.lookup \ {oldest}]

EvictOldestIfFullLocked(c) ==
    IF Cardinality(DOMAIN c.map) < MAX_CACHE_SIZE
      THEN c
      ELSE LET oldest == Oldest(c.lookup)
           IN  [map    |-> Without(c.map, oldest[2]),
                lookup |-> c.lookup \ {oldest}]

InsertIntoCacheLocked(c, h, v, now) ==
    [map    |-> [k \in DOMAIN c.map \cup {h} |->
                    IF k = h THEN [time |-> now, val |-> v] ELSE c.map[k]],
     lookup |-> c.lookup \cup {<<now, h>>}]

(* Mutant: an entry that is there is not removed first.                    *)
StoreTwice(c, h, v, now) ==
    InsertIntoCacheLocked(
        IF h \in DOMAIN c.map THEN c ELSE EvictOldestIfFullLocked(c), h, v, now)

(* Mutant: an entry that is there keeps its record.                        *)
StoreKeeps(c, h, v, now) ==
    IF h \in DOMAIN c.map
      THEN InsertIntoCacheLocked(RemoveFromCacheLocked(c, h), h, c.map[h].val, now)
      ELSE InsertIntoCacheLocked(EvictOldestIfFullLocked(c), h, v, now)

(* The last block of both functions: replace the entry if there is one,    *)
(* else make room, then insert the caller's record.                        *)
StoreLocked(c, h, v, now) ==
    InsertIntoCacheLocked(
        IF h \in DOMAIN c.map THEN RemoveFromCacheLocked(c, h)
                              ELSE EvictOldestIfFullLocked(c),
        h, v, now)

SetCache(c) == mapCache' = c.map /\ setLookup' = c.lookup

-----------------------------------------------------------------------------
(* What thread t's CTxDB reads: a batch is seen only through the object    *)
(* that holds it.                                                          *)
Visible(t) ==
    [h \in DOMAIN db \cup (IF t = Handler THEN DOMAIN batch ELSE {}) |->
        IF t = Handler /\ h \in DOMAIN batch THEN batch[h] ELSE db[h]]

Goto(t, label) == pc' = [pc EXCEPT ![t] = label]

Init ==
    /\ db = Nothing
    /\ batch = Nothing
    /\ fTxn = FALSE
    /\ mapCache = [h \in {} |-> [time |-> 0, val |-> 0]]
    /\ setLookup = {}
    /\ cs_mapCache = "free"
    /\ \E running \in SUBSET Readers :
          pc = [t \in Threads |-> IF t \in running \cup {Handler} THEN Idle ELSE Absent]
    /\ arg = [t \in Threads |-> [hash |-> 0, val |-> 0]]
    /\ aborts = 0

(* ReadDiskBlockIndex, TRY_LOCK: the thread enters the critical section,   *)
(* or goes straight to the disk while another thread is inside.            *)
TryLock(t, h) ==
    /\ pc[t] = Idle
    /\ arg' = [arg EXCEPT ![t] = [hash |-> h, val |-> 0]]
    /\ IF cs_mapCache = "free"
         THEN cs_mapCache' = t /\ Goto(t, "lookup")
         ELSE cs_mapCache' = cs_mapCache /\ Goto(t, "readdb")
    /\ UNCHANGED <<db, batch, fTxn, mapCache, setLookup, aborts>>

(* A hit is returned, re-inserted as the newest entry.                     *)
Hit(t) ==
    LET h == arg[t].hash IN
    /\ pc[t] = "lookup"
    /\ h \in DOMAIN mapCache
    /\ \E now \in Times :
          SetCache(InsertIntoCacheLocked(RemoveFromCacheLocked(Cache, h),
                                         h, mapCache[h].val, now))
    /\ cs_mapCache' = "free"
    /\ Goto(t, Idle)
    /\ UNCHANGED <<db, batch, fTxn, arg, aborts>>

Miss(t) ==
    /\ pc[t] = "lookup"
    /\ arg[t].hash \notin DOMAIN mapCache
    /\ cs_mapCache' = "free"
    /\ Goto(t, "readdb")
    /\ UNCHANGED <<db, batch, fTxn, mapCache, setLookup, arg, aborts>>

(* The record is read from the database with no lock held; a record that   *)
(* is not there is an error.                                               *)
ReadBlockIndex(t) ==
    LET h == arg[t].hash IN
    /\ pc[t] = "readdb"
    /\ IF h \in DOMAIN Visible(t)
         THEN /\ arg' = [arg EXCEPT ![t].val = Visible(t)[h]]
              /\ Goto(t, "lock")
         ELSE arg' = arg /\ Goto(t, Idle)
    /\ UNCHANGED <<db, batch, fTxn, mapCache, setLookup, cs_mapCache, aborts>>

(* WriteDiskBlockIndex, up to the lock: a new version of the record goes   *)
(* into the active batch, or else to disk.  DisconnectBlock writes through *)
(* a CTxDB of its own, past a batch in which there is nothing yet.         *)
WriteBlockIndex(h, own) ==
    LET seen == Visible(Handler)
        v    == IF h \in DOMAIN seen THEN seen[h] + 1 ELSE 0
        With(f) == [k \in DOMAIN f \cup {h} |-> IF k = h THEN v ELSE f[k]]
    IN  /\ pc[Handler] = Idle
        /\ v <= MaxVersion
        /\ own => fTxn /\ batch = Nothing
        /\ IF fTxn /\ ~own THEN batch' = With(batch) /\ db' = db
                           ELSE db' = With(db) /\ batch' = batch
        /\ arg' = [arg EXCEPT ![Handler] = [hash |-> h, val |-> v]]
        /\ Goto(Handler, "lock")
        /\ UNCHANGED <<fTxn, mapCache, setLookup, cs_mapCache, aborts>>

(* Both functions: LOCK(cs_mapCache), then the last block.                 *)
Lock(t) ==
    /\ pc[t] = "lock"
    /\ cs_mapCache = "free"
    /\ cs_mapCache' = t
    /\ Goto(t, "store")
    /\ UNCHANGED <<db, batch, fTxn, mapCache, setLookup, arg, aborts>>

Store(t) ==
    /\ pc[t] = "store"
    /\ \E now \in Times :
          SetCache(StoreLocked(Cache, arg[t].hash, arg[t].val, now))
    /\ cs_mapCache' = "free"
    /\ Goto(t, Idle)
    /\ UNCHANGED <<db, batch, fTxn, arg, aborts>>

(* CTxDB::TxnBegin, TxnCommit and TxnAbort by the Handler.                 *)
TxnBegin ==
    /\ pc[Handler] = Idle /\ ~fTxn
    /\ fTxn' = TRUE
    /\ UNCHANGED <<db, batch, mapCache, setLookup, cs_mapCache, pc, arg, aborts>>

TxnCommit ==
    /\ pc[Handler] = Idle /\ fTxn
    /\ db' = Visible(Handler)
    /\ batch' = Nothing
    /\ fTxn' = FALSE
    /\ UNCHANGED <<mapCache, setLookup, cs_mapCache, pc, arg, aborts>>

TxnAbort ==
    /\ pc[Handler] = Idle /\ fTxn
    /\ aborts < MaxAborts
    /\ aborts' = aborts + 1
    /\ batch' = Nothing
    /\ fTxn' = FALSE
    /\ UNCHANGED <<db, mapCache, setLookup, cs_mapCache, pc, arg>>

Next ==
    \/ \E t \in Threads, h \in Hashes : TryLock(t, h)
    \/ \E t \in Threads :
          Hit(t) \/ Miss(t) \/ ReadBlockIndex(t) \/ Lock(t) \/ Store(t)
    \/ \E h \in Hashes, own \in BOOLEAN : WriteBlockIndex(h, own)
    \/ TxnBegin \/ TxnCommit \/ TxnAbort

Spec == Init /\ [][Next]_vars

-----------------------------------------------------------------------------
(* The two structures agree entry by entry, with any number of readers and *)
(* whatever the clock says: the assertion of InsertIntoCacheLocked and the *)
(* two "TSNH" exceptions of the helpers never fire.                        *)
LookupMatchesCache ==
    setLookup = {<<mapCache[h].time, h>> : h \in DOMAIN mapCache}

(* The cache never holds more than MAX_CACHE_SIZE records, although the    *)
(* room is made in one call and the record inserted in another             *)
(* (EvictOldestIfFullLocked, InsertIntoCacheLocked).                       *)
CacheBounded ==
    /\ IsFiniteSet(DOMAIN mapCache)
    /\ Cardinality(DOMAIN mapCache) <= MAX_CACHE_SIZE

(* Between two calls of the thread with cs_main, every cached record is    *)
(* the one this thread would read from its CTxDB, through transactions     *)
(* that commit, writes past them and evictions; unless a transaction was   *)
(* aborted (WriteDiskBlockIndex fills the cache before the commit), or     *)
(* another thread reads (the end of ReadDiskBlockIndex stores a record     *)
(* that may have been rewritten since it was read).                        *)
OwnCacheCurrent ==
    (\A t \in Readers : pc[t] = Absent) /\ pc[Handler] = Idle /\ aborts = 0 =>
        \A h \in DOMAIN mapCache :
            h \in DOMAIN Visible(Handler) /\ mapCache[h].val = Visible(Handler)[h]
=============================================================================
