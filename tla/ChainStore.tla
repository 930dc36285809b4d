---------------------------- MODULE ChainStore ------------------------------
(***************************************************************************)
(* How the node keeps its best chain: ProcessBlock, AddToBlockIndex,       *)
(* SetBestChain, Reorganize and Rollback of blockchain/main.cpp, and       *)
(* LoadBlockIndex of db-leveldb/txdb-leveldb.cpp after a restart.          *)
(*                                                                         *)
(* One thread does all of it under cs_main.  The steps are the points      *)
(* between which a crash is visible: each action makes at most one write   *)
(* that reaches the disk by itself.  What a crash loses is the memory and  *)
(* the active batch; what it leaves is "disk".                             *)
(*                                                                         *)
(* The tree, the verdicts on a block and the trust of its chain are those  *)
(* of BlockTree, the registry that of QPSnapshots.  Transactions and the   *)
(* wallet are not here.                                                    *)
(***************************************************************************)
EXTENDS QPSnapshots

CONSTANTS
    CheckDepth,     \* -checkblocks
    Settings        \* bounds: what may happen to a node, a set of records
                    \*   arrive     the blocks that arrive
                    \*   early      those that may arrive before their parent
                    \*   snapTypes  snapshot types AddToBlockIndex may choose:
                    \*              SPARSE_SNAPS in the initial download,
                    \*              ALL_SNAPS after it
                    \*   crashes    crashes and shutdowns
                    \*   rollbacks  rollbacks, and floor, the lowest height they
                    \*              go to
                    \*   readFails  failures of ReadFromDisk

VARIABLES
    disk,           \* [index, next, best, snaps, bestHeight]: the block index
                    \* records, hashNext of each, hashBestChain, the snapshots
                    \* and bestRegistryHeight
    mapBlockIndex,  \* the blocks in the memory index
    mapOrphanBlocks, \* blocks that wait for their parent
    pnext,          \* the links of the memory index
    cacheNext,      \* hashNext of the records as the process reads them
    batch,          \* blocks whose record is in the active batch
    pmemIndexBest,  \* also hashBestChain in memory
    pregistryMain,
    task,           \* what the thread is doing
    faults,         \* [crashes, rollbacks, readFails] so far, and harm, those
                    \* of the events the store does not survive that happened
    setting         \* the bounds of this behaviour

blocks == <<mapBlockIndex, mapOrphanBlocks>>
memory == <<blocks, pnext, cacheNext, batch, pmemIndexBest, pregistryMain>>
vars == <<disk, memory, task, faults, setting>>

-----------------------------------------------------------------------------
(* Operators on the state.                                                 *)

IsInMainChain(b) == pnext[b] # None \/ b = pmemIndexBest
InMain == {b \in mapBlockIndex : IsInMainChain(b)}

(* A workspace for the registry operators, and the disk after them.        *)
Work(reg) == [reg |-> reg, snaps |-> disk.snaps,
              bestHeight |-> disk.bestHeight, ok |-> TRUE]
WithSnaps(d, w) == [d EXCEPT !.snaps = w.snaps, !.bestHeight = w.bestHeight]

Idle == [stage |-> "idle", block |-> Genesis, temp |-> NullRegistry,
         next |-> NullRegistry, deepest |-> None, old |-> Genesis,
         todo |-> <<>>, connect |-> <<>>, second |-> <<>>, work |-> <<>>]

Down == [Idle EXCEPT !.stage = "down"]

(* The blocks that pnext leads to from b, up to "stop".                    *)
Onward(next, b, stop) ==
    LET walk[h \in Height(b)..Cardinality(Blocks)] ==
            IF h = Height(b) THEN b
            ELSE IF walk[h - 1] \in {None, stop} THEN None
            ELSE next[walk[h - 1]]
        last == Max({h \in DOMAIN walk : walk[h] # None})
    IN  [i \in 1..(last - Height(b)) |-> walk[Height(b) + i]]

(* pprev->pprev->pnext of the block to attach must be its pprev.           *)
ProperlyConnected(next, b) ==
    HasGrandparent(b) => next[Parent[Parent[b]]] = Parent[b]

(* The links after the blocks of s are attached to, or taken off, them.    *)
Link(next, s) ==
    [b \in Tree |-> IF \E i \in DOMAIN s : Parent[s[i]] = b
                      THEN s[CHOOSE i \in DOMAIN s : Parent[s[i]] = b]
                      ELSE next[b]]
Unlink(next, s) ==
    [b \in Tree |-> IF \E i \in DOMAIN s : Parent[s[i]] = b
                      THEN None ELSE next[b]]

-----------------------------------------------------------------------------
Init ==
    /\ disk = [index |-> {Genesis}, next |-> [b \in Tree |-> None],
               best |-> Genesis, snaps |-> NoSnapshots, bestHeight |-> None]
    /\ mapBlockIndex = {Genesis}
    /\ mapOrphanBlocks = {}
    /\ pnext = [b \in Tree |-> None]
    /\ cacheNext = [b \in Tree |-> None]
    /\ batch = {}
    /\ pmemIndexBest = Genesis
    /\ pregistryMain = NullRegistry
    /\ task = Idle
    /\ faults = [crashes |-> 0, rollbacks |-> 0, readFails |-> 0,
                 harm |-> {}]
    /\ setting \in Settings

(* The check for duplicates: a known block is taken up again only if it    *)
(* would extend the best block, an orphan not at all.                      *)
MayProcess(b) ==
    /\ b \in mapBlockIndex => Parent[b] = pmemIndexBest
    /\ b \notin mapOrphanBlocks

(* A block whose parent is not known waits.                                *)
ReceiveOrphan(b) ==
    /\ task.stage = "idle"
    /\ b \in setting.early
    /\ MayProcess(b)
    /\ Parent[b] \notin mapBlockIndex
    /\ mapOrphanBlocks' = mapOrphanBlocks \cup {b}
    /\ UNCHANGED <<disk, mapBlockIndex, pnext, cacheNext, batch, pmemIndexBest,
                   pregistryMain, task, faults>>

(* AddToBlockIndex: the record of a new block is written in a transaction  *)
(* of its own.                                                             *)
AddRecord(b) ==
    /\ mapBlockIndex' = mapBlockIndex \cup {b}
    /\ disk' = [disk EXCEPT !.index = @ \cup {b}, !.next[b] = None]
    /\ pnext' = [pnext EXCEPT ![b] = None]
    /\ cacheNext' = [cacheNext EXCEPT ![b] = None]

(* ProcessBlock up to the record of the new block: a copy of the main      *)
(* registry is rewound to the parent if it is elsewhere.                   *)
ProcessBlock(b) ==
    LET prev    == Parent[b]
        rewind  == pregistryMain.hashBlock \notin {prev, Genesis}
        w       == IF rewind
                     THEN RewindRegistry(Work(NullRegistry), prev, prev,
                                         NO_SNAPS, InMain)
                     ELSE Work(pregistryMain)
    IN  /\ task.stage = "idle"
        /\ prev \in mapBlockIndex
        /\ MayProcess(b)
        /\ w.ok
        /\ AddRecord(b)
        /\ task' = [Idle EXCEPT !.stage = "update", !.block = b, !.temp = w.reg,
                                !.deepest = IF rewind THEN prev ELSE None]
        /\ UNCHANGED <<mapOrphanBlocks, batch, pmemIndexBest, pregistryMain, faults>>

(* Mutant: the orphans of an accepted orphan are forgotten.                *)
AcceptedNoPush ==
    [task EXCEPT !.stage = "orphans",
                 !.work = IF @ = <<>> THEN <<task.block>> ELSE @]

(* AcceptBlock succeeds: the orphans that depend on the block are next.    *)
(* It fails: ProcessBlock returns, or goes on after an orphan.             *)
Accepted == [task EXCEPT !.stage = "orphans", !.work = Append(@, task.block)]
Rejected == IF task.work = <<>> THEN Idle ELSE [task EXCEPT !.stage = "orphans"]

(* Mutant: the trust compared is that of the parent.                       *)
UpdateTempParentTrust ==
    \E type \in setting.snapTypes :
    LET b == task.block
        w == UpdateOnNewBlock(Work(task.temp), b, type)
    IN  /\ task.stage = "update"
        /\ disk' = WithSnaps(disk, w)
        /\ task' = IF ~w.ok THEN Rejected
                   ELSE IF Trust[Parent[b]] > Trust[pmemIndexBest]
                     THEN [task EXCEPT !.stage = "setbest", !.next = w.reg]
                   ELSE [Accepted EXCEPT !.temp = w.reg]
        /\ UNCHANGED <<memory, faults>>

(* AddToBlockIndex: the registry is updated with the new block, for a      *)
(* better chain on a copy, for a side chain "just to check".               *)
UpdateTemp ==
    \E type \in setting.snapTypes :
    LET b == task.block
        w == UpdateOnNewBlock(Work(task.temp), b, type)
    IN  /\ task.stage = "update"
        /\ disk' = WithSnaps(disk, w)
        /\ task' = IF Trust[b] > Trust[pmemIndexBest]
                     THEN IF w.ok
                            THEN [task EXCEPT !.stage = "setbest", !.next = w.reg]
                            ELSE Rejected
                     ELSE IF w.ok THEN [Accepted EXCEPT !.temp = w.reg]
                            ELSE [Rejected EXCEPT !.temp = w.reg]
        /\ UNCHANGED <<memory, faults>>

(* Mutant: hashBestChain is not written.                                   *)
AttachedNotBest(b) == [disk EXCEPT !.next[Parent[b]] = b]

(* ConnectBlock, WriteHashBestChain and TxnCommit of SetBestChainInner on  *)
(* block b.                                                                *)
Attached(b) == [disk EXCEPT !.next[Parent[b]] = b, !.best = b]

(* SetBestChain on a child of the best block.                              *)
Extend ==
    LET b == task.block IN
    /\ task.stage = "setbest"
    /\ Parent[b] = pmemIndexBest
    /\ IF b \in Bad
         THEN task' = Rejected /\ UNCHANGED <<disk, memory>>
         ELSE /\ disk' = Attached(b)
              /\ cacheNext' = [cacheNext EXCEPT ![Parent[b]] = b]
              /\ IF ProperlyConnected(pnext, b)
                   THEN /\ pnext' = [pnext EXCEPT ![Parent[b]] = b]
                        /\ pmemIndexBest' = b
                        /\ task' = [Accepted EXCEPT !.temp = task.next]
                   ELSE task' = Rejected /\ UNCHANGED <<pnext, pmemIndexBest>>
              /\ UNCHANGED <<blocks, batch, pregistryMain>>
    /\ UNCHANGED faults

(* SetBestChain on another branch: only the blocks up to the first one     *)
(* with more trust than the best block go into the transaction of          *)
(* Reorganize, the others are secondary.                                   *)
StartReorganize ==
    LET b     == task.block
        inter == CHOOSE i \in Chain(b) \ {Genesis} :
                    /\ Trust[Parent[i]] <= Trust[pmemIndexBest]
                    /\ Trust[i] > Trust[pmemIndexBest]
        fork  == ForkOf(pmemIndexBest, inter)
    IN  /\ task.stage = "setbest"
        /\ Parent[b] # pmemIndexBest
        /\ task' = [task EXCEPT !.stage = "disconnect",
                                !.old = pmemIndexBest,
                                !.todo = Reverse(Branch(fork, pmemIndexBest)),
                                !.connect = Branch(fork, inter),
                                !.second = Branch(inter, b)]
        /\ UNCHANGED <<disk, memory, faults>>

(* DisconnectBlock, from the top down: hashNext of the previous block is   *)
(* cleared through a CTxDB of its own, which has no batch.                 *)
DisconnectBlock ==
    LET prev == Parent[Head(task.todo)] IN
    /\ task.stage \in {"disconnect", "rollback"}
    /\ task.todo # <<>>
    /\ disk' = [disk EXCEPT !.next[prev] = None]
    /\ cacheNext' = [cacheNext EXCEPT ![prev] = None]
    /\ task' = [task EXCEPT !.todo = Tail(@)]
    /\ UNCHANGED <<blocks, pnext, batch, pmemIndexBest, pregistryMain, faults>>

(* The rewind to the fork inside Reorganize; its result is ignored.        *)
RewindToFork ==
    LET fork == Parent[Head(task.connect)]
        w    == RewindRegistry(Work(NullRegistry), fork, fork, ALL_SNAPS, InMain)
    IN  /\ task.stage = "disconnect"
        /\ task.todo = <<>>
        /\ disk' = WithSnaps(disk, w)
        /\ task' = [task EXCEPT !.stage = "connect", !.next = w.reg,
                                !.todo = task.connect]
        /\ UNCHANGED <<memory, faults>>

(* Mutant: the result of ConnectBlock is ignored.                          *)
ConnectBlockUnchecked ==
    LET b == Head(task.todo)
        w == UpdateOnNewBlock(Work(task.next), b, ALL_SNAPS)
    IN  /\ task.stage = "connect"
        /\ task.todo # <<>>
        /\ cacheNext' = [cacheNext EXCEPT ![Parent[b]] = b]
        /\ disk' = WithSnaps(disk, w)
        /\ batch' = batch \cup {b, Parent[b]}
        /\ task' = [task EXCEPT !.todo = Tail(@), !.next = w.reg]
        /\ UNCHANGED <<blocks, pnext, pmemIndexBest, pregistryMain, faults>>

(* ConnectBlock inside Reorganize: the records of the block and of its     *)
(* parent go into the batch, and into the cache at once.  A failure aborts *)
(* the transaction.                                                        *)
ConnectBlock ==
    LET b == Head(task.todo)
        w == UpdateOnNewBlock(Work(task.next), b, ALL_SNAPS)
    IN  /\ task.stage = "connect"
        /\ task.todo # <<>>
        /\ IF b \in Bad
             THEN /\ batch' = {}
                  /\ task' = Rejected
                  /\ UNCHANGED <<disk, cacheNext>>
             ELSE /\ cacheNext' = [cacheNext EXCEPT ![Parent[b]] = b]
                  /\ disk' = WithSnaps(disk, w)
                  /\ batch' = IF w.ok THEN batch \cup {b, Parent[b]} ELSE {}
                  /\ task' = IF w.ok
                               THEN [task EXCEPT !.todo = Tail(@), !.next = w.reg]
                               ELSE Rejected
        /\ faults' = [faults EXCEPT !.harm = IF task' = Rejected
                                               THEN @ \cup {"aborted"} ELSE @]
        /\ UNCHANGED <<blocks, pnext, pmemIndexBest, pregistryMain>>

(* The end of Reorganize: commit, then the links in memory.                *)
CommitReorganize ==
    LET b   == task.connect[Len(task.connect)]
        off == Unlink(pnext, Branch(Parent[Head(task.connect)], task.old))
    IN  /\ task.stage = "connect"
        /\ task.todo = <<>>
        /\ disk' = [disk EXCEPT
                      !.next = [x \in Tree |-> IF x \in batch THEN cacheNext[x]
                                               ELSE disk.next[x]],
                      !.best = b]
        /\ batch' = {}
        /\ IF ProperlyConnected(off, Head(task.connect))
             THEN /\ pnext' = Link(off, task.connect)
                  /\ task' = [task EXCEPT !.stage = "replay"]
             ELSE pnext' = off /\ task' = Rejected
        /\ UNCHANGED <<blocks, cacheNext, pmemIndexBest, pregistryMain, faults>>

(* SetBestChain after Reorganize: a registry is brought from a snapshot to *)
(* the last block connected, along pnext.                                  *)
ReplayReorganized ==
    LET fork == Parent[Head(task.connect)]
        last == task.connect[Len(task.connect)]
        snap == GetRegistrySnapshot(disk.snaps, Height(fork))
        path == Onward(pnext, snap.hashBlock,
                       IF task.second = <<>> THEN None ELSE last)
        end  == IF path = <<>> THEN snap.hashBlock ELSE path[Len(path)]
        w    == UpdateAll(Work(snap), path, ALL_SNAPS)
    IN  /\ task.stage = "replay"
        /\ disk' = WithSnaps(disk, w)
        /\ task' = IF task.second # <<>> /\ end # last
                     THEN Rejected
                     ELSE [task EXCEPT !.stage = "second", !.next = w.reg,
                                       !.todo = task.second]
        /\ UNCHANGED <<memory, faults>>

(* The secondary blocks, one transaction each.  The first failure of       *)
(* SetBestChainInner makes its parent the new best block; a block that     *)
(* cannot be read ends the loop and nothing more.                          *)
SetNewBest(b) ==
    /\ pmemIndexBest' = b
    /\ task' = [Accepted EXCEPT !.temp = task.next]

AttachSecondary ==
    LET b == Head(task.todo)
        w == UpdateOnNewBlock(Work(task.next), b, ALL_SNAPS)
    IN  /\ task.stage = "second"
        /\ task.todo # <<>>
        /\ IF b \in Bad
             THEN SetNewBest(Parent[b]) /\ UNCHANGED <<disk, pnext, cacheNext>>
             ELSE /\ cacheNext' = [cacheNext EXCEPT ![Parent[b]] = b]
                  /\ IF ProperlyConnected(pnext, b)
                       THEN /\ disk' = WithSnaps(Attached(b), w)
                            /\ pnext' = [pnext EXCEPT ![Parent[b]] = b]
                            /\ task' = [task EXCEPT !.todo = Tail(@),
                                                    !.next = w.reg]
                            /\ UNCHANGED pmemIndexBest
                       ELSE /\ disk' = Attached(b)
                            /\ SetNewBest(Parent[b])
                            /\ UNCHANGED pnext
        /\ UNCHANGED <<blocks, batch, pregistryMain, faults>>

SecondaryUnreadable ==
    /\ task.stage = "second"
    /\ task.todo # <<>>
    /\ faults.readFails < setting.readFails
    /\ faults' = [faults EXCEPT !.readFails = @ + 1,
                                !.harm = @ \cup {"unread"}]
    /\ SetNewBest(task.block)
    /\ UNCHANGED <<disk, blocks, pnext, cacheNext, batch, pregistryMain>>

SecondaryDone ==
    /\ task.stage = "second"
    /\ task.todo = <<>>
    /\ SetNewBest(task.block)
    /\ UNCHANGED <<disk, blocks, pnext, cacheNext, batch, pregistryMain, faults>>

(* Mutant: the temporary registry is not rewound.                          *)
ProcessOrphanNoRewind(o) ==
    /\ task.stage = "orphans"
    /\ task.work # <<>>
    /\ o \in mapOrphanBlocks
    /\ Parent[o] = Head(task.work)
    /\ AddRecord(o)
    /\ mapOrphanBlocks' = mapOrphanBlocks \ {o}
    /\ task' = [task EXCEPT !.stage = "update", !.block = o]
    /\ UNCHANGED <<batch, pmemIndexBest, pregistryMain, faults>>

(* The loop over the orphans, breadth first.  The temporary registry is    *)
(* rewound if it is not at the parent of the orphan, which leaves the pool *)
(* whether it is accepted or not.                                          *)
ProcessOrphan(o) ==
    LET prev   == Parent[o]
        rewind == task.temp.hashBlock # prev
        w      == IF rewind
                    THEN RewindRegistry(Work(NullRegistry), prev, prev,
                                        NO_SNAPS, InMain)
                    ELSE Work(task.temp)
        deeper == rewind /\ (task.deepest = None \/ Height(prev) < Height(task.deepest))
    IN  /\ task.stage = "orphans"
        /\ task.work # <<>>
        /\ o \in mapOrphanBlocks
        /\ prev = Head(task.work)
        /\ w.ok
        /\ AddRecord(o)
        /\ mapOrphanBlocks' = mapOrphanBlocks \ {o}
        /\ task' = [task EXCEPT !.stage = "update", !.block = o, !.temp = w.reg,
                                !.deepest = IF deeper THEN prev ELSE @]
        /\ UNCHANGED <<batch, pmemIndexBest, pregistryMain, faults>>

NextOrphans ==
    /\ task.stage = "orphans"
    /\ task.work # <<>>
    /\ \A o \in mapOrphanBlocks : Parent[o] # Head(task.work)
    /\ task' = [task EXCEPT !.work = Tail(@),
                            !.stage = IF Tail(task.work) = <<>> THEN "finish" ELSE @]
    /\ UNCHANGED <<disk, memory, faults>>

(* Mutant: the main registry follows a side chain too.                     *)
FinishAlways ==
    /\ task.stage = "finish"
    /\ pregistryMain' = task.temp
    /\ task' = Idle
    /\ UNCHANGED <<disk, blocks, pnext, cacheNext, batch, pmemIndexBest, faults>>

(* The end of ProcessBlock: the main registry follows if the temporary one *)
(* is at the best block.  After a rewind it is rebuilt, for the snapshots. *)
Finish ==
    LET w == RewindRegistry(Work(NullRegistry), task.deepest,
                            pmemIndexBest, ALL_SNAPS, InMain)
    IN  /\ task.stage = "finish"
        /\ IF pmemIndexBest # task.temp.hashBlock
             THEN UNCHANGED <<disk, pregistryMain>>
           ELSE IF task.deepest # None
             THEN /\ disk' = WithSnaps(disk, w)
                  /\ pregistryMain' = IF w.ok THEN w.reg ELSE pregistryMain
           ELSE disk' = disk /\ pregistryMain' = task.temp
        /\ task' = Idle
        /\ UNCHANGED <<blocks, pnext, cacheNext, batch, pmemIndexBest, faults>>

-----------------------------------------------------------------------------
(* Rollback to the last block of the third queue back, a block before the  *)
(* one the registry is at.                                                 *)
StartRollback(a) ==
    /\ task.stage = "idle"
    /\ faults.rollbacks < setting.rollbacks
    /\ a \in Chain(pregistryMain.hashBlock) \cap Chain(pmemIndexBest)
    /\ a # pmemIndexBest
    /\ Height(a) >= setting.floor
    /\ faults' = [faults EXCEPT !.rollbacks = @ + 1]
    /\ task' = [Idle EXCEPT !.stage = "rollback", !.block = a,
                            !.old = pmemIndexBest,
                            !.todo = Reverse(Branch(a, pmemIndexBest))]
    /\ UNCHANGED <<disk, memory>>

(* Mutant: the links in memory stay.                                       *)
CommitRollbackLinked ==
    /\ task.stage = "rollback"
    /\ task.todo = <<>>
    /\ disk' = [disk EXCEPT !.best = task.block]
    /\ task' = [task EXCEPT !.stage = "rewind"]
    /\ UNCHANGED <<memory, faults>>

CommitRollback ==
    /\ task.stage = "rollback"
    /\ task.todo = <<>>
    /\ disk' = [disk EXCEPT !.best = task.block]
    /\ pnext' = Unlink(pnext, Branch(task.block, task.old))
    /\ task' = [task EXCEPT !.stage = "rewind"]
    /\ UNCHANGED <<blocks, cacheNext, batch, pmemIndexBest, pregistryMain, faults>>

(* The block to which the rewind came is the new best block.               *)
FinishRollback ==
    LET a == task.block
        w == RewindRegistry(Work(NullRegistry), a, a, ALL_SNAPS, InMain)
    IN  /\ task.stage = "rewind"
        /\ Height(a) >= START_PURCHASE
        /\ disk' = WithSnaps(disk, w)
        /\ pregistryMain' = w.reg
        /\ pmemIndexBest' = w.reg.hashBlock
        /\ task' = Idle
        /\ UNCHANGED <<blocks, pnext, cacheNext, batch, faults>>

(* Before START_PURCHASE RewindRegistry does not say to which block it     *)
(* came: the pointer is used uninitialised, and holds what a block index   *)
(* pointer held before or something that ends the process.                 *)
FinishRollbackWild ==
    /\ task.stage = "rewind"
    /\ Height(task.block) < START_PURCHASE
    /\ \/ task' = Down /\ UNCHANGED <<pmemIndexBest, pregistryMain>>
       \/ /\ pmemIndexBest' \in mapBlockIndex
          /\ pregistryMain' = NullRegistry
          /\ task' = Idle
    /\ faults' = [faults EXCEPT !.harm = @ \cup {"wild"}]
    /\ UNCHANGED <<disk, blocks, pnext, cacheNext, batch>>

-----------------------------------------------------------------------------
(* A crash, a kill or a shutdown, at any point.                            *)
Crash ==
    /\ task.stage # "down"
    /\ faults.crashes < setting.crashes
    /\ faults' = [faults EXCEPT
                    !.crashes = @ + 1,
                    !.harm = IF task.stage \in {"disconnect", "connect", "rollback"}
                               THEN @ \cup {"torn"} ELSE @]
    /\ task' = Down
    /\ UNCHANGED <<disk, memory>>

(* Mutant: a snapshot of the best block itself is used.                    *)
LoadedSnapshotOfBest ==
    LET n == disk.bestHeight
    IN  IF n \notin DOMAIN disk.snaps \/ n > Height(disk.best)
          THEN [h |-> None, reg |-> NullRegistry]
          ELSE [h |-> n, reg |-> disk.snaps[n]]

(* LoadBlockIndex.  The snapshot of bestRegistryHeight, or an earlier one  *)
(* if it is not below the best block, starts the registry; blocks marked   *)
(* as main chain are replayed in the order of their heights.               *)
LoadedSnapshot ==
    LET top  == Height(disk.best)
        n    == disk.bestHeight
        back == {h \in (START_PURCHASE + 1)..(n - BLOCKS_PER_SNAPSHOT) :
                    /\ h % BLOCKS_PER_SNAPSHOT = 0
                    /\ h < top
                    /\ h \in DOMAIN disk.snaps}
        h    == IF n < top THEN n ELSE IF back = {} THEN None ELSE Max(back)
    IN  IF h \notin DOMAIN disk.snaps
          THEN [h |-> None, reg |-> NullRegistry]
          ELSE [h |-> IF Readable(disk.snaps, h) THEN h ELSE None,
                reg |-> disk.snaps[h]]

Ascending(S) ==
    SortSeq(SelectSeq([i \in 1..(Max(Tree) + 1) |-> i - 1], LAMBDA b : b \in S),
            LAMBDA a, b : Height(a) < Height(b))

LoadReplay ==
    LET snap == LoadedSnapshot
        best == disk.best
        stop == Height(best) - 1
        main == {b \in disk.index : disk.next[b] # None \/ b = best}
        high == Max({Height(b) : b \in disk.index})
        step(v, b) ==
            LET type == IF high - Height(b) > RECENT_SNAPSHOTS * BLOCKS_PER_SNAPSHOT
                          THEN SPARSE_SNAPS ELSE ALL_SNAPS
                due == /\ Height(b) >= START_PURCHASE
                       /\ \/ v.w.reg.nBlockHeight = 0
                          \/ Height(b) = v.w.reg.nBlockHeight + 1
                w == IF due THEN UpdateOnNewBlock(v.w, b, type) ELSE v.w
            IN  IF v.done THEN v
                ELSE [w |-> w, last |-> b, done |-> w.reg.nBlockHeight >= stop]
    IN  FoldLeft(step, [w |-> Work(snap.reg), last |-> None, done |-> FALSE],
                 Ascending({b \in main : Height(b) > snap.h}))

(* The registry that checks the last blocks also takes snapshots.          *)
LoadCheck(w) ==
    LET best  == disk.best
        depth == Min({CheckDepth, Height(best) - 1})
        start == IF depth <= 1 THEN best
                 ELSE Path[best][Max({Height(best) - depth + 1, 1})]
        snap  == GetRegistrySnapshot(w.snaps, Height(start) - 1)
    IN  UpdateAll([w EXCEPT !.reg = snap],
                  Onward(disk.next, snap.hashBlock,
                         IF start = Genesis THEN None ELSE Parent[start]),
                  ALL_SNAPS)

Loaded(w) ==
    /\ mapBlockIndex' = disk.index
    /\ mapOrphanBlocks' = {}
    /\ pnext' = disk.next
    /\ cacheNext' = disk.next
    /\ batch' = {}
    /\ pmemIndexBest' = disk.best
    /\ pregistryMain' = w.reg
    /\ disk' = WithSnaps(disk, LoadCheck(w))
    /\ task' = Idle

(* Mutant: the registry stays one block behind.                            *)
BestReplayedNot(w) == [w EXCEPT !.ok = TRUE]

(* The best block itself, after the replay.                                *)
BestReplayed(w) == UpdateOnNewBlock(w, disk.best, ALL_SNAPS)

LoadFails(why, w) ==
    /\ task' = [Down EXCEPT !.stage = why]
    /\ disk' = WithSnaps(disk, w)
    /\ UNCHANGED memory

LoadBlockIndex ==
    LET v    == LoadReplay
        best == disk.best
        got  == v.w.reg.nBlockHeight
        w    == BestReplayed(v.w)
    IN  /\ task.stage = "down"
        /\ IF v.last = None THEN LoadFails("no main chain", v.w)
           ELSE IF Height(best) = got
             THEN IF best = Genesis THEN Loaded(v.w)
                  ELSE LoadFails("TSNH not genesis", v.w)
           ELSE IF Height(best) < got THEN LoadFails("TSNH best lower", v.w)
           ELSE IF Height(best) > got + 1
             THEN IF Trust[best] = Trust[v.last] THEN Loaded(v.w)
                  ELSE LoadFails("fork back", v.w)
           ELSE IF Height(best) >= START_PURCHASE /\ best = disk.next[v.last]
             THEN IF w.ok THEN Loaded(w) ELSE LoadFails("refused", w)
           ELSE LoadFails("fork back", v.w)
        /\ UNCHANGED faults

Next ==
    /\ \/ \E b \in setting.arrive : ReceiveOrphan(b) \/ ProcessBlock(b)
       \/ UpdateTemp \/ Extend
       \/ StartReorganize \/ DisconnectBlock \/ RewindToFork \/ ConnectBlock
       \/ CommitReorganize \/ ReplayReorganized
       \/ AttachSecondary \/ SecondaryUnreadable \/ SecondaryDone
       \/ \E o \in Blocks : ProcessOrphan(o)
       \/ NextOrphans
       \/ Finish
       \/ \E a \in Tree : StartRollback(a)
       \/ CommitRollback \/ FinishRollback \/ FinishRollbackWild
       \/ Crash \/ LoadBlockIndex
    /\ UNCHANGED setting

Spec == Init /\ [][Next]_vars

(* What the thread has begun it goes on with.                              *)
Step ==
    \/ UpdateTemp \/ Extend
    \/ StartReorganize \/ DisconnectBlock \/ RewindToFork \/ ConnectBlock
    \/ CommitReorganize \/ ReplayReorganized
    \/ AttachSecondary \/ SecondaryDone
    \/ \E o \in Blocks : ProcessOrphan(o)
    \/ NextOrphans \/ Finish

(* The node asks for the blocks before an orphan (PushGetBlocks, AskFor),  *)
(* the peer that sent the orphan has them, and its messages are handled in *)
(* turn.                                                                   *)
Wanted(b) == b \notin mapBlockIndex /\ \E o \in mapOrphanBlocks : b \in Chain(o)

FairSpec ==
    /\ Spec
    /\ WF_vars(Step /\ UNCHANGED setting)
    /\ SF_vars(\E b \in setting.arrive : Wanted(b) /\ ProcessBlock(b) /\ UNCHANGED setting)
=============================================================================
