---------------------------- MODULE MCChainStore ----------------------------
(***************************************************************************)
(* ChainStore on small trees, and what is asked of it.                     *)
(***************************************************************************)
EXTENDS ChainStore

(* The thread is between two blocks and the process runs.                  *)
Idling == task.stage = "idle"

(* hashNext or pnext of b when the best block is "best".                   *)
NextOf(b, best) ==
    IF b \in Chain(best) \ {best} THEN Path[best][Height(b) + 1] ELSE None

(* The events that happened leave the node what it should be: none of the  *)
(* four that harm it, or reorganisations aborted and no restart since.     *)
Unharmed ==
    faults.harm = {} \/ (faults.harm = {"aborted"} /\ faults.crashes = 0)

(* The registry reg is the registry of block b: it was updated with the    *)
(* blocks of the chain of b, each once and in order.                       *)
RegistryOf(reg, b) == reg.hashBlock = b /\ reg.applied = Content(b)

RewindsTo(b) ==
    LET w == RewindRegistry(Work(NullRegistry), b, b, NO_SNAPS, InMain)
    IN  w.ok /\ RegistryOf(w.reg, b)

(* The blocks that arrive form one chain.                                  *)
NoForks == \A b, c \in setting.arrive : Parent[b] = Parent[c] => b = c

-----------------------------------------------------------------------------
(* Between blocks the main registry is the registry of the best block,     *)
(* through extensions, side chains, reorganisations that succeed or are    *)
(* aborted and rollbacks, if no block arrives before its parent (the end   *)
(* of ProcessBlock, Rollback, RewindRegistry).                             *)
RegistryFollowsBest ==
    Idling /\ Unharmed /\ faults.crashes = 0 /\ setting.early = {} =>
        RegistryOf(pregistryMain, pmemIndexBest)

(* Whatever arrives before its parent, the main registry is the registry   *)
(* of one block: orphans that leave the temporary registry on another      *)
(* branch delay it and do not spoil it (the end of ProcessBlock copies the *)
(* temporary registry only when it is at the best block).                  *)
RegistryIsOfOneBlock ==
    Idling /\ faults.crashes = 0 =>
        \E b \in mapBlockIndex : RegistryOf(pregistryMain, b)

(* A rewind to any known block, on the main chain or not, gives the        *)
(* registry of that block, whichever snapshots of other branches lie on    *)
(* disk under the same heights (RewindRegistry compares the hash of the    *)
(* snapshot, GetRegistrySnapshot does not).                                *)
RewindIsExact ==
    Idling /\ "wild" \notin faults.harm /\ faults.crashes = 0 =>
        \A b \in mapBlockIndex : Chain(b) \cap Refused = {} => RewindsTo(b)

(* On a chain without forks a crash or shutdown at any point, and the      *)
(* restart after it if it succeeds, gives back the registry of the best    *)
(* block, and the snapshots then on disk rewind to every block: through    *)
(* the sparse snapshots of the initial download, a rollback below the      *)
(* snapshot bestRegistryHeight names, and snapshots taken of blocks that   *)
(* were not adopted any more (LoadBlockIndex).                             *)
RegistrySurvivesRestart ==
    Idling /\ Unharmed /\ faults.crashes > 0 /\ NoForks =>
       /\ RegistryOf(pregistryMain, pmemIndexBest)
       /\ \A b \in mapBlockIndex : RewindsTo(b)

(* On a chain without forks the restart fails in one case only, that the   *)
(* snapshot it starts from is of the block just before the best one: then  *)
(* there is nothing to replay up to that block, and the loop, which tests  *)
(* for its end after a block, replays the best block (LoadBlockIndex).     *)
RestartFailsOnlyAboveSnapshot ==
    [][LoadBlockIndex /\ task' # Idle /\ Unharmed /\ NoForks =>
            LoadedSnapshot.h = Height(disk.best) - 1]_vars

(* As long as the node never rolled back, no chain that it knows and that  *)
(* connects has more trust than the best chain (AddToBlockIndex compares   *)
(* only the new block; what Reorganize refused must not hide an            *)
(* intermediate block that should have won).                               *)
HeaviestKnown ==
    Idling /\ Unharmed /\ faults.rollbacks = 0 /\ faults.crashes = 0 =>
        \A b \in mapBlockIndex :
            Chain(b) \cap (Bad \cup Refused) = {} => Trust[b] <= Trust[pmemIndexBest]

(* pnext leads from every block of the best chain, and only of it, to its  *)
(* successor there, also after a reorganisation that was aborted half way: *)
(* IsInMainChain is exact (CommitReorganize and Rollback relink the memory *)
(* index after the commit).                                                *)
LinksExact ==
    Idling /\ Unharmed =>
        \A b \in mapBlockIndex : pnext[b] = NextOf(b, pmemIndexBest)

(* Crashes at any point, with the restarts that follow, never part the     *)
(* index on disk from the one in memory, never break a link and never make *)
(* a chain the best one that does not connect; except through one of four  *)
(* events: a reorganisation or rollback interrupted before its commit      *)
(* ("torn"), a reorganisation aborted, a secondary block that cannot be    *)
(* read, and a rollback to before START_PURCHASE ("wild").                 *)
IntactUnlessHarmed ==
    Idling /\ faults.harm = {} =>
        /\ disk.best = pmemIndexBest
        /\ disk.index = mapBlockIndex
        /\ \A b \in mapBlockIndex : disk.next[b] = NextOf(b, pmemIndexBest)
        /\ Chain(disk.best) \subseteq disk.index
        /\ Chain(disk.best) \cap Bad = {}

(* No orphan waits for a block that the node has, unless that block cannot *)
(* be accepted: the loop of ProcessBlock reaches every descendant, across  *)
(* siblings, side chains and reorganisations in between.                   *)
OrphansWaitForParent ==
    Idling /\ faults.harm \subseteq {"aborted"} => \A o \in mapOrphanBlocks :
        Parent[o] \in mapBlockIndex => Chain(Parent[o]) \cap (Bad \cup Refused) # {}

(* What is on disk, at every moment, implements BestChain until one of the *)
(* four events: hashBestChain moves only to a chain of more trust whose    *)
(* blocks all connect, or back along its own chain; the many writes of one *)
(* reorganisation are one step or stutter, and so are crash and restart.   *)
(* After such an event the best block is taken to be genesis, of which     *)
(* nothing is claimed.                                                     *)
OnDisk == INSTANCE BestChain WITH
    known <- disk.index,
    best  <- IF Unharmed THEN disk.best ELSE Genesis
ImplementsBestChain == OnDisk!Spec

(* The orphans whose chain is valid leave the pool, again and again, if    *)
(* the blocks the node asks for arrive: the pool, the queue of orphans and *)
(* the blocks in between leave none behind (ProcessBlock).                 *)
OrphansAdopted ==
    []<>(\A o \in mapOrphanBlocks : Chain(o) \cap (Bad \cup Refused) # {})

-----------------------------------------------------------------------------
(* A main chain 1..5, a branch 6..9 from block 2, a branch 10, 11 from     *)
(* block 4, and after block 10 also block 12, which the registry refuses;  *)
(* 13..16 go on from block 5.  Trust is the height.                        *)
ForkedBlocks == 1..16
ForkedParent == [b \in ForkedBlocks |->
    CASE b = 6 -> 2 [] b = 10 -> 4 [] b = 12 -> 10 [] b = 13 -> 5
      [] OTHER -> b - 1]
ForkedTrust == [b \in 0..16 |->
    CASE b <= 5 -> b [] b \in 6..9 -> b - 3 [] b \in 10..11 -> b - 5
      [] b = 12 -> 6 [] b \in 13..16 -> b - 7]

(* What may happen: branches, a rollback and an unreadable block; blocks   *)
(* in any order; a crash at any point; two crashes on one long chain, in   *)
(* the initial download or later.                                          *)
Calm == [arrive |-> 1..12, early |-> {}, snapTypes |-> {ALL_SNAPS},
         crashes |-> 0, rollbacks |-> 1, floor |-> 1, readFails |-> 0]
ForkedSettings == {
    [Calm EXCEPT !.floor = 0, !.readFails = 1],
    [Calm EXCEPT !.arrive = 1..11, !.early = {4, 5, 7, 8, 9, 10, 11}],
    [Calm EXCEPT !.arrive = 1..11, !.crashes = 1],
    [Calm EXCEPT !.arrive = (1..5) \cup (13..16), !.crashes = 2,
                 !.snapTypes = {ALL_SNAPS, SPARSE_SNAPS}]}

(* Block 2 with the children 3 and 4, a child 5 of the latter, and a branch *)
(* 6, 7, 8 from block 1.                                                   *)
BushBlocks == 1..8
BushParent == <<0, 1, 2, 2, 4, 1, 6, 7>>
BushTrust == [b \in 0..8 |-> IF b = 0 THEN 0 ELSE <<1, 2, 3, 3, 4, 2, 3, 4>>[b]]
BushSettings ==
    {[Calm EXCEPT !.arrive = BushBlocks, !.early = {4, 5, 8}, !.rollbacks = 0]}
=============================================================================
