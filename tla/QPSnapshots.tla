---------------------------- MODULE QPSnapshots -----------------------------
(***************************************************************************)
(* The qPoS registry as the chain code sees it, and the snapshots of it on *)
(* disk (qpos/QPRegistry.cpp, blockchain/main.cpp,                         *)
(* db-leveldb/txdb-leveldb.cpp).  What a registry says is determined by    *)
(* the blocks it was updated with; that sequence stands for its stakers,   *)
(* balances and queues.                                                    *)
(*                                                                         *)
(* The operators work on a workspace [reg, snaps, bestHeight, ok]: the     *)
(* registry at hand, the snapshots and bestRegistryHeight on disk, and the *)
(* last result.                                                            *)
(***************************************************************************)
EXTENDS BlockTree, SequencesExt

CONSTANTS
    START_PURCHASE,           \* height from which the registry is used
    BLOCKS_PER_SNAPSHOT,
    RECENT_SNAPSHOTS,
    PERMANENT_SNAPSHOT_RATIO

ASSUME SnapshotAssumption ==
    /\ START_PURCHASE \in Nat \ {0}
    /\ BLOCKS_PER_SNAPSHOT \in Nat \ {0}
    /\ RECENT_SNAPSHOTS \in Nat \ {0}
    /\ PERMANENT_SNAPSHOT_RATIO \in Nat \ {0}

NO_SNAPS == "none"
SPARSE_SNAPS == "sparse"
ALL_SNAPS == "all"

(* SetNull: the registry of the genesis block.                             *)
NullRegistry == [hashBlock |-> Genesis, nBlockHeight |-> 0,
                 hashBlockLastSnapshot |-> Genesis, applied |-> <<>>]

(* What the registry of block b is meant to be built from.                 *)
Content(b) == SubSeq(Path[b], START_PURCHASE, Height(b))

NoSnapshots == [h \in {} |-> NullRegistry]

-----------------------------------------------------------------------------
(* The snapshot that UpdateOnNewTimeInternal takes, before the block is    *)
(* applied, under the height of the previous block.  A sparse replay       *)
(* erases the snapshots it passes.                                         *)
TakeSnapshot(w, prev, type) ==
    LET h == Height(prev)
        N == BLOCKS_PER_SNAPSHOT * RECENT_SNAPSHOTS
        M == BLOCKS_PER_SNAPSHOT * PERMANENT_SNAPSHOT_RATIO
        due == /\ type # NO_SNAPS
               /\ h >= START_PURCHASE
               /\ h % (IF type = SPARSE_SNAPS THEN M ELSE BLOCKS_PER_SNAPSHOT) = 0
        erase == /\ type = SPARSE_SNAPS
                 /\ h >= START_PURCHASE
                 /\ h % M # 0
        reg == [w.reg EXCEPT !.hashBlockLastSnapshot = prev]
        old == IF (h - N) % M # 0 THEN {h - N} ELSE {}
    IN  IF due /\ prev # w.reg.hashBlockLastSnapshot
          THEN [w EXCEPT
                  !.reg = reg,
                  !.bestHeight = h,
                  !.snaps = [k \in (DOMAIN w.snaps \cup {h}) \ old |->
                                IF k = h THEN reg ELSE w.snaps[k]]]
        ELSE IF erase
          THEN [w EXCEPT !.snaps = Restrict(w.snaps, DOMAIN w.snaps \ {h})]
        ELSE w

(* The registry does not ask whether b's parent is the block it is at: the *)
(* queue of a round does not depend on the blocks in it.                   *)
UpdateOnNewBlock(w, b, type) ==
    LET t == TakeSnapshot(w, Parent[b], type) IN
    IF b \in Refused
      THEN [t EXCEPT !.ok = FALSE]
      ELSE [t EXCEPT
              !.ok = TRUE,
              !.reg.hashBlock = b,
              !.reg.nBlockHeight = Height(b),
              !.reg.applied = IF Height(b) >= START_PURCHASE
                                THEN Append(@, b) ELSE @]

(* Updates along a sequence of blocks that go on after a failure, and ones *)
(* that stop at it.                                                        *)
UpdateAll(w, s, type) ==
    FoldLeft(LAMBDA v, b : UpdateOnNewBlock(v, b, type), w, s)

UpdateWhileOk(w, s, type) ==
    FoldLeft(LAMBDA v, b : IF v.ok THEN UpdateOnNewBlock(v, b, type) ELSE v,
             [w EXCEPT !.ok = TRUE], s)

(* CTxDB::ReadRegistrySnapshot: the height is checked, the hash is not.    *)
Readable(snaps, h) == h \in DOMAIN snaps /\ snaps[h].nBlockHeight = h

(* The highest readable snapshot at or below height n, whatever its hash.  *)
GetRegistrySnapshot(snaps, n) ==
    LET found == {h \in START_PURCHASE..n :
                     h % BLOCKS_PER_SNAPSHOT = 0 /\ Readable(snaps, h)}
    IN  IF found = {} THEN NullRegistry ELSE snaps[Max(found)]

-----------------------------------------------------------------------------
(* Mutant: the hash of the snapshot is not compared.                       *)
RewindStartByHeight(snaps, rewindTo, inMain) ==
    GetRegistrySnapshot(snaps, Height(rewindTo) - 1)

(* RewindRegistry: the search for the highest snapshot of a block before   *)
(* rewindTo, below a block of the main chain, and the replay from it to    *)
(* replayTo.                                                               *)
RewindStart(snaps, rewindTo, inMain) ==
    LET found == {a \in Chain(rewindTo) \ {rewindTo} :
                    /\ Height(a) >= START_PURCHASE
                    /\ Height(a) % BLOCKS_PER_SNAPSHOT = 0
                    /\ \E x \in Chain(rewindTo) :
                          Height(x) > Height(a) /\ x \in inMain
                    /\ Readable(snaps, Height(a))
                    /\ snaps[Height(a)].hashBlock = a}
        best == CHOOSE a \in found : \A c \in found : Height(c) <= Height(a)
    IN  IF found = {} THEN NullRegistry ELSE snaps[Height(best)]

(* replayTo always descends from rewindTo, so the replay meets the block   *)
(* of the snapshot; with no snapshot it starts at START_PURCHASE.  The     *)
(* last block replayed is reg.hashBlock, except that before START_PURCHASE *)
(* the function returns early.                                             *)
RewindRegistry(w, rewindTo, replayTo, type, inMain) ==
    LET start  == RewindStart(w.snaps, rewindTo, inMain)
        replay == IF start.hashBlock = Genesis THEN Content(replayTo)
                  ELSE Branch(start.hashBlock, replayTo)
    IN  IF Height(rewindTo) < START_PURCHASE
          THEN [w EXCEPT !.reg = NullRegistry, !.ok = TRUE]
          ELSE UpdateWhileOk([w EXCEPT !.reg = start], replay, type)
=============================================================================
