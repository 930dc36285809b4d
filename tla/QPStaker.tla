------------------------------ MODULE QPStaker -------------------------------
(***************************************************************************)
(* A staker's statistics (QPStaker): how many blocks it produced, missed,  *)
(* was docked for and saw, its most recent slots, the most recent slots    *)
(* before its own, and whether it is disabled or disqualified.  Its keys,  *)
(* payouts and earnings are in QPLedger.                                   *)
(***************************************************************************)
EXTENDS Integers, FiniteSets

CONSTANTS
    QP_STAKER_RECENT_BLOCKS,     \* number of recent slots remembered
    QP_STAKER_MAX_MISSES,        \* consecutive misses before auto-disabling
    QP_STAKER_REENABLE_WAIT,     \* blocks before a disabled staker may return
    QP_NOOB_BLOCKS,              \* blocks a new staker may see with no net block
    QP_MIN_OF_BLOCKS_MISSED_MAX  \* least limit on misses by predecessors

ASSUME StakerAssumption ==
    /\ QP_STAKER_RECENT_BLOCKS \in Nat \ {0}
    /\ QP_STAKER_MAX_MISSES \in 1..QP_STAKER_RECENT_BLOCKS
    /\ QP_STAKER_REENABLE_WAIT \in Nat
    /\ QP_NOOB_BLOCKS \in Nat
    /\ QP_MIN_OF_BLOCKS_MISSED_MAX \in Nat

\* a bitset of recent slots; bit 0 is the most recent
RecentBlocks == [0..(QP_STAKER_RECENT_BLOCKS - 1) -> BOOLEAN]

AllProduced == [i \in 0..(QP_STAKER_RECENT_BLOCKS - 1) |-> TRUE]

\* bits <<= 1; bits[0] = b
ShiftIn(bits, b) == [i \in DOMAIN bits |-> IF i = 0 THEN b ELSE bits[i - 1]]

CountOff(bits) == Cardinality({i \in DOMAIN bits : ~bits[i]})

\* Disqualify sets the height to half the largest int: out of reach of any wait
HeightDisqualified == 1000000

StakerStats ==
    [nBlocksProduced : Nat, nBlocksMissed : Nat, nBlocksDocked : Nat,
     nBlocksAssigned : Nat, nBlocksSeen : Nat, nPrevBlocksMissed : Nat,
     bRecentBlocks : RecentBlocks, bPrevRecentBlocks : RecentBlocks,
     nHeightDisabled : Int, fQualified : BOOLEAN]

\* A staker is born disabled, at height -1, as if it had hit all blocks.
Reset ==
    [nBlocksProduced |-> 0, nBlocksMissed |-> 0, nBlocksDocked |-> 0,
     nBlocksAssigned |-> 0, nBlocksSeen |-> 0, nPrevBlocksMissed |-> 0,
     bRecentBlocks |-> AllProduced, bPrevRecentBlocks |-> AllProduced,
     nHeightDisabled |-> -1, fQualified |-> TRUE]

IsEnabled(s) == s.fQualified /\ s.nHeightDisabled = 0

GetRecentBlocksMissed(s) ==
    LET m == CountOff(s.bRecentBlocks) IN IF s.nBlocksMissed < m THEN s.nBlocksMissed ELSE m

GetPrevRecentBlocksMissed(s) ==
    LET m == CountOff(s.bPrevRecentBlocks)
    IN  IF s.nPrevBlocksMissed < m THEN s.nPrevBlocksMissed ELSE m

GetNetBlocks(s) ==
    IF s.nBlocksDocked >= s.nBlocksProduced THEN 0 ELSE s.nBlocksProduced - s.nBlocksDocked

uisqrt(n) == CHOOSE r \in 0..n : r * r <= n /\ n < (r + 1) * (r + 1)

GetWeight(s, nSeniority) ==
    IF GetNetBlocks(s) > 0
    THEN uisqrt(GetNetBlocks(s) + nSeniority * nSeniority)
    ELSE nSeniority

\* All of the last nMaxMiss slots missed, or all of the last nMaxMiss / 2 slots
\* before the staker's own.  With nMaxMiss = 1 the second loop checks nothing.
ShouldBeDisabled(s) ==
    \/ \A i \in 0..(QP_STAKER_MAX_MISSES - 1) : ~s.bRecentBlocks[i]
    \/ \A i \in 0..((QP_STAKER_MAX_MISSES \div 2) - 1) : ~s.bPrevRecentBlocks[i]

ShouldBeDisqualified(s, nPrevRecentBlocksMissedMax) ==
    \/ GetPrevRecentBlocksMissed(s) > nPrevRecentBlocksMissedMax
    \/ /\ s.nBlocksSeen > QP_NOOB_BLOCKS
       /\ \/ GetNetBlocks(s) <= 0
          \/ GetRecentBlocksMissed(s) > QP_STAKER_RECENT_BLOCKS \div 2

UpdatePrevRecentBlocks(s, fPrevDidProduceBlock) ==
    [s EXCEPT !.bPrevRecentBlocks = ShiftIn(@, fPrevDidProduceBlock),
              !.nPrevBlocksMissed = IF fPrevDidProduceBlock THEN @ ELSE @ + 1]

\* Fault: a block after a missed slot is not counted.
ProducedBlockIfPrev(s, fPrevDidProduceBlock) ==
    UpdatePrevRecentBlocks([s EXCEPT !.nBlocksProduced = IF fPrevDidProduceBlock THEN @ + 1 ELSE @,
                                     !.nBlocksAssigned = @ + 1,
                                     !.bRecentBlocks = ShiftIn(@, TRUE)],
                           fPrevDidProduceBlock)

ProducedBlock(s, fPrevDidProduceBlock) ==
    UpdatePrevRecentBlocks([s EXCEPT !.nBlocksProduced = @ + 1,
                                     !.nBlocksAssigned = @ + 1,
                                     !.bRecentBlocks = ShiftIn(@, TRUE)],
                           fPrevDidProduceBlock)

\* Fault: a missed slot takes a docked block away.
MissedBlockUndocked(s, fPrevDidProduceBlock, fDock) ==
    UpdatePrevRecentBlocks([s EXCEPT !.nBlocksAssigned = @ + 1,
                                     !.nBlocksMissed = @ + 1,
                                     !.nBlocksDocked = IF fDock THEN @ - 1 ELSE @,
                                     !.bRecentBlocks = ShiftIn(@, FALSE)],
                           fPrevDidProduceBlock)

\* Fault: a missed slot is not counted among the assigned ones.
MissedBlockUnassigned(s, fPrevDidProduceBlock, fDock) ==
    UpdatePrevRecentBlocks([s EXCEPT !.nBlocksMissed = @ + 1,
                                     !.nBlocksDocked = IF fDock THEN @ + 1 ELSE @,
                                     !.bRecentBlocks = ShiftIn(@, FALSE)],
                           fPrevDidProduceBlock)

MissedBlock(s, fPrevDidProduceBlock, fDock) ==
    UpdatePrevRecentBlocks([s EXCEPT !.nBlocksAssigned = @ + 1,
                                     !.nBlocksMissed = @ + 1,
                                     !.nBlocksDocked = IF fDock THEN @ + 1 ELSE @,
                                     !.bRecentBlocks = ShiftIn(@, FALSE)],
                           fPrevDidProduceBlock)

SawBlock(s) == [s EXCEPT !.nBlocksSeen = @ + 1]

GetEnableHeight(s) ==
    IF s.nHeightDisabled = 0 THEN 0 ELSE s.nHeightDisabled + QP_STAKER_REENABLE_WAIT

CanBeEnabled(s, nHeight) == nHeight >= GetEnableHeight(s)

Enable(s) == [s EXCEPT !.nHeightDisabled = 0]

Disable(s, nHeight) == [s EXCEPT !.nHeightDisabled = nHeight]

Disqualify(s) == [s EXCEPT !.nHeightDisabled = HeightDisqualified, !.fQualified = FALSE]

Requalify(s) == [s EXCEPT !.nHeightDisabled = 0, !.fQualified = TRUE]

ResetDocked(s) == [s EXCEPT !.nBlocksDocked = 0]

=============================================================================
