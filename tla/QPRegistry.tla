----------------------------- MODULE QPRegistry ------------------------------
(***************************************************************************)
(* The qPoS registry (QPRegistry) as a record, and its operations as       *)
(* functions on that record: a new round, a missed slot, a produced block, *)
(* a change of state, the fork adjustments, replay mode.  The ledger and   *)
(* the names of the registry are in QPLedger.  The model is of mainnet     *)
(* (fTestNet = false).                                                     *)
(***************************************************************************)
EXTENDS QPQueue, QPStaker

LOCAL INSTANCE FiniteSetsExt

CONSTANTS
    Hashes,                 \* block hashes, as far as shuffles tell them apart
    Shuffle(_, _),          \* the queue NewQueue draws from a set of IDs and a hash
    TRIL,                   \* the unit of power
    QP_MIN_PICO_POWER,      \* power a chain needs, in parts of TRIL
    MinEnabled,             \* auto-disabling stops at this many enabled stakers
    MaxStakers,             \* bound on purchases
    ForkQPoS,               \* first height of XST_FORKQPOS, and so on
    ForkFeeless,
    ForkMissFix,
    ForkReinstate,
    ForkMissFix2,
    ForkFeeless2

\* vIDs holds every member of S once.
IsShuffleOf(vIDs, S) ==
    /\ vIDs \in Seq(S)
    /\ \A i \in S : \E j \in 1..Len(vIDs) : vIDs[j] = i
    /\ \A i, j \in 1..Len(vIDs) : vIDs[i] = vIDs[j] => i = j

ASSUME ShuffleAssumption ==
    \A S \in SUBSET (1..MaxStakers), h \in Hashes : IsShuffleOf(Shuffle(S, h), S)

ASSUME PowerAssumption ==
    /\ TRIL \in Nat \ {0}
    /\ QP_MIN_PICO_POWER \in 1..TRIL
    /\ MinEnabled \in Nat
    /\ MaxStakers \in Nat

\* "Make sure forks are ascending!" (chainparams.cpp)
ASSUME ForkAssumption ==
    /\ {ForkQPoS, ForkFeeless, ForkMissFix, ForkReinstate, ForkMissFix2, ForkFeeless2}
         \subseteq Nat
    /\ ForkQPoS > 1
    /\ ForkQPoS <= ForkFeeless /\ ForkFeeless <= ForkMissFix
    /\ ForkMissFix <= ForkReinstate /\ ForkReinstate <= ForkMissFix2
    /\ ForkMissFix2 <= ForkFeeless2

-----------------------------------------------------------------------------
(* Stakers of a registry r *)

\* Of mapStakers[1..MaxStakers] the first nIDCounter are registered.
IDs(r) == 1..r.nIDCounter

EnabledIDs(r) == {i \in IDs(r) : IsEnabled(r.mapStakers[i])}

GetNumberEnabled(r) == Cardinality(EnabledIDs(r))

\* A purchase registers the next ID.
ApplyPurchase(r) ==
    [r EXCEPT !.nIDCounter = @ + 1, !.mapStakers[r.nIDCounter + 1] = Reset]

CanSetState(r, nID) == nID \in IDs(r) /\ r.mapStakers[nID].fQualified

\* TX_ENABLE; enabling too soon is a no-op
ApplyEnable(r, nID) ==
    IF CanBeEnabled(r.mapStakers[nID], r.nBlockHeight)
    THEN [r EXCEPT !.mapStakers[nID] = Enable(@)]
    ELSE r

\* TX_DISABLE; nHeight is the height of the block that holds it
ApplyDisable(r, nID, nHeight) == [r EXCEPT !.mapStakers[nID] = Disable(@, nHeight)]

-----------------------------------------------------------------------------
(* Replay mode *)

IsInReplayMode(r) == r.nHeightExitedReplay = 0

ExitReplayMode(r) == [r EXCEPT !.nHeightExitedReplay = r.nBlockHeight]

EnterReplayMode(r) ==
    IF ~IsInReplayMode(r) /\ r.nBlockHeight > r.nHeightExitedReplay + 1 + Size(r.queue)
    THEN [r EXCEPT !.nHeightExitedReplay = 0]
    ELSE r

-----------------------------------------------------------------------------
(* Power *)

\* Fault: the newest staker has no seniority.
PowerElementJunior(r, nID, fDidProduceBlock) ==
    [nStakerID |-> nID,
     nWeight |-> GetWeight(r.mapStakers[nID], r.nIDCounter - nID),
     fDidProduceBlock |-> fDidProduceBlock]

\* The oldest staker is the most senior.
PowerElement(r, nID, fDidProduceBlock) ==
    [nStakerID |-> nID,
     nWeight |-> GetWeight(r.mapStakers[nID], r.nIDCounter + 1 - nID),
     fDidProduceBlock |-> fDidProduceBlock]

TotalWeight(round) == FoldFunction(LAMBDA e, n : n + e.nWeight, 0, round)

Weight(round) ==
    FoldFunction(LAMBDA e, n : IF e.fDidProduceBlock THEN n + e.nWeight ELSE n, 0, round)

GetPicoPower(r) ==
    LET t == TotalWeight(r.powerRoundPrev) + TotalWeight(r.powerRoundCurrent)
        w == Weight(r.powerRoundPrev) + Weight(r.powerRoundCurrent)
    IN  IF t = 0 THEN 0 ELSE (w * TRIL) \div t

HasEnoughPower(r) == r.powerRoundPrev = << >> \/ GetPicoPower(r) >= QP_MIN_PICO_POWER

\* fSynced: the adjusted time is in the window of the current slot
CheckSynced(r, fSynced) ==
    IF IsInReplayMode(r) /\ HasEnoughPower(r) /\ fSynced THEN ExitReplayMode(r) ELSE r

-----------------------------------------------------------------------------
(* Slots *)

\* Fault: the floor is tested after the staker has been counted out.
DisableStakerLate(r, nID, nHeight) ==
    IF /\ r.nBlockHeight >= ForkFeeless
       /\ ShouldBeDisabled(r.mapStakers[nID])
       /\ GetNumberEnabled(r) >= MinEnabled
       /\ IsEnabled(r.mapStakers[nID])
    THEN [r EXCEPT !.mapStakers[nID] = Disable(@, nHeight)]
    ELSE r

DisableStakerIfNecessary(r, nID, nHeight) ==
    IF /\ r.nBlockHeight >= ForkFeeless
       /\ ShouldBeDisabled(r.mapStakers[nID])
       /\ GetNumberEnabled(r) > MinEnabled
       /\ IsEnabled(r.mapStakers[nID])
    THEN [r EXCEPT !.mapStakers[nID] = Disable(@, nHeight)]
    ELSE r

\* nHeight is the height of the last block.  A disqualified staker is an error,
\* which the caller ignores.
StakerMissedBlock(r, nID, nHeight) ==
    LET fDock == nHeight >= ForkMissFix
        counted ==
            [r EXCEPT !.powerRoundCurrent = Append(@, PowerElement(r, nID, FALSE)),
                      !.mapStakers[nID] = MissedBlock(@, r.fPrevBlockWasProduced, fDock),
                      !.fPrevBlockWasProduced = FALSE]
    IN  IF ~r.mapStakers[nID].fQualified
        THEN r
        ELSE IF fDock THEN DisableStakerIfNecessary(counted, nID, nHeight) ELSE counted

\* Fault: everybody is scheduled, enabled or not.
NewQueueOfAll(r, nTime0, hashPrev) ==
    [r EXCEPT !.nQueuePrev = Size(r.queue),
              !.queue = MakeQueue(nTime0, Shuffle(IDs(r), hashPrev)),
              !.nRound = @ + 1,
              !.powerRoundPrev = r.powerRoundCurrent,
              !.powerRoundCurrent = << >>]

\* Fails, in the code, if nobody is enabled.
NewQueue(r, nTime0, hashPrev) ==
    [r EXCEPT !.nQueuePrev = Size(r.queue),
              !.queue = MakeQueue(nTime0, Shuffle(EnabledIDs(r), hashPrev)),
              !.nRound = @ + 1,
              !.powerRoundPrev = r.powerRoundCurrent,
              !.powerRoundCurrent = << >>]

\* Fault: a slot counts as missed even if its block was produced.
PassSlotAlways(r, nHeight, nNewQueues) ==
    IF nHeight >= ForkQPoS
    THEN StakerMissedBlock(r, GetCurrentID(r.queue), nHeight)
    ELSE ExitReplayMode(r)

\* What becomes of a slot when the clock passes it.  Before the first qPoS block,
\* and from XST_FORKFEELESS2 on after a whole queue without a block, nobody is
\* blamed.
PassSlot(r, nHeight, nNewQueues) ==
    IF r.fCurrentBlockWasProduced
    THEN r
    ELSE IF nHeight >= ForkQPoS /\ (nHeight < ForkFeeless2 \/ nNewQueues <= 1)
    THEN StakerMissedBlock(r, GetCurrentID(r.queue), nHeight)
    ELSE ExitReplayMode(r)

CanMoveOn(r) == CanIncrementSlot(r.queue) \/ EnabledIDs(r) # {}

\* Fault: the new round starts a slot late.
MoveOnLate(r) ==
    LET moved == IF CanIncrementSlot(r.queue)
                 THEN [r EXCEPT !.queue = IncrementSlot(@)]
                 ELSE NewQueue(r, GetMaxTime(r.queue) + 1 + QP_TARGET_SPACING, r.hashBlock)
    IN  [moved EXCEPT !.fCurrentBlockWasProduced = FALSE]

MoveOn(r) ==
    LET moved == IF CanIncrementSlot(r.queue)
                 THEN [r EXCEPT !.queue = IncrementSlot(@)]
                 ELSE NewQueue(r, GetMaxTime(r.queue) + 1, r.hashBlock)
    IN  [moved EXCEPT !.fCurrentBlockWasProduced = FALSE]

\* After every slot the registry decides whether its chain has enough power.
JudgePower(r) ==
    IF HasEnoughPower(r)
    THEN [r EXCEPT !.fShouldRollback = FALSE]
    ELSE [(IF IsInReplayMode(r) THEN r ELSE ExitReplayMode(r)) EXCEPT !.fShouldRollback = TRUE]

-----------------------------------------------------------------------------
(* Blocks *)

\* The adjustments at XST_FORKMISSFIX2 and XST_FORKREINSTATE for a block at nHeight.
AdjustForForks(r, nHeight) ==
    IF r.nBlockHeight < ForkMissFix2 /\ nHeight >= ForkMissFix2
    THEN [r EXCEPT !.mapStakers = [i \in DOMAIN @ |-> ResetDocked(@[i])]]
    ELSE IF r.nBlockHeight < ForkReinstate /\ nHeight >= ForkReinstate
    THEN [r EXCEPT !.mapStakers =
             [i \in DOMAIN @ |-> ResetDocked(IF @[i].fQualified THEN @[i]
                                                                ELSE Requalify(@[i]))]]
    ELSE r

\* mean plus eight standard deviations of the others' predecessors' misses
MissedMax(r, others) ==
    LET n == Cardinality(others)
        m(i) == GetPrevRecentBlocksMissed(r.mapStakers[i])
        mean == MapThenSumSet(m, others) \div n
        sumOfSquares == MapThenSumSet(LAMBDA i : (m(i) - mean) * (m(i) - mean), others)
        limit == mean + 8 * uisqrt(sumOfSquares \div n)
    IN  IF limit > QP_MIN_OF_BLOCKS_MISSED_MAX THEN limit ELSE QP_MIN_OF_BLOCKS_MISSED_MAX

\* With no other enabled staker the limit is read uninitialised, and the staker
\* may or may not be disqualified: fGarbage stands for that outcome of the read.
DisqualifyStakerIfNecessary(r, nID, fGarbage) ==
    LET others == EnabledIDs(r) \ {nID}
        staker == r.mapStakers[nID]
        nMax == IF others # {} THEN MissedMax(r, others)
                ELSE IF fGarbage THEN 0 ELSE QP_STAKER_RECENT_BLOCKS
    IN  IF ShouldBeDisqualified(staker, nMax)
        THEN [r EXCEPT !.mapStakers[nID] = Disqualify(@)]
        ELSE r

StakerProducedBlock(r, nID, fGarbage) ==
    LET counted ==
            [r EXCEPT !.powerRoundCurrent = Append(@, PowerElement(r, nID, TRUE)),
                      !.mapStakers[nID] = ProducedBlock(@, r.fPrevBlockWasProduced)]
        judged == IF r.nBlockHeight < ForkReinstate
                  THEN DisqualifyStakerIfNecessary(counted, nID, fGarbage)
                  ELSE counted
    IN  [judged EXCEPT !.fCurrentBlockWasProduced = TRUE, !.fPrevBlockWasProduced = TRUE]

\* nID may produce the next block: its slot is the current one, a live registry
\* has seen no block in it, and the staker is not disqualified.
CanProduce(r, nID) ==
    /\ HasSlotForID(r.queue, nID)
    /\ GetSlotForID(r.queue, nID) = r.queue.nCurrentSlot
    /\ ~(r.fCurrentBlockWasProduced /\ ~IsInReplayMode(r))
    /\ r.mapStakers[nID].fQualified
    /\ CanSetBit(r.queue, BitForSlot(r.queue, r.queue.nCurrentSlot))

\* The end of UpdateOnNewBlock for a qPoS block.
Produce(r, nID, nHeight, hash, fGarbage) ==
    LET made == StakerProducedBlock(r, nID, fGarbage)
    IN  [made EXCEPT !.queue = SlotProduced(@, @.nCurrentSlot),
                     !.mapStakers = [i \in DOMAIN @ |-> IF i \in IDs(r) /\ @[i].fQualified
                                                        THEN SawBlock(@[i]) ELSE @[i]],
                     !.nBlockHeight = nHeight,
                     !.hashBlock = hash]

\* TimestampIsValid, apart from the comparison with the adjusted time
TimestampIsValid(r, nID, nTime) ==
    HasSlotForID(r.queue, nID) /\ InWindow(r.queue, GetSlotForID(r.queue, nID), nTime)

\* ProcessBlock: main becomes a copy of temp; a live main stays live.
CopyRegistry(main, temp) == IF IsInReplayMode(main) THEN temp ELSE ExitReplayMode(temp)

=============================================================================
