------------------------------ MODULE QPRounds -------------------------------
(***************************************************************************)
(* One node advancing its registry along one chain.  A block that extends  *)
(* the best block is tried on a copy of the main registry (ProcessBlock,   *)
(* CheckBlock, AddToBlockIndex): the copy passes every slot up to the      *)
(* block's time, one step per iteration of the loop of UpdateOnNewTime,    *)
(* applies the block's operations and counts the block; only then does it  *)
(* become the main registry.  Around it the message handler starts the     *)
(* first round and moves the registry in and out of replay mode.           *)
(***************************************************************************)
EXTENDS QPRegistry

LOCAL INSTANCE FiniteSetsExt

CONSTANTS
    NumStakers,  \* stakers bought before qPoS starts
    StartTime,   \* time of the last block before qPoS
    Gaps,        \* seconds from one block to the next
    MaxHeight,   \* bound on the height of the chain
    MaxOps       \* bound on the qPoS operations of a block

ASSUME ChainAssumption ==
    /\ NumStakers \in 1..MaxStakers
    /\ StartTime \in Nat
    /\ Gaps \subseteq Nat \ {0}
    /\ MaxHeight \in Nat
    /\ MaxOps \in Nat
    /\ Hashes # {}

VARIABLES
    main,  \* pregistryMain
    temp,  \* the registry a block is tried on
    best,  \* height and time of the best block
    work   \* what is being done to temp

vars == << main, temp, best, work >>

Idle == [phase |-> "idle", nTime |-> 0, nStakerID |-> 0, nNewQueues |-> 0, nOps |-> 0]

\* phase "mint" and "check": UpdateOnNewTime; "accept": checked, not yet applied;
\* "update": the loop of UpdateOnNewBlock; "ops": ApplyOps and what follows
Phases == {"idle", "mint", "check", "accept", "update", "ops"}

\* Some stakers have been enabled, some have not.
Stakers0 ==
    {m \in [1..MaxStakers -> {Reset, Enable(Reset)}] :
        \A i \in 1..MaxStakers : i > NumStakers => m[i] = Reset}

Registry0(mapStakers, hash) ==
    [nIDCounter |-> NumStakers, mapStakers |-> mapStakers,
     queue |-> NullQueue, nQueuePrev |-> 0, nRound |-> 0,
     powerRoundPrev |-> << >>, powerRoundCurrent |-> << >>,
     fCurrentBlockWasProduced |-> FALSE, fPrevBlockWasProduced |-> TRUE,
     nBlockHeight |-> ForkQPoS - 1, hashBlock |-> hash,
     nHeightExitedReplay |-> 0, fShouldRollback |-> FALSE]

Init ==
    /\ \E s \in Stakers0, h \in Hashes : main = Registry0(s, h)
    /\ temp = main
    /\ best = [nHeight |-> ForkQPoS - 1, nTime |-> StartTime]
    /\ work = Idle

-----------------------------------------------------------------------------
(* The loop of UpdateOnNewTime *)

Looping == work.phase \in {"mint", "check", "update"}

\* The loop has passed every slot that ends before the block.
CaughtUp == Size(temp.queue) > 0 /\ GetCurrentSlotEnd(temp.queue) >= work.nTime

\* "qPoS shall begin"
StartQPoS ==
    /\ Looping
    /\ Size(temp.queue) = 0
    /\ EnabledIDs(temp) # {}
    /\ temp' = NewQueue(temp, best.nTime + 1, main.hashBlock)
    /\ work' = [work EXCEPT !.nNewQueues = @ + 1]
    /\ UNCHANGED << main, best >>

\* one iteration
AdvanceSlot ==
    LET passed == PassSlot(temp, best.nHeight, work.nNewQueues)
    IN  /\ Looping
        /\ Size(temp.queue) > 0
        /\ GetCurrentSlotEnd(temp.queue) < work.nTime
        /\ CanMoveOn(passed)
        /\ temp' = JudgePower(MoveOn(passed))
        /\ work' = [work EXCEPT !.nNewQueues =
                        IF CanIncrementSlot(passed.queue) THEN @ ELSE @ + 1]
        /\ UNCHANGED << main, best >>

-----------------------------------------------------------------------------
(* A block *)

\* ProcessBlock copies the main registry; CheckBlock advances the copy if it is live.
ReceiveBlock(nStakerID, nGap) ==
    /\ work.phase = "idle"
    /\ best.nHeight < MaxHeight
    /\ temp' = main
    /\ work' = [Idle EXCEPT !.phase = IF IsInReplayMode(main) THEN "accept" ELSE "check",
                            !.nStakerID = nStakerID,
                            !.nTime = best.nTime + nGap]
    /\ UNCHANGED << main, best >>

\* Fault: the timestamp is not compared with the window of the staker.
CheckTimestampOfAny ==
    /\ work.phase = "check"
    /\ CaughtUp
    /\ HasSlotForID(temp.queue, work.nStakerID)
    /\ work' = [work EXCEPT !.phase = "accept", !.nNewQueues = 0]
    /\ UNCHANGED << main, temp, best >>

\* the end of the timestamp check of CheckBlock
CheckTimestamp ==
    /\ work.phase = "check"
    /\ CaughtUp
    /\ TimestampIsValid(temp, work.nStakerID, work.nTime)
    /\ work' = [work EXCEPT !.phase = "accept", !.nNewQueues = 0]
    /\ UNCHANGED << main, temp, best >>

\* AddToBlockIndex, up to the loop of UpdateOnNewBlock
AcceptBlock(fSynced) ==
    /\ work.phase = "accept"
    /\ temp' = AdjustForForks(CheckSynced(temp, fSynced), best.nHeight + 1)
    /\ work' = [work EXCEPT !.phase = "update"]
    /\ UNCHANGED << main, best >>

BeginOps ==
    /\ work.phase = "update"
    /\ CaughtUp
    /\ work' = [work EXCEPT !.phase = "ops", !.nNewQueues = 0]
    /\ UNCHANGED << main, temp, best >>

\* one operation of the block
ApplyOp ==
    /\ work.phase = "ops"
    /\ work.nOps < MaxOps
    /\ \/ temp.nIDCounter < MaxStakers /\ temp' = ApplyPurchase(temp)
       \/ \E nID \in IDs(temp) :
             /\ CanSetState(temp, nID)
             /\ \/ temp' = ApplyEnable(temp, nID)
                \/ temp' = ApplyDisable(temp, nID, best.nHeight + 1)
    /\ work' = [work EXCEPT !.nOps = @ + 1]
    /\ UNCHANGED << main, best >>

\* The rest of UpdateOnNewBlock, and ProcessBlock's update of the main registry.
FinishBlock(hash, fGarbage, fSynced) ==
    LET nHeight == best.nHeight + 1
        made == Produce(temp, work.nStakerID, nHeight, hash, fGarbage)
    IN  /\ work.phase = "ops"
        /\ CanProduce(temp, work.nStakerID)
        /\ main' = CheckSynced(CopyRegistry(main, made), fSynced)
        /\ temp' = main'
        /\ best' = [nHeight |-> nHeight, nTime |-> work.nTime]
        /\ work' = Idle

\* A block may fail any check on the way; the copy is dropped.
RejectBlock ==
    /\ work.phase \in {"check", "accept", "update", "ops"}
    /\ temp' = main
    /\ work' = Idle
    /\ UNCHANGED << main, best >>

-----------------------------------------------------------------------------
(* The message handler *)

\* Before the first qPoS block a staking node advances its main registry to now.
StartMinter(nGap) ==
    /\ work.phase = "idle"
    /\ best.nHeight < ForkQPoS
    /\ main.nRound = 0
    /\ work' = [Idle EXCEPT !.phase = "mint", !.nTime = best.nTime + nGap]
    /\ UNCHANGED << main, temp, best >>

\* The result of UpdateOnNewTime is ignored: if a queue cannot be made the
\* registry stays where the loop stopped.
FinishMinter ==
    /\ work.phase = "mint"
    /\ \/ CaughtUp /\ main' = temp
       \/ Size(temp.queue) = 0 /\ EnabledIDs(temp) = {} /\ main' = temp
    /\ work' = Idle
    /\ UNCHANGED << temp, best >>

\* The handler finds the node behind, cut off, or its queue shrinking.
FallBehind ==
    /\ work.phase = "idle"
    /\ best.nHeight >= ForkQPoS
    /\ main' = EnterReplayMode(main)
    /\ temp' = main'
    /\ UNCHANGED << best, work >>

KeepUp(fSynced) ==
    /\ work.phase = "idle"
    /\ best.nHeight >= ForkQPoS
    /\ main' = CheckSynced(main, fSynced)
    /\ temp' = main'
    /\ UNCHANGED << best, work >>

Next ==
    \/ StartQPoS
    \/ AdvanceSlot
    \/ \E nID \in IDs(main), nGap \in Gaps : ReceiveBlock(nID, nGap)
    \/ CheckTimestamp
    \/ \E fSynced \in BOOLEAN : AcceptBlock(fSynced)
    \/ BeginOps
    \/ ApplyOp
    \/ \E hash \in Hashes, fGarbage, fSynced \in BOOLEAN : FinishBlock(hash, fGarbage, fSynced)
    \/ RejectBlock
    \/ \E nGap \in Gaps : StartMinter(nGap)
    \/ FinishMinter
    \/ FallBehind
    \/ \E fSynced \in BOOLEAN : KeepUp(fSynced)

Spec == Init /\ [][Next]_vars

-----------------------------------------------------------------------------
(* Properties *)

PowerElements == [nStakerID : Nat, nWeight : Nat, fDidProduceBlock : BOOLEAN]

Queues ==
    [nSlotTime0 : Nat, vStakerIDs : Seq(1..MaxStakers), nCurrentSlot : Nat,
     vchBlockStats : SUBSET Nat]

Registries ==
    [nIDCounter : 1..MaxStakers, mapStakers : [1..MaxStakers -> StakerStats],
     queue : Queues, nQueuePrev : Nat, nRound : Nat,
     powerRoundPrev : Seq(PowerElements), powerRoundCurrent : Seq(PowerElements),
     fCurrentBlockWasProduced : BOOLEAN, fPrevBlockWasProduced : BOOLEAN,
     nBlockHeight : Nat, hashBlock : Hashes,
     nHeightExitedReplay : Nat, fShouldRollback : BOOLEAN]

Works == [phase : Phases, nTime : Nat, nStakerID : Nat, nNewQueues : Nat, nOps : Nat]

\* Both registries, the best block and the work in hand keep their types.
TypeOK ==
    /\ main \in Registries
    /\ temp \in Registries
    /\ best \in [nHeight : Nat, nTime : Nat]
    /\ work \in Works

\* The queue names registered stakers, each once, and its current slot exists.
QueueIsSound(r) ==
    /\ \A s \in 1..Size(r.queue) : r.queue.vStakerIDs[s] \in IDs(r)
    /\ \A s, u \in 1..Size(r.queue) : r.queue.vStakerIDs[s] = r.queue.vStakerIDs[u] => s = u
    /\ Size(r.queue) > 0 => r.queue.nCurrentSlot < Size(r.queue)
    /\ r.nRound > 0 <=> Size(r.queue) > 0

\* GetCurrentID, GetSlotForID and StakerMissedBlock never meet an unknown ID or a
\* slot beyond the queue, whatever is bought, disabled or disqualified meanwhile.
QueuesAreSound == QueueIsSound(main) /\ QueueIsSound(temp)

NoneDisqualifiedAhead(r) ==
    \A s \in 0..(Size(r.queue) - 1) :
        \/ s > r.queue.nCurrentSlot
        \/ s = r.queue.nCurrentSlot /\ ~r.fCurrentBlockWasProduced
        => r.mapStakers[r.queue.vStakerIDs[s + 1]].fQualified

\* The branch "TSNH staker %d disqualified" of StakerMissedBlock is dead: no slot
\* still to be passed belongs to a disqualified staker.
DisqualifiedNeverMiss == NoneDisqualifiedAhead(main) /\ NoneDisqualifiedAhead(temp)

SlotOf(r, e) == GetSlotForID(r.queue, e.nStakerID)

\* The elements of the current power round and the bits of the queue tell the same
\* story; from the second round with blocks on, and before XST_FORKFEELESS2, every
\* slot that was passed is in the story.
RoundMirrorsQueue(r) ==
    LET elements == {r.powerRoundCurrent[i] : i \in 1..Len(r.powerRoundCurrent)}
    IN  /\ \A e \in elements :
              /\ HasSlotForID(r.queue, e.nStakerID)
              /\ GetStatusForSlot(r.queue, SlotOf(r, e)) =
                    IF e.fDidProduceBlock THEN "produced" ELSE "missed"
        /\ \A s \in 0..(Size(r.queue) - 1) :
              GetStatusForSlot(r.queue, s) = "produced"
                => \E e \in elements : SlotOf(r, e) = s
        /\ r.powerRoundPrev # << >> /\ r.nBlockHeight < ForkFeeless2
              => \A s \in 0..(r.queue.nCurrentSlot - 1) : \E e \in elements : SlotOf(r, e) = s

\* The power GetPicoPower computes is over the slots the queue says were produced or
\* missed: the two records StakerProducedBlock, StakerMissedBlock and SlotProduced
\* keep separately do not drift apart.
PowerMirrorsQueue == RoundMirrorsQueue(main) /\ RoundMirrorsQueue(temp)

\* Every slot a staker was given is counted as produced or missed, and no staker is
\* docked for more than it missed.
SlotsAccounted ==
    \A i \in IDs(temp) :
        LET s == temp.mapStakers[i]
        IN  /\ s.nBlocksAssigned = s.nBlocksProduced + s.nBlocksMissed
            /\ s.nBlocksDocked <= s.nBlocksMissed

\* Every qPoS block of the chain is credited to one staker, across rounds, forks,
\* disqualifications and rejected blocks.
BlocksCredited ==
    LET Credit(n, i) == n + main.mapStakers[i].nBlocksProduced
    IN  FoldSet(LAMBDA i, n : Credit(n, i), 0, IDs(main)) = main.nBlockHeight - (ForkQPoS - 1)

\* Every slot adds a positive weight, so that total weight is positive once a slot
\* has been passed and a longer chain has more trust (GetBlockTrust).
WeightsPositive ==
    \A i \in 1..Len(temp.powerRoundCurrent) : temp.powerRoundCurrent[i].nWeight > 0

\* The time of the best block lies in the slot its block was counted for.  Only a live
\* node compares the two (TimestampIsValid); a node in replay mode relies on the order
\* of the blocks.
ProducedInsideWindow ==
    main.fCurrentBlockWasProduced => TimeIsInCurrentSlotWindow(main.queue, best.nTime)

\* "want at least 3 enabled stakers in times of disaster": passing slots never takes
\* the number of enabled stakers from the floor or above it to below it.
AutoDisableFloor ==
    [][GetNumberEnabled(temp) >= MinEnabled /\ AdvanceSlot
         => GetNumberEnabled(temp') >= MinEnabled]_vars

\* Every iteration of the loop of UpdateOnNewTimeInternal moves the clock of the
\* registry by one slot, from the last slot of a round to the first of the next too:
\* rounds leave no gap and do not overlap, and the loop ends.
ClockMovesOneSlot ==
    [][AdvanceSlot => GetCurrentSlotEnd(temp'.queue) =
                        GetCurrentSlotEnd(temp.queue) + QP_TARGET_SPACING]_vars

=============================================================================
