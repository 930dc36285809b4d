--------------------------- MODULE QPPowerProofs -----------------------------
(***************************************************************************)
(* PowerMirrorsQueue in every behaviour: no step of the registries lets    *)
(* the power round and the bits of the queue drift apart.                  *)
(***************************************************************************)
EXTENDS QPRoundsProofs, QPStoryProofs

-----------------------------------------------------------------------------
(* The invariant *)

Stories == StoryOf(main) /\ StoryOf(temp)

\* Before qPoS there is nothing to tell.
LEMMA InitStories == Init => Stories
<1> SUFFICES ASSUME Init PROVE Stories
  OBVIOUS
<1>1. PICK m \in Stakers0, h \in Hashes : main = Registry0(m, h)
  BY DEF Init
<1>2. /\ main.powerRoundCurrent = << >> /\ main.powerRoundPrev = << >>
      /\ main.queue = NullQueue /\ ~main.fCurrentBlockWasProduced
  BY <1>1 DEF Registry0
<1>3. Size(NullQueue) = 0 /\ NullQueue.nCurrentSlot = 0
  BY DEF NullQueue, Size
<1>4. StoryOf(main)
  BY <1>2, <1>3 DEF StoryOf, Story, ElementsTold, BitsTold, PassedTold, Slots
<1> QED
  BY <1>4 DEF Init, Stories

\* The loop of UpdateOnNewTime.
LEMMA LoopStories ==
    ASSUME IInv, Stories, StartQPoS \/ AdvanceSlot
    PROVE  Stories'
<1>1. /\ RegOK(temp) /\ best.nHeight \in Nat /\ work.nNewQueues \in Nat /\ best.nTime + 1 \in Nat
      /\ temp.nBlockHeight = best.nHeight /\ main.hashBlock \in Hashes /\ main' = main
  <2>1. main.hashBlock \in Hashes
    BY DEF IInv, RegOK, Registries
  <2> QED
    BY <2>1, PhaseFacts DEF IInv, ChainOK, WorkOK, StartQPoS, AdvanceSlot
<1>2. CASE StartQPoS
  <2> DEFINE t == temp'
             n == best.nTime + 1
  <2>1. t = NewQueue(temp, n, main.hashBlock) /\ EnabledIDs(temp) # {} /\ Size(temp.queue) = 0
    BY <1>2 DEF StartQPoS
  <2>2. /\ temp.nBlockHeight < ForkQPoS => temp.powerRoundCurrent = << >>
        /\ ~temp.fCurrentBlockWasProduced
    BY <2>1 DEF Stories, StoryOf, Story
  <2> HIDE DEF t, n
  <2>3. Story(t.powerRoundCurrent, t.powerRoundPrev, t.queue, FALSE, t.nBlockHeight)
    BY <1>1, <2>1, <2>2, NewQueueStory DEF n
  <2>4. t.fCurrentBlockWasProduced = temp.fCurrentBlockWasProduced /\ Size(t.queue) > 0
    BY <1>1, <2>1, NewQueueChanges DEF n
  <2>5. StoryOf(t)
    BY <2>2, <2>3, <2>4 DEF StoryOf, Story
  <2> QED
    BY <1>1, <2>5 DEF Stories, t
<1>3. CASE AdvanceSlot
  <2> DEFINE t == temp'
             n == work.nNewQueues
             u == PassSlot(temp, temp.nBlockHeight, n)
             w == MoveOn(u)
  <2>1. t = JudgePower(w) /\ CanMoveOn(u) /\ Size(temp.queue) > 0
    BY <1>1, <1>3 DEF AdvanceSlot
  <2>2. n \in Nat /\ StoryOf(temp) /\ temp.nBlockHeight \in Nat
    BY <1>1 DEF Stories
  <2>3. u = PassSlot(temp, temp.nBlockHeight, n) /\ w = MoveOn(u)
    OBVIOUS
  <2> HIDE DEF t, n, u, w
  <2>4. StoryOf(w)
    BY <1>1, <2>1, <2>2, <2>3, MoveOnStory
  <2>5. RegOK(w)
    <3>1. RegOK(u) /\ SameQueue(temp, u)
      BY <1>1, <2>1, <2>2, <2>3, PassSlotChanges
    <3>2. Size(u.queue) > 0
      BY <2>1, <3>1 DEF SameQueue
    <3> QED
      BY <2>1, <2>3, <3>1, <3>2, MoveOnChanges
  <2>6. SameRounds(w, t)
    BY <2>1, <2>5, JudgePowerChanges DEF RegOK
  <2>7. StoryOf(t)
    BY <2>4, <2>6, SameRoundsStory, SameStoryOf
  <2> QED
    BY <1>1, <2>7 DEF Stories, t
<1> QED
  BY <1>2, <1>3

\* Accepting a block and applying its operations.
LEMMA OpStories ==
    ASSUME IInv, Stories, ApplyOp \/ \E f \in BOOLEAN : AcceptBlock(f)
    PROVE  Stories'
<1>1. main' = main /\ temp \in Registries /\ RegOK(temp)
  BY DEF ApplyOp, AcceptBlock, IInv, RegOK
<1>2. SameStory(temp, temp')
  <2>1. CASE ApplyOp
    BY <1>1, <2>1, OpsStory DEF ApplyOp
  <2>2. CASE \E f \in BOOLEAN : AcceptBlock(f)
    <3>1. PICK f \in BOOLEAN : AcceptBlock(f)
      BY <2>2
    <3> DEFINE u == CheckSynced(temp, f)
    <3>2. temp' = AdjustForForks(u, best.nHeight + 1)
      BY <3>1 DEF AcceptBlock
    <3>3. u \in Registries /\ SameRounds(temp, u)
      BY Zenon, <1>1, ReplayChanges
    <3> HIDE DEF u
    <3>4. SameStory(temp, u)
      BY <3>3, SameRoundsStory
    <3>5. SameStory(u, temp')
      BY <3>2, <3>3, OpsStory
    <3> QED
      BY <3>4, <3>5 DEF SameStory
  <2> QED
    BY <2>1, <2>2
<1>3. StoryOf(temp')
  BY <1>2, SameStoryOf DEF Stories
<1> QED
  BY <1>1, <1>3 DEF Stories

\* The copy becomes the main registry.
LEMMA FinishStories ==
    ASSUME IInv, Stories, NEW hash \in Hashes, NEW g \in BOOLEAN, NEW f \in BOOLEAN,
           FinishBlock(hash, g, f)
    PROVE  Stories'
<1> DEFINE h == best.nHeight + 1
           i == work.nStakerID
           made == Produce(temp, i, h, hash, g)
           copy == CopyRegistry(main, made)
<1>1. CanProduce(temp, i) /\ main' = CheckSynced(copy, f) /\ temp' = main'
  BY DEF FinishBlock
<1>2. RegOK(temp) /\ StoryOf(temp) /\ h \in Nat /\ temp.nBlockHeight <= h /\ h >= ForkQPoS
  BY ForkAssumption DEF IInv, ChainOK, Stories
<1>3. made = Produce(temp, i, h, hash, g)
  OBVIOUS
<1> HIDE DEF made, h, i
<1>4. RegOK(made)
  BY <1>1, <1>2, <1>3, ProduceChanges
<1>5. StoryOf(made)
  BY <1>1, <1>2, <1>3, ProduceStory
<1>6. copy \in Registries /\ SameRounds(made, copy)
  <2>1. made \in Registries /\ SameRounds(made, made)
    BY <1>4 DEF RegOK, SameRounds
  <2> QED
    BY <2>1, ReplayChanges DEF CopyRegistry
<1> HIDE DEF copy
<1>7. SameRounds(copy, main')
  BY Zenon, <1>1, <1>6, ReplayChanges
<1>8. StoryOf(copy)
  BY <1>5, <1>6, SameRoundsStory, SameStoryOf
<1>9. StoryOf(main')
  BY <1>7, <1>8, SameRoundsStory, SameStoryOf
<1> QED
  BY <1>1, <1>9 DEF Stories

\* The mode of an idle registry.
LEMMA ModeStories ==
    ASSUME IInv, Stories, FallBehind \/ \E f \in BOOLEAN : KeepUp(f)
    PROVE  Stories'
<1>1. temp' = main' /\ main \in Registries
  BY DEF FallBehind, KeepUp, IInv, RegOK
<1>2. SameRounds(main, main')
  BY <1>1, ReplayChanges DEF FallBehind, KeepUp
<1>3. StoryOf(main')
  BY <1>2, SameRoundsStory, SameStoryOf DEF Stories
<1> QED
  BY <1>1, <1>3 DEF Stories

\* The steps by which one registry becomes a copy of the other, or nothing changes.
LEMMA CopyStories ==
    ASSUME IInv, Stories,
           main' = main \/ main' = temp, temp' = main \/ temp' = temp
    PROVE  Stories'
  BY DEF Stories

LEMMA NextStories ==
    ASSUME IInv, Stories, [Next]_vars
    PROVE  Stories'
<1>1. CASE StartQPoS \/ AdvanceSlot
  BY <1>1, LoopStories
<1>2. CASE ApplyOp \/ \E fSynced \in BOOLEAN : AcceptBlock(fSynced)
  BY <1>2, OpStories
<1>3. CASE \E hash \in Hashes, fGarbage, fSynced \in BOOLEAN : FinishBlock(hash, fGarbage, fSynced)
  BY <1>3, FinishStories
<1>4. CASE FallBehind \/ \E fSynced \in BOOLEAN : KeepUp(fSynced)
  BY <1>4, ModeStories
<1>5. CASE \/ \E nID \in IDs(main), nGap \in Gaps : ReceiveBlock(nID, nGap)
           \/ CheckTimestamp \/ BeginOps \/ RejectBlock
           \/ \E nGap \in Gaps : StartMinter(nGap)
           \/ FinishMinter
           \/ UNCHANGED vars
  <2>1. (main' = main \/ main' = temp) /\ (temp' = main \/ temp' = temp)
    BY <1>5 DEF ReceiveBlock, CheckTimestamp, BeginOps, RejectBlock, StartMinter, FinishMinter,
                vars
  <2> QED
    BY <2>1, CopyStories
<1> QED
  BY <1>1, <1>2, <1>3, <1>4, <1>5 DEF Next

\* The power GetPicoPower computes is over the slots the queue says were produced or
\* missed, for any number of stakers and slots, whatever forks, rejected blocks and
\* changes of mode come between: the bits SlotProduced sets and the elements
\* StakerProducedBlock and StakerMissedBlock append never drift apart.
THEOREM PowerAlwaysMirrors == Spec => []PowerMirrorsQueue
<1>1. Init => Stories
  BY InitStories
<1>2. IInv /\ Stories /\ [Next]_vars => Stories'
  BY NextStories
<1>3. IInv /\ Stories => PowerMirrorsQueue
  BY StoryMirrors DEF IInv, Stories, PowerMirrorsQueue
<1> QED
  BY <1>1, <1>2, <1>3, Invariant, PTL DEF Spec

=============================================================================
