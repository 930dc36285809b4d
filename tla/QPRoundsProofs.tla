--------------------------- MODULE QPRoundsProofs ----------------------------
(***************************************************************************)
(* What QPRounds proves for any number of stakers, any shuffle, any slot   *)
(* length, any order of the forks and a chain of any length.               *)
(***************************************************************************)
EXTENDS QPRegistryProofs, FiniteSetTheorems

CurrentStart(r) == SlotStart(r.queue, r.queue.nCurrentSlot)

\* Heights agree, and the best block of a qPoS chain is the block of the current slot.
ChainOK ==
    /\ best \in [nHeight : Nat, nTime : Nat]
    /\ main.nBlockHeight = best.nHeight
    /\ temp.nBlockHeight = best.nHeight
    /\ best.nHeight >= ForkQPoS - 1
    /\ best.nHeight < ForkQPoS => ~main.fCurrentBlockWasProduced
    /\ best.nHeight >= ForkQPoS =>
          /\ main.fCurrentBlockWasProduced
          /\ Size(main.queue) > 0
          /\ TimeIsInCurrentSlotWindow(main.queue, best.nTime)

\* The clock of a registry in replay mode is not ahead of its chain.
NotAhead(r) ==
    IsInReplayMode(r) /\ Size(r.queue) > 0 => CurrentStart(r) <= best.nTime + 1

\* What has been established of the block in hand, phase by phase.
WorkOK ==
    /\ work \in Works
    /\ work.phase = "idle" => temp = main
    /\ work.phase # "idle" => work.nTime > best.nTime
    /\ work.phase = "mint" =>
          /\ best.nHeight < ForkQPoS
          /\ ~temp.fCurrentBlockWasProduced
          /\ NotAhead(temp)
    /\ work.phase \in {"accept", "update", "ops"} =>
          \/ /\ IsInReplayMode(main)
             /\ Size(temp.queue) > 0 => CurrentStart(temp) <= work.nTime
          \/ /\ TimestampIsValid(temp, work.nStakerID, work.nTime)
             /\ CaughtUp
    /\ work.phase = "ops" => CaughtUp

\* The inductive invariant.
IInv ==
    /\ RegOK(main)
    /\ RegOK(temp)
    /\ ChainOK
    /\ NotAhead(main)
    /\ WorkOK

\* The phases differ.
LEMMA PhaseFacts ==
    ASSUME work \in Works
    PROVE  /\ work.phase \in {"idle", "mint", "check", "accept", "update", "ops"}
           /\ work.nTime \in Nat /\ work.nNewQueues \in Nat /\ work.nOps \in Nat
           /\ work.nStakerID \in Nat
  BY DEF Works, Phases

\* The invariant holds when qPoS is about to start.
LEMMA InitIInv == Init => IInv
<1> SUFFICES ASSUME Init PROVE IInv
  OBVIOUS
<1>1. PICK m \in Stakers0, h \in Hashes : main = Registry0(m, h)
  BY DEF Init
<1>2. m \in [1..MaxStakers -> {Reset, Enable(Reset)}]
  BY DEF Stakers0
<1>3. GoodStats(Reset) /\ GoodStats(Enable(Reset)) /\ Reset.fQualified /\ Enable(Reset).fQualified
  <2>1. Reset \in StakerStats /\ Accounted(Reset) /\ 0 \in Nat
    BY ResetGood DEF GoodStats
  <2> QED
    BY <2>1, ResetGood, ChangesGood
<1>4. StakersOK(m)
  BY <1>2, <1>3 DEF StakersOK, GoodStats
<1>5. ForkQPoS - 1 \in Nat /\ ForkQPoS \in Nat /\ NumStakers \in 1..MaxStakers /\ StartTime \in Nat
  BY ForkAssumption, ChainAssumption
<1>6. NullQueue \in Queues /\ NullQueue.vStakerIDs = << >>
  BY DEF NullQueue, Queues
<1>7. main \in Registries
  BY <1>1, <1>4, <1>5, <1>6 DEF Registry0, Registries, StakersOK
<1>8. /\ main.mapStakers = m /\ main.queue = NullQueue /\ main.nRound = 0
      /\ main.powerRoundCurrent = << >> /\ main.nBlockHeight = ForkQPoS - 1
      /\ ~main.fCurrentBlockWasProduced
  BY <1>1 DEF Registry0
<1>9. Size(main.queue) = 0
  BY <1>6, <1>8 DEF Size
<1>10. QueueIsSound(main) /\ NoneDisqualifiedAhead(main)
  BY <1>8, <1>9 DEF QueueIsSound, NoneDisqualifiedAhead
<1>11. RoundOK(main.powerRoundCurrent)
  BY <1>8 DEF RoundOK
<1>12. RegOK(main)
  BY <1>4, <1>7, <1>8, <1>10, <1>11 DEF RegOK
<1>13. temp = main /\ best = [nHeight |-> ForkQPoS - 1, nTime |-> StartTime] /\ work = Idle
  BY DEF Init
<1>14. ChainOK
  BY <1>5, <1>8, <1>13 DEF ChainOK
<1>15. NotAhead(main)
  BY <1>9 DEF NotAhead
<1>16. WorkOK
  BY <1>13 DEF WorkOK, Works, Phases, Idle
<1> QED
  BY <1>12, <1>13, <1>14, <1>15, <1>16 DEF IInv

-----------------------------------------------------------------------------
(* The loop of UpdateOnNewTime *)

\* The first round starts one second after the last block before qPoS.
LEMMA StartQPoSStep ==
    ASSUME IInv, StartQPoS
    PROVE  IInv'
<1>1. /\ RegOK(main) /\ RegOK(temp) /\ main.hashBlock \in Hashes /\ EnabledIDs(temp) # {}
      /\ best.nTime + 1 \in Nat /\ best.nTime \in Nat
      /\ temp' = NewQueue(temp, best.nTime + 1, main.hashBlock)
  BY SMTT(30), ZenonT(30) DEF IInv, ChainOK, StartQPoS, RegOK, Registries
<1>2. /\ RegOK(temp') /\ Size(temp'.queue) > 0
      /\ temp'.queue.nCurrentSlot = 0 /\ temp'.queue.nSlotTime0 = best.nTime + 1
      /\ temp'.fCurrentBlockWasProduced = temp.fCurrentBlockWasProduced
      /\ temp'.nBlockHeight = temp.nBlockHeight
  <2>1. RegOK(temp) /\ EnabledIDs(temp) # {} /\ main.hashBlock \in Hashes
    BY <1>1
  <2> DEFINE t == temp'
             n == best.nTime + 1
  <2>2. t = NewQueue(temp, n, main.hashBlock) /\ n \in Nat
    BY <1>1
  <2> HIDE DEF t, n
  <2>3. /\ RegOK(t) /\ Size(t.queue) > 0
        /\ t.queue.nCurrentSlot = 0 /\ t.queue.nSlotTime0 = n
        /\ t.fCurrentBlockWasProduced = temp.fCurrentBlockWasProduced
        /\ t.nBlockHeight = temp.nBlockHeight
    BY <2>1, <2>2, NewQueueChanges
  <2> QED
    BY <2>3 DEF t, n
<1>3. CurrentStart(temp') = best.nTime + 1
  BY <1>1, <1>2, SpacingAssumption DEF CurrentStart, SlotStart
<1>4. /\ work' = [work EXCEPT !.nNewQueues = @ + 1] /\ work \in Works
      /\ main' = main /\ best' = best /\ work.phase \in {"mint", "check", "update"}
      /\ Size(temp.queue) = 0
  BY DEF StartQPoS, Looping, IInv, WorkOK
<1>5. /\ work' \in Works /\ work'.phase = work.phase /\ work'.nTime = work.nTime
      /\ work'.nStakerID = work.nStakerID
  BY <1>4 DEF Works
<1>6. work.nTime \in Nat /\ work.nTime > best.nTime
  BY <1>4, PhaseFacts DEF IInv, WorkOK
<1>7. ~CaughtUp
  BY <1>4 DEF CaughtUp
<1>8. ChainOK'
  BY <1>2, <1>4 DEF IInv, ChainOK
<1>9. NotAhead(main)' /\ NotAhead(temp)'
  BY <1>1, <1>3, <1>4 DEF IInv, NotAhead, CurrentStart
<1>10. WorkOK'
  BY <1>1, <1>2, <1>3, <1>4, <1>5, <1>6, <1>7, <1>9 DEF IInv, WorkOK
<1> QED
  BY <1>1, <1>2, <1>4, <1>8, <1>9, <1>10 DEF IInv

\* The clock of temp goes on by one slot, and not past the time of the work in hand.
LEMMA AdvanceSlotStep ==
    ASSUME IInv, AdvanceSlot
    PROVE  IInv'
<1>1. /\ RegOK(main) /\ RegOK(temp) /\ Size(temp.queue) > 0
      /\ best.nHeight \in Nat /\ work.nNewQueues \in Nat
      /\ CanMoveOn(PassSlot(temp, best.nHeight, work.nNewQueues))
      /\ temp' = JudgePower(MoveOn(PassSlot(temp, best.nHeight, work.nNewQueues)))
  BY PhaseFacts DEF IInv, ChainOK, WorkOK, AdvanceSlot
<1>2. /\ RegOK(temp') /\ Size(temp'.queue) > 0 /\ ~temp'.fCurrentBlockWasProduced
      /\ CurrentStart(temp') = GetCurrentSlotEnd(temp.queue) + 1
      /\ temp'.nBlockHeight = temp.nBlockHeight
      /\ ~temp.fCurrentBlockWasProduced /\ best.nHeight < ForkQPoS
           => temp'.nHeightExitedReplay = temp.nBlockHeight
  <2> DEFINE t == temp'
             h == best.nHeight
             n == work.nNewQueues
  <2>1. /\ t = JudgePower(MoveOn(PassSlot(temp, h, n))) /\ h \in Nat /\ n \in Nat
        /\ CanMoveOn(PassSlot(temp, h, n))
    BY <1>1
  <2> HIDE DEF t, h, n
  <2>2. /\ RegOK(t) /\ Size(t.queue) > 0 /\ ~t.fCurrentBlockWasProduced
        /\ SlotStart(t.queue, t.queue.nCurrentSlot) = GetCurrentSlotEnd(temp.queue) + 1
        /\ t.nBlockHeight = temp.nBlockHeight
        /\ ~temp.fCurrentBlockWasProduced /\ h < ForkQPoS
             => t.nHeightExitedReplay = temp.nBlockHeight
    BY <1>1, <2>1, AdvanceChanges
  <2> QED
    BY <2>2 DEF t, h, CurrentStart
<1>3. /\ work \in Works /\ main' = main /\ best' = best
      /\ work.phase \in {"mint", "check", "update"}
      /\ GetCurrentSlotEnd(temp.queue) < work.nTime
  BY DEF AdvanceSlot, Looping, IInv, WorkOK
<1>4. /\ work' \in Works /\ work'.phase = work.phase /\ work'.nTime = work.nTime
      /\ work'.nStakerID = work.nStakerID
  <2> DEFINE k == IF CanIncrementSlot(PassSlot(temp, best.nHeight, work.nNewQueues).queue)
                  THEN work.nNewQueues ELSE work.nNewQueues + 1
  <2>1. k \in Nat
    BY <1>1
  <2>2. work' = [work EXCEPT !.nNewQueues = k]
    BY DEF AdvanceSlot
  <2> HIDE DEF k
  <2> QED
    BY <1>3, <2>1, <2>2 DEF Works
<1>5. /\ work.nTime \in Nat /\ work.nTime > best.nTime
      /\ GetCurrentSlotEnd(temp.queue) \in Int
  <2>1. temp.queue.nSlotTime0 \in Nat /\ temp.queue.nCurrentSlot \in Nat
    BY ZenonT(40), <1>1 DEF RegOK, Registries, Queues
  <2>2. GetCurrentSlotEnd(temp.queue) \in Int
    BY <2>1, SpacingAssumption DEF GetCurrentSlotEnd, SlotEnd, SlotStart
  <2> QED
    BY <1>3, <2>2, PhaseFacts DEF IInv, WorkOK
<1>6. ~CaughtUp
  BY <1>3, <1>5 DEF CaughtUp
<1>7. CurrentStart(temp') <= work.nTime
  BY <1>2, <1>3, <1>5
<1>8. ChainOK'
  BY <1>2, <1>3 DEF IInv, ChainOK
<1>9. NotAhead(main)'
  BY <1>3 DEF IInv, NotAhead, CurrentStart
<1>10. work.phase = "mint" => NotAhead(temp)'
  <2> SUFFICES ASSUME work.phase = "mint" PROVE ~IsInReplayMode(temp')
    BY DEF NotAhead
  <2>1. temp'.nHeightExitedReplay = temp.nBlockHeight
    BY <1>2 DEF IInv, WorkOK
  <2>2. temp.nBlockHeight \in Nat /\ temp.nBlockHeight >= ForkQPoS - 1
    BY <1>1 DEF IInv, ChainOK, RegOK, Registries
  <2> QED
    BY <2>1, <2>2, ForkAssumption DEF IsInReplayMode
<1>11. WorkOK'
  BY <1>2, <1>3, <1>4, <1>5, <1>6, <1>7, <1>10 DEF IInv, WorkOK
<1> QED
  BY <1>1, <1>2, <1>3, <1>8, <1>9, <1>11 DEF IInv

-----------------------------------------------------------------------------
(* A block *)

\* In replay mode the copy starts at a slot that has begun before the block.
LEMMA ReceiveBlockStep ==
    ASSUME IInv, NEW nID \in IDs(main), NEW nGap \in Gaps, ReceiveBlock(nID, nGap)
    PROVE  IInv'
<1> DEFINE ph == IF IsInReplayMode(main) THEN "accept" ELSE "check"
           tm == best.nTime + nGap
<1>1. /\ temp' = main /\ main' = main /\ best' = best
      /\ work' = [Idle EXCEPT !.phase = ph, !.nStakerID = nID, !.nTime = tm]
  BY DEF ReceiveBlock
<1>2. tm \in Nat /\ tm > best.nTime /\ best.nTime \in Nat /\ nID \in Nat /\ ph \in Phases
  BY ChainAssumption DEF IInv, ChainOK, IDs, Phases
<1>3. ph # "idle" /\ ph # "mint" /\ ph # "ops" /\ ph # "update"
      /\ (ph = "accept" => IsInReplayMode(main))
  OBVIOUS
<1> HIDE DEF ph, tm
<1>4. /\ work' \in Works /\ work'.phase = ph /\ work'.nTime = tm /\ work'.nStakerID = nID
  BY ZenonT(40), <1>1, <1>2 DEF Works, Idle
<1>5. ChainOK'
  BY <1>1 DEF IInv, ChainOK
<1>6. NotAhead(main)'
  BY <1>1 DEF IInv, NotAhead, CurrentStart
<1>7. ph = "accept" => (Size(temp'.queue) > 0 => CurrentStart(temp') <= tm)
  <2>1. CurrentStart(main) \in Int
    <3>1. main.queue.nSlotTime0 \in Nat /\ main.queue.nCurrentSlot \in Nat
      BY Zenon DEF IInv, RegOK, Registries, Queues
    <3> QED
      BY <3>1, SpacingAssumption DEF CurrentStart, SlotStart
  <2> QED
    BY <1>1, <1>2, <1>3, <2>1 DEF IInv, NotAhead
<1>8. WorkOK'
  BY <1>1, <1>2, <1>3, <1>4, <1>7 DEF WorkOK
<1> QED
  BY <1>1, <1>5, <1>6, <1>8 DEF IInv

\* The steps that change the phase alone.
LEMMA PhaseStep ==
    ASSUME IInv, CheckTimestamp \/ BeginOps
    PROVE  IInv'
<1>1. /\ main' = main /\ temp' = temp /\ best' = best /\ work \in Works
      /\ \E ph \in {"accept", "ops"} : work' = [work EXCEPT !.phase = ph, !.nNewQueues = 0]
  BY DEF CheckTimestamp, BeginOps, IInv, WorkOK
<1>2. PICK ph \in {"accept", "ops"} : work' = [work EXCEPT !.phase = ph, !.nNewQueues = 0]
  BY Zenon, <1>1
<1>3. /\ work' \in Works /\ work'.phase = ph /\ work'.nTime = work.nTime
      /\ work'.nStakerID = work.nStakerID
  BY Zenon, <1>1, <1>2 DEF Works, Phases
<1>4. CaughtUp' <=> CaughtUp
  BY <1>1, <1>3 DEF CaughtUp
<1>5. ChainOK' /\ NotAhead(main)'
  BY <1>1 DEF IInv, ChainOK, NotAhead, CurrentStart
<1>6. CASE CheckTimestamp
  <2>1. /\ work.phase = "check" /\ ph = "accept" /\ CaughtUp
        /\ TimestampIsValid(temp, work.nStakerID, work.nTime)
    <3>1. work'.phase = "accept"
      BY ZenonT(40), <1>1, <1>6 DEF CheckTimestamp, Works
    <3> QED
      BY <1>3, <1>6, <3>1 DEF CheckTimestamp
  <2>2. WorkOK'
    BY <1>1, <1>3, <1>4, <2>1 DEF IInv, WorkOK
  <2> QED
    BY <1>1, <1>5, <2>2 DEF IInv
<1>7. CASE BeginOps
  <2>1. work.phase = "update" /\ ph = "ops" /\ CaughtUp
    <3>1. work'.phase = "ops"
      BY ZenonT(40), <1>1, <1>7 DEF BeginOps, Works
    <3> QED
      BY <1>3, <1>7, <3>1 DEF BeginOps
  <2>2. WorkOK'
    BY <1>1, <1>3, <1>4, <2>1 DEF IInv, WorkOK, CurrentStart
  <2> QED
    BY <1>1, <1>5, <2>2 DEF IInv
<1> QED
  BY <1>6, <1>7

\* Accepting the block changes statistics and replay mode, never the queue.
LEMMA AcceptBlockStep ==
    ASSUME IInv, NEW f \in BOOLEAN, AcceptBlock(f)
    PROVE  IInv'
<1> DEFINE u == CheckSynced(temp, f)
           h == best.nHeight + 1
<1>1. /\ main' = main /\ best' = best /\ work \in Works /\ work.phase = "accept"
      /\ work' = [work EXCEPT !.phase = "update"]
      /\ temp' = AdjustForForks(u, h)
  BY DEF AcceptBlock, IInv, WorkOK
<1>2. h \in Nat /\ RegOK(temp) /\ temp \in Registries
  BY DEF IInv, ChainOK, RegOK
<1>3. u \in Registries /\ SameRounds(temp, u)
  BY ZenonT(40), <1>2, ReplayChanges
<1> HIDE DEF u, h
<1>4. RegOK(u)
  BY <1>2, <1>3, SameRoundsOK
<1>5. RegOK(temp') /\ SameSlots(u, temp')
  BY <1>1, <1>2, <1>4, AdjustChanges
<1>6. temp'.queue = temp.queue /\ temp'.nBlockHeight = temp.nBlockHeight
  BY <1>3, <1>5 DEF SameRounds, SameSlots
<1>7. /\ work' \in Works /\ work'.phase = "update" /\ work'.nTime = work.nTime
      /\ work'.nStakerID = work.nStakerID
  BY <1>1 DEF Works, Phases
<1>8. CaughtUp' <=> CaughtUp
  BY <1>6, <1>7 DEF CaughtUp
<1>9. ChainOK' /\ NotAhead(main)'
  BY <1>1, <1>6 DEF IInv, ChainOK, NotAhead, CurrentStart
<1>10. WorkOK'
  BY <1>1, <1>6, <1>7, <1>8 DEF IInv, WorkOK, CurrentStart, TimestampIsValid
<1> QED
  BY <1>1, <1>5, <1>9, <1>10 DEF IInv

\* Neither do the operations of the block.
LEMMA ApplyOpStep ==
    ASSUME IInv, ApplyOp
    PROVE  IInv'
<1>1. /\ main' = main /\ best' = best /\ work \in Works /\ work.phase = "ops"
      /\ work' = [work EXCEPT !.nOps = @ + 1] /\ RegOK(temp) /\ best.nHeight + 1 \in Nat
  BY DEF ApplyOp, IInv, WorkOK, ChainOK
<1>2. RegOK(temp') /\ temp'.queue = temp.queue /\ temp'.nBlockHeight = temp.nBlockHeight
  <2>1. CASE temp.nIDCounter < MaxStakers /\ temp' = ApplyPurchase(temp)
    BY <1>1, <2>1, PurchaseChanges
  <2>2. ASSUME NEW nID \in IDs(temp),
               temp' = ApplyEnable(temp, nID) \/ temp' = ApplyDisable(temp, nID, best.nHeight + 1)
        PROVE  RegOK(temp') /\ SameSlots(temp, temp')
    BY <1>1, <2>2, StateChanges
  <2> QED
    BY <2>1, <2>2 DEF ApplyOp, SameSlots
<1>3. /\ work' \in Works /\ work'.phase = "ops" /\ work'.nTime = work.nTime
      /\ work'.nStakerID = work.nStakerID
  BY <1>1 DEF Works, Phases
<1>4. CaughtUp' <=> CaughtUp
  BY <1>2, <1>3 DEF CaughtUp
<1>5. ChainOK' /\ NotAhead(main)'
  BY <1>1, <1>2 DEF IInv, ChainOK, NotAhead, CurrentStart
<1>6. WorkOK'
  BY <1>1, <1>2, <1>3, <1>4 DEF IInv, WorkOK, CurrentStart, TimestampIsValid
<1> QED
  BY <1>1, <1>2, <1>5, <1>6 DEF IInv

\* A block that is counted has its time in the current slot: a live node has compared the
\* two; in replay mode the slot has begun before the block and ends after it.
LEMMA CountedInWindow ==
    ASSUME IInv, work.phase = "ops", CanProduce(temp, work.nStakerID)
    PROVE  Size(temp.queue) > 0 /\ TimeIsInCurrentSlotWindow(temp.queue, work.nTime)
<1>1. CaughtUp
  BY DEF IInv, WorkOK
<1>2. Size(temp.queue) > 0 /\ GetCurrentSlotEnd(temp.queue) >= work.nTime
  BY <1>1 DEF CaughtUp
<1>3. /\ temp.queue.nSlotTime0 \in Nat /\ temp.queue.nCurrentSlot \in Nat
      /\ work.nTime \in Nat
  BY ZenonT(40), PhaseFacts DEF IInv, WorkOK, RegOK, Registries, Queues
<1>4. GetCurrentSlotEnd(temp.queue) \in Int
  BY <1>3, SpacingAssumption DEF GetCurrentSlotEnd, SlotEnd, SlotStart
<1>5. CASE CurrentStart(temp) <= work.nTime
  BY <1>2, <1>3, <1>4, <1>5
     DEF CurrentStart, TimeIsInCurrentSlotWindow, InWindow, GetCurrentSlotEnd
<1>6. CASE TimestampIsValid(temp, work.nStakerID, work.nTime)
  BY <1>2, <1>6 DEF TimestampIsValid, CanProduce, TimeIsInCurrentSlotWindow
<1> QED
  BY <1>2, <1>5, <1>6 DEF IInv, WorkOK

\* Being idle, with temp a copy of main, is always in order.
LEMMA IdleOK ==
    ASSUME work' = Idle, temp' = main'
    PROVE  WorkOK'
<1>1. Idle \in Works /\ Idle.phase = "idle"
  BY DEF Idle, Works, Phases
<1> QED
  BY <1>1 DEF WorkOK

\* The best block is the block of the current slot.
LEMMA FinishBlockStep ==
    ASSUME IInv, NEW hash \in Hashes, NEW g \in BOOLEAN, NEW f \in BOOLEAN,
           FinishBlock(hash, g, f)
    PROVE  IInv'
<1> DEFINE h == best.nHeight + 1
           made == Produce(temp, work.nStakerID, h, hash, g)
           copy == CopyRegistry(main, made)
<1>1. /\ work.phase = "ops" /\ CanProduce(temp, work.nStakerID)
      /\ main' = CheckSynced(copy, f) /\ temp' = main'
      /\ best' = [nHeight |-> h, nTime |-> work.nTime] /\ work' = Idle
  BY DEF FinishBlock
<1>2. Size(temp.queue) > 0 /\ TimeIsInCurrentSlotWindow(temp.queue, work.nTime)
  BY <1>1, CountedInWindow
<1>3. /\ RegOK(temp) /\ h \in Nat /\ h >= ForkQPoS /\ work.nTime \in Nat
  BY ForkAssumption, PhaseFacts DEF IInv, ChainOK, WorkOK
<1>4. /\ RegOK(made) /\ made.fCurrentBlockWasProduced
      /\ made.queue.nSlotTime0 = temp.queue.nSlotTime0
      /\ made.queue.nCurrentSlot = temp.queue.nCurrentSlot
      /\ made.queue.vStakerIDs = temp.queue.vStakerIDs
      /\ made.nBlockHeight = h
  <2> DEFINE i == work.nStakerID
  <2>1. made = Produce(temp, i, h, hash, g) /\ CanProduce(temp, i)
    BY <1>1
  <2> HIDE DEF made, h, i
  <2> QED
    BY <1>3, <2>1, ProduceChanges
<1> HIDE DEF made, h
<1>5. copy \in Registries /\ SameRounds(made, copy)
  <2>1. made \in Registries /\ SameRounds(made, made)
    BY <1>4 DEF RegOK, SameRounds
  <2> QED
    BY <2>1, ReplayChanges DEF CopyRegistry
<1> HIDE DEF copy
<1>6. main' \in Registries /\ SameRounds(copy, main')
  BY Zenon, <1>1, <1>5, ReplayChanges
<1>7. SameRounds(made, main')
  BY <1>5, <1>6 DEF SameRounds
<1>8. RegOK(main')
  BY <1>4, <1>6, <1>7, SameRoundsOK
<1>9. /\ main'.queue = made.queue /\ main'.nBlockHeight = h
      /\ main'.fCurrentBlockWasProduced = made.fCurrentBlockWasProduced
  BY <1>4, <1>7 DEF SameRounds
<1>10. Size(main'.queue) > 0 /\ TimeIsInCurrentSlotWindow(main'.queue, work.nTime)
  BY <1>2, <1>4, <1>9 DEF Size, TimeIsInCurrentSlotWindow, InWindow, SlotStart, SlotEnd
<1>11. ChainOK'
  BY SMTT(30), ZenonT(30), <1>1, <1>3, <1>4, <1>9, <1>10, ForkAssumption DEF ChainOK
<1>12. NotAhead(main)'
  <2>1. main'.queue.nSlotTime0 \in Nat /\ main'.queue.nCurrentSlot \in Nat
    BY <1>6 DEF Registries, Queues
  <2>2. CurrentStart(main') \in Int
    BY <2>1, SpacingAssumption DEF CurrentStart, SlotStart
  <2>3. CurrentStart(main') <= work.nTime
    BY <1>10 DEF TimeIsInCurrentSlotWindow, InWindow, CurrentStart
  <2> QED
    BY <1>1, <1>3, <2>2, <2>3 DEF NotAhead
<1> QED
  BY <1>1, <1>8, <1>11, <1>12, IdleOK DEF IInv

\* A rejected block leaves the main registry alone.
LEMMA RejectBlockStep ==
    ASSUME IInv, RejectBlock
    PROVE  IInv'
<1>1. main' = main /\ best' = best /\ temp' = main /\ work' = Idle
  BY DEF RejectBlock
<1>2. ChainOK' /\ NotAhead(main)'
  BY <1>1 DEF IInv, ChainOK, NotAhead, CurrentStart
<1> QED
  BY <1>1, <1>2, IdleOK DEF IInv

-----------------------------------------------------------------------------
(* The message handler *)

\* The minter starts from a copy of main that is not ahead of the chain.
LEMMA StartMinterStep ==
    ASSUME IInv, NEW nGap \in Gaps, StartMinter(nGap)
    PROVE  IInv'
<1> DEFINE tm == best.nTime + nGap
<1>1. /\ temp' = temp /\ main' = main /\ best' = best /\ temp = main /\ best.nHeight < ForkQPoS
      /\ work' = [Idle EXCEPT !.phase = "mint", !.nTime = tm]
  BY DEF StartMinter, IInv, WorkOK
<1>2. tm \in Nat /\ tm > best.nTime
  BY ChainAssumption DEF IInv, ChainOK
<1> HIDE DEF tm
<1>3. work' \in Works /\ work'.phase = "mint" /\ work'.nTime = tm
  BY ZenonT(40), <1>1, <1>2 DEF Works, Idle, Phases
<1>4. ChainOK' /\ NotAhead(main)' /\ NotAhead(temp)'
  BY <1>1 DEF IInv, ChainOK, NotAhead, CurrentStart
<1>5. WorkOK'
  BY <1>1, <1>2, <1>3, <1>4 DEF WorkOK, IInv, ChainOK
<1> QED
  BY <1>1, <1>4, <1>5 DEF IInv

\* What the minter did to temp becomes main.
LEMMA FinishMinterStep ==
    ASSUME IInv, FinishMinter
    PROVE  IInv'
<1>1. main' = temp /\ temp' = temp /\ best' = best /\ work' = Idle /\ work.phase = "mint"
  BY DEF FinishMinter
<1>2. best.nHeight < ForkQPoS /\ ~temp.fCurrentBlockWasProduced /\ NotAhead(temp)
  BY <1>1 DEF IInv, WorkOK
<1>3. ChainOK'
  BY <1>1, <1>2, ForkAssumption DEF IInv, ChainOK
<1>4. NotAhead(main)'
  BY <1>1, <1>2 DEF NotAhead, CurrentStart
<1> QED
  BY <1>1, <1>3, <1>4, IdleOK DEF IInv

\* Changing the mode of an idle registry, once qPoS has started.
LEMMA ModeStep ==
    ASSUME IInv, FallBehind \/ \E f \in BOOLEAN : KeepUp(f)
    PROVE  IInv'
<1>1. /\ work.phase = "idle" /\ best.nHeight >= ForkQPoS /\ best' = best /\ work' = work
      /\ temp' = main' /\ main \in Registries /\ RegOK(main)
  BY DEF FallBehind, KeepUp, IInv, RegOK
<1>2. main' \in Registries /\ SameRounds(main, main')
  BY <1>1, ReplayChanges DEF FallBehind, KeepUp
<1>3. RegOK(main')
  BY <1>1, <1>2, SameRoundsOK
<1>4. /\ main'.queue = main.queue /\ main'.nBlockHeight = main.nBlockHeight
      /\ main'.fCurrentBlockWasProduced = main.fCurrentBlockWasProduced
  BY <1>2 DEF SameRounds
<1>5. ChainOK'
  BY <1>1, <1>4 DEF IInv, ChainOK
<1>6. NotAhead(main)'
  <2>1. main.queue.nSlotTime0 \in Nat /\ main.queue.nCurrentSlot \in Nat /\ best.nTime \in Nat
    BY ZenonT(40), <1>1 DEF IInv, ChainOK, RegOK, Registries, Queues
  <2>2. CurrentStart(main) \in Int
    BY <2>1, SpacingAssumption DEF CurrentStart, SlotStart
  <2>3. CurrentStart(main) <= best.nTime
    BY <1>1 DEF IInv, ChainOK, TimeIsInCurrentSlotWindow, InWindow, CurrentStart
  <2> QED
    BY <1>1, <1>4, <2>1, <2>2, <2>3 DEF NotAhead, CurrentStart
<1>7. WorkOK'
  BY <1>1 DEF IInv, WorkOK
<1> QED
  BY <1>1, <1>3, <1>5, <1>6, <1>7 DEF IInv

-----------------------------------------------------------------------------
(* The theorems *)

\* A step that changes nothing keeps the invariant.
LEMMA StutterStep ==
    ASSUME IInv, UNCHANGED vars
    PROVE  IInv'
<1>1. main' = main /\ temp' = temp /\ best' = best /\ work' = work
  BY DEF vars
<1> QED
  BY <1>1 DEF IInv, ChainOK, NotAhead, CurrentStart, WorkOK, CaughtUp

\* Every step keeps the invariant.
LEMMA NextIInv ==
    ASSUME IInv, [Next]_vars
    PROVE  IInv'
<1>1. CASE StartQPoS
  BY <1>1, StartQPoSStep
<1>2. CASE AdvanceSlot
  BY <1>2, AdvanceSlotStep
<1>3. CASE \E nID \in IDs(main), nGap \in Gaps : ReceiveBlock(nID, nGap)
  BY <1>3, ReceiveBlockStep
<1>4. CASE CheckTimestamp \/ BeginOps
  BY <1>4, PhaseStep
<1>5. CASE \E fSynced \in BOOLEAN : AcceptBlock(fSynced)
  BY <1>5, AcceptBlockStep
<1>6. CASE ApplyOp
  BY <1>6, ApplyOpStep
<1>7. CASE \E hash \in Hashes, fGarbage, fSynced \in BOOLEAN : FinishBlock(hash, fGarbage, fSynced)
  BY <1>7, FinishBlockStep
<1>8. CASE RejectBlock
  BY <1>8, RejectBlockStep
<1>9. CASE \E nGap \in Gaps : StartMinter(nGap)
  BY <1>9, StartMinterStep
<1>10. CASE FinishMinter
  BY <1>10, FinishMinterStep
<1>11. CASE FallBehind \/ \E fSynced \in BOOLEAN : KeepUp(fSynced)
  BY <1>11, ModeStep
<1>12. CASE UNCHANGED vars
  BY <1>12, StutterStep
<1> QED
  BY <1>1, <1>2, <1>3, <1>4, <1>5, <1>6, <1>7, <1>8, <1>9, <1>10, <1>11, <1>12 DEF Next

\* The invariant always holds.
LEMMA Invariant == Spec => []IInv
<1>1. Init => IInv
  BY InitIInv
<1>2. IInv /\ [Next]_vars => IInv'
  BY NextIInv
<1> QED
  BY <1>1, <1>2, PTL DEF Spec

\* The registries, the best block and the work in hand keep their types, however many
\* stakers there are and however long the chain grows.
THEOREM TypeCorrect == Spec => []TypeOK
<1>1. IInv => TypeOK
  BY DEF IInv, RegOK, ChainOK, WorkOK, TypeOK
<1> QED
  BY <1>1, Invariant, PTL

\* GetCurrentID, GetSlotForID and StakerMissedBlock never meet an unknown staker or a slot
\* beyond the queue.
THEOREM QueuesStaySound == Spec => []QueuesAreSound
<1>1. IInv => QueuesAreSound
  BY DEF IInv, RegOK, QueuesAreSound
<1> QED
  BY <1>1, Invariant, PTL

\* StakerMissedBlock never meets a disqualified staker: its branch "TSNH staker %d
\* disqualified" is dead.
THEOREM NoDisqualifiedAhead == Spec => []DisqualifiedNeverMiss
<1>1. IInv => DisqualifiedNeverMiss
  BY DEF IInv, RegOK, DisqualifiedNeverMiss
<1> QED
  BY <1>1, Invariant, PTL

\* Every slot given to a staker is counted as produced or missed, and docked at most once,
\* through all the forks that change how misses are counted.
THEOREM SlotsStayAccounted == Spec => []SlotsAccounted
<1>1. IInv => SlotsAccounted
  <2> SUFFICES ASSUME IInv, NEW i \in IDs(temp)
               PROVE  Accounted(temp.mapStakers[i])
    BY DEF SlotsAccounted, Accounted
  <2>1. i \in 1..MaxStakers
    <3>1. temp \in Registries
      BY Zenon DEF IInv, RegOK
    <3>2. temp.nIDCounter \in 1..MaxStakers
      BY <3>1 DEF Registries
    <3> QED
      BY <3>2, PowerAssumption DEF IDs
  <2> QED
    BY <2>1 DEF IInv, RegOK, StakersOK
<1> QED
  BY <1>1, Invariant, PTL

\* GetStakerWeight is positive for every slot that is counted, so total weight is never 0
\* when a power round is not empty.
THEOREM WeightsStayPositive == Spec => []WeightsPositive
<1>1. IInv => WeightsPositive
  BY DEF IInv, RegOK, RoundOK, WeightsPositive
<1> QED
  BY <1>1, Invariant, PTL

\* The time of a block lies in the slot it is counted for, in replay mode as well, where
\* TimestampIsValid is not called.
THEOREM BlocksInsideWindow == Spec => []ProducedInsideWindow
<1>1. IInv => ProducedInsideWindow
  <2> SUFFICES ASSUME IInv, main.fCurrentBlockWasProduced
               PROVE  TimeIsInCurrentSlotWindow(main.queue, best.nTime)
    BY DEF ProducedInsideWindow
  <2>1. best.nHeight \in Nat
    BY DEF IInv, ChainOK
  <2>2. best.nHeight >= ForkQPoS
    BY <2>1, ForkAssumption DEF IInv, ChainOK
  <2> QED
    BY <2>2 DEF IInv, ChainOK
<1> QED
  BY <1>1, Invariant, PTL

\* What AdvanceSlot does to temp, by AdvanceChanges.
LEMMA AdvanceTemp ==
    ASSUME IInv, AdvanceSlot
    PROVE  /\ CurrentStart(temp') = GetCurrentSlotEnd(temp.queue) + 1
           /\ \/ EnabledIDs(temp') = EnabledIDs(temp)
              \/ /\ GetNumberEnabled(temp) > MinEnabled
                 /\ \E i \in IDs(temp) : EnabledIDs(temp') = EnabledIDs(temp) \ {i}
<1> DEFINE t == temp'
           h == best.nHeight
           n == work.nNewQueues
<1>1. /\ RegOK(temp) /\ Size(temp.queue) > 0 /\ h \in Nat /\ n \in Nat
      /\ CanMoveOn(PassSlot(temp, h, n))
      /\ t = JudgePower(MoveOn(PassSlot(temp, h, n)))
  BY PhaseFacts DEF IInv, ChainOK, WorkOK, AdvanceSlot
<1> HIDE DEF t, h, n
<1>2. /\ SlotStart(t.queue, t.queue.nCurrentSlot) = GetCurrentSlotEnd(temp.queue) + 1
      /\ \/ EnabledIDs(t) = EnabledIDs(temp)
         \/ /\ GetNumberEnabled(temp) > MinEnabled
            /\ \E i \in IDs(temp) : EnabledIDs(t) = EnabledIDs(temp) \ {i}
  BY <1>1, AdvanceChanges
<1> QED
  BY <1>2 DEF t, CurrentStart

\* Rounds follow one another without a gap and without overlap, and every iteration of the
\* loop of UpdateOnNewTimeInternal brings the clock one slot closer to its goal.
THEOREM ClockMoves == Spec => ClockMovesOneSlot
<1>1. IInv /\ [Next]_vars => [AdvanceSlot => GetCurrentSlotEnd(temp'.queue) =
                                GetCurrentSlotEnd(temp.queue) + QP_TARGET_SPACING]_vars
  <2> SUFFICES ASSUME IInv, AdvanceSlot
               PROVE  GetCurrentSlotEnd(temp'.queue) =
                        GetCurrentSlotEnd(temp.queue) + QP_TARGET_SPACING
    OBVIOUS
  <2>1. CurrentStart(temp') = GetCurrentSlotEnd(temp.queue) + 1
    BY AdvanceTemp
  <2>2. temp.queue.nSlotTime0 \in Nat /\ temp.queue.nCurrentSlot \in Nat
    BY ZenonT(40) DEF IInv, RegOK, Registries, Queues
  <2>3. GetCurrentSlotEnd(temp.queue) \in Int
    BY <2>2, SpacingAssumption DEF GetCurrentSlotEnd, SlotEnd, SlotStart
  <2>4. GetCurrentSlotEnd(temp'.queue) = CurrentStart(temp') + QP_TARGET_SPACING - 1
    BY DEF GetCurrentSlotEnd, SlotEnd, CurrentStart
  <2> QED
    BY <2>1, <2>3, <2>4, SpacingAssumption
<1> QED
  BY <1>1, Invariant, PTL DEF Spec, ClockMovesOneSlot

\* DisableStakerIfNecessary never takes the number of enabled stakers below MinEnabled: a
\* slot disables one staker at most, and only while there are more than that.
THEOREM FloorHolds == Spec => AutoDisableFloor
<1>1. IInv /\ [Next]_vars => [GetNumberEnabled(temp) >= MinEnabled /\ AdvanceSlot
                                => GetNumberEnabled(temp') >= MinEnabled]_vars
  <2> SUFFICES ASSUME IInv, AdvanceSlot, GetNumberEnabled(temp) >= MinEnabled
               PROVE  GetNumberEnabled(temp') >= MinEnabled
    OBVIOUS
  <2>1. CASE EnabledIDs(temp') = EnabledIDs(temp)
    BY <2>1 DEF GetNumberEnabled
  <2>2. CASE /\ GetNumberEnabled(temp) > MinEnabled
             /\ \E i \in IDs(temp) : EnabledIDs(temp') = EnabledIDs(temp) \ {i}
    <3>1. PICK i \in IDs(temp) : EnabledIDs(temp') = EnabledIDs(temp) \ {i}
      BY <2>2
    <3>2. IsFiniteSet(EnabledIDs(temp))
      <4>1. temp.nIDCounter \in Int
        BY PowerAssumption DEF IInv, RegOK, Registries
      <4>2. IsFiniteSet(IDs(temp))
        BY <4>1, FS_Interval DEF IDs
      <4> QED
        BY SMTT(30), ZenonT(30), <4>2, FS_Subset DEF EnabledIDs
    <3>3. Cardinality(EnabledIDs(temp)) \in Nat
      BY <3>2, FS_CardinalityType
    <3>4. Cardinality(EnabledIDs(temp) \ {i}) >= Cardinality(EnabledIDs(temp)) - 1
      <4> DEFINE E == EnabledIDs(temp)
      <4>1. Cardinality(E \ {i}) = IF i \in E THEN Cardinality(E) - 1 ELSE Cardinality(E)
        <5>1. IsFiniteSet(E)
          BY <3>2
        <5> HIDE DEF E
        <5> QED
          BY <5>1, FS_RemoveElement
      <4>2. Cardinality(E) \in Nat
        BY <3>3
      <4> HIDE DEF E
      <4>3. Cardinality(E \ {i}) >= Cardinality(E) - 1
        BY <4>1, <4>2
      <4> QED
        BY <4>3 DEF E
    <3>5. Cardinality(EnabledIDs(temp) \ {i}) \in Nat
      BY <3>2, FS_Subset, FS_CardinalityType
    <3> QED
      BY <2>2, <3>1, <3>3, <3>4, <3>5, PowerAssumption DEF GetNumberEnabled
  <2> QED
    BY <2>1, <2>2, AdvanceTemp
<1> QED
  BY <1>1, Invariant, PTL DEF Spec, AutoDisableFloor

=============================================================================
