-------------------------- MODULE QPRegistryProofs ---------------------------
(***************************************************************************)
(* What each operation on a queue and a registry keeps: the lemmas         *)
(* QPRoundsProofs is built from.                                           *)
(***************************************************************************)
EXTENDS QPRounds, QPStakerProofs, TLAPS

\* A sequence over a set is one over every larger set.
LEMMA SeqWiden ==
    ASSUME NEW S, NEW T, S \subseteq T, NEW v \in Seq(S)
    PROVE  /\ v \in Seq(T) /\ Len(v) \in Nat
           /\ \A j \in 1..Len(v) : v[j] \in S
  OBVIOUS

-----------------------------------------------------------------------------
(* A registry in order *)

StakersOK(m) ==
    /\ m \in [1..MaxStakers -> StakerStats]
    /\ \A i \in 1..MaxStakers : Accounted(m[i])

RoundOK(p) ==
    /\ p \in Seq(PowerElements)
    /\ \A i \in 1..Len(p) : p[i].nWeight > 0

\* Everything the safety properties of QPRounds say of one registry.
RegOK(r) ==
    /\ r \in Registries
    /\ StakersOK(r.mapStakers)
    /\ RoundOK(r.powerRoundCurrent)
    /\ QueueIsSound(r)
    /\ NoneDisqualifiedAhead(r)

\* The two agree on everything but replay mode and the wish to roll back.
SameRounds(r, t) ==
    /\ t.nIDCounter = r.nIDCounter
    /\ t.mapStakers = r.mapStakers
    /\ t.queue = r.queue
    /\ t.nRound = r.nRound
    /\ t.powerRoundPrev = r.powerRoundPrev
    /\ t.powerRoundCurrent = r.powerRoundCurrent
    /\ t.fCurrentBlockWasProduced = r.fCurrentBlockWasProduced
    /\ t.fPrevBlockWasProduced = r.fPrevBlockWasProduced
    /\ t.nBlockHeight = r.nBlockHeight
    /\ t.hashBlock = r.hashBlock

\* What is said of a registry does not depend on replay mode.
LEMMA SameRoundsOK ==
    ASSUME NEW r, NEW t, RegOK(r), t \in Registries, SameRounds(r, t)
    PROVE  RegOK(t)
<1>1. QueueIsSound(t)
  BY DEF RegOK, SameRounds, QueueIsSound, IDs
<1>2. NoneDisqualifiedAhead(t)
  BY DEF RegOK, SameRounds, NoneDisqualifiedAhead
<1> QED
  BY <1>1, <1>2 DEF RegOK, SameRounds

\* Entering and leaving replay mode.
LEMMA ReplayChanges ==
    ASSUME NEW r \in Registries
    PROVE  /\ ExitReplayMode(r) \in Registries /\ SameRounds(r, ExitReplayMode(r))
           /\ ExitReplayMode(r).nHeightExitedReplay = r.nBlockHeight
           /\ EnterReplayMode(r) \in Registries /\ SameRounds(r, EnterReplayMode(r))
           /\ \A f \in BOOLEAN : /\ CheckSynced(r, f) \in Registries
                                  /\ SameRounds(r, CheckSynced(r, f))
<1>0. SameRounds(r, r)
  BY DEF SameRounds
<1>1. \A h \in Nat : LET t == [r EXCEPT !.nHeightExitedReplay = h]
                    IN  /\ t \in Registries /\ SameRounds(r, t)
                        /\ t.nHeightExitedReplay = h
  BY Zenon DEF Registries, SameRounds
<1>2. r.nBlockHeight \in Nat
  BY DEF Registries
<1>3. /\ ExitReplayMode(r) \in Registries /\ SameRounds(r, ExitReplayMode(r))
      /\ ExitReplayMode(r).nHeightExitedReplay = r.nBlockHeight
  BY <1>1, <1>2 DEF ExitReplayMode
<1>4. EnterReplayMode(r) \in Registries /\ SameRounds(r, EnterReplayMode(r))
  BY Zenon, <1>0, <1>1 DEF EnterReplayMode
<1>5. ASSUME NEW f \in BOOLEAN
      PROVE  CheckSynced(r, f) \in Registries /\ SameRounds(r, CheckSynced(r, f))
  BY <1>0, <1>3 DEF CheckSynced
<1> QED
  BY <1>3, <1>4, <1>5

\* Judging the power of the chain.
LEMMA JudgePowerChanges ==
    ASSUME NEW r \in Registries
    PROVE  /\ JudgePower(r) \in Registries /\ SameRounds(r, JudgePower(r))
           /\ JudgePower(r).nHeightExitedReplay \in {r.nHeightExitedReplay, r.nBlockHeight}
<1>1. ASSUME NEW q \in Registries, SameRounds(r, q), NEW b \in BOOLEAN
      PROVE  LET t == [q EXCEPT !.fShouldRollback = b]
             IN  /\ t \in Registries /\ SameRounds(r, t)
                 /\ t.nHeightExitedReplay = q.nHeightExitedReplay
  BY Zenon, <1>1 DEF Registries, SameRounds
<1>2. r \in Registries /\ SameRounds(r, r)
  BY DEF SameRounds
<1>3. /\ ExitReplayMode(r) \in Registries /\ SameRounds(r, ExitReplayMode(r))
      /\ ExitReplayMode(r).nHeightExitedReplay = r.nBlockHeight
  BY ReplayChanges
<1> QED
  BY Zenon, <1>1, <1>2, <1>3 DEF JudgePower

-----------------------------------------------------------------------------
(* A slot that passes *)

\* The queue, and who is qualified, are as before.
SameQueue(r, t) ==
    /\ t.nIDCounter = r.nIDCounter
    /\ t.queue = r.queue
    /\ t.nRound = r.nRound
    /\ t.fCurrentBlockWasProduced = r.fCurrentBlockWasProduced
    /\ t.nBlockHeight = r.nBlockHeight
    /\ t.hashBlock = r.hashBlock
    /\ \A i \in 1..MaxStakers : t.mapStakers[i].fQualified = r.mapStakers[i].fQualified

\* Every slot of a queue belongs to one of the stakers.
LEMMA SlotInRange ==
    ASSUME NEW r, RegOK(r), NEW s \in 0..(Size(r.queue) - 1)
    PROVE  r.queue.vStakerIDs[s + 1] \in IDs(r) /\ r.queue.vStakerIDs[s + 1] \in 1..MaxStakers
<1>1. r.queue.vStakerIDs \in Seq(1..MaxStakers) /\ r.nIDCounter \in 1..MaxStakers
  BY DEF RegOK, Registries, Queues
<1>2. Size(r.queue) \in Nat /\ s + 1 \in 1..Size(r.queue)
  BY <1>1 DEF Size
<1>3. r.queue.vStakerIDs[s + 1] \in IDs(r)
  BY <1>2 DEF RegOK, QueueIsSound
<1> QED
  BY <1>1, <1>3, PowerAssumption DEF IDs

\* What is said of the queue of a registry carries over.
LEMMA SameQueueOK ==
    ASSUME NEW r, NEW t, RegOK(r), t \in Registries, SameQueue(r, t),
           StakersOK(t.mapStakers), RoundOK(t.powerRoundCurrent)
    PROVE  RegOK(t)
<1>1. QueueIsSound(t)
  BY DEF RegOK, SameQueue, QueueIsSound, IDs
<1>2. NoneDisqualifiedAhead(t)
  BY SlotInRange DEF RegOK, SameQueue, NoneDisqualifiedAhead
<1> QED
  BY <1>1, <1>2 DEF RegOK

\* A registered staker's element of a power round has a positive weight.
LEMMA PowerElementOK ==
    ASSUME NEW r \in Registries, StakersOK(r.mapStakers), NEW i \in IDs(r), NEW f \in BOOLEAN
    PROVE  PowerElement(r, i, f) \in PowerElements /\ PowerElement(r, i, f).nWeight > 0
<1> DEFINE w == GetWeight(r.mapStakers[i], r.nIDCounter + 1 - i)
<1>1. i \in 1..MaxStakers /\ r.nIDCounter + 1 - i \in Nat \ {0} /\ i \in Nat
  BY PowerAssumption DEF IDs, Registries
<1>2. r.mapStakers[i] \in StakerStats /\ Accounted(r.mapStakers[i])
  BY Zenon, <1>1 DEF StakersOK
<1>3. w \in Nat \ {0}
  BY <1>1, <1>2, WeightIsPositive
<1>4. PowerElement(r, i, f) = [nStakerID |-> i, nWeight |-> w, fDidProduceBlock |-> f]
  BY DEF PowerElement
<1> HIDE DEF w
<1> QED
  BY <1>1, <1>3, <1>4 DEF PowerElements

\* Appending an element with a positive weight to a power round.
LEMMA RoundAppend ==
    ASSUME NEW p, RoundOK(p), NEW e \in PowerElements, e.nWeight > 0
    PROVE  RoundOK(Append(p, e))
<1>1. Append(p, e) \in Seq(PowerElements) /\ Len(Append(p, e)) = Len(p) + 1 /\ Len(p) \in Nat
  BY DEF RoundOK
<1>2. ASSUME NEW i \in 1..Len(Append(p, e))
      PROVE  Append(p, e)[i].nWeight > 0
  <2>1. CASE i = Len(p) + 1
    BY <1>1, <2>1 DEF RoundOK
  <2>2. CASE i \in 1..Len(p)
    BY <1>1, <2>2 DEF RoundOK
  <2> QED
    BY <1>1, <2>1, <2>2
<1> QED
  BY <1>1, <1>2 DEF RoundOK

\* Replacing the statistics of one staker.
LEMMA StakersExcept ==
    ASSUME NEW m, StakersOK(m), NEW i \in 1..MaxStakers, NEW s \in StakerStats, Accounted(s)
    PROVE  /\ StakersOK([m EXCEPT ![i] = s])
           /\ [m EXCEPT ![i] = s][i] = s
           /\ \A j \in 1..MaxStakers : j # i => [m EXCEPT ![i] = s][j] = m[j]
  BY DEF StakersOK

\* Writing the statistics of one staker into a registry.
LEMMA PutStaker ==
    ASSUME NEW r \in Registries, StakersOK(r.mapStakers), NEW i \in 1..MaxStakers,
           NEW s \in StakerStats, Accounted(s),
           s.fQualified = r.mapStakers[i].fQualified
    PROVE  LET t == [r EXCEPT !.mapStakers[i] = s]
           IN  /\ t \in Registries /\ SameQueue(r, t)
               /\ StakersOK(t.mapStakers)
               /\ t.powerRoundCurrent = r.powerRoundCurrent
               /\ t.mapStakers[i] = s
               /\ \A j \in 1..MaxStakers : j # i => t.mapStakers[j] = r.mapStakers[j]
               /\ t.nHeightExitedReplay = r.nHeightExitedReplay
<1> DEFINE m == [r.mapStakers EXCEPT ![i] = s]
           t == [r EXCEPT !.mapStakers = m]
<1>1. /\ StakersOK(m) /\ m[i] = s
      /\ \A j \in 1..MaxStakers : j # i => m[j] = r.mapStakers[j]
  BY StakersExcept
<1>2. \A j \in 1..MaxStakers : m[j].fQualified = r.mapStakers[j].fQualified
  BY <1>1
<1>3. [r EXCEPT !.mapStakers[i] = s] = t
  OBVIOUS
<1> HIDE DEF m
<1>4. t \in Registries
  BY <1>1 DEF Registries, StakersOK
<1>5. /\ t.mapStakers = m /\ t.powerRoundCurrent = r.powerRoundCurrent
      /\ t.nHeightExitedReplay = r.nHeightExitedReplay
  BY DEF Registries
<1>6. SameQueue(r, t)
  BY <1>2 DEF Registries, SameQueue
<1> QED
  BY ZenonT(40), <1>1, <1>3, <1>4, <1>5, <1>6

\* Auto-disabling leaves the queue and the qualifications alone, and takes at most
\* one staker off the enabled ones, if more than MinEnabled are.
LEMMA DisableChanges ==
    ASSUME NEW r, RegOK(r), NEW i \in IDs(r), NEW h \in Nat
    PROVE  LET t == DisableStakerIfNecessary(r, i, h)
           IN  /\ RegOK(t) /\ SameQueue(r, t)
               /\ t.nHeightExitedReplay = r.nHeightExitedReplay
               /\ \/ EnabledIDs(t) = EnabledIDs(r)
                  \/ GetNumberEnabled(r) > MinEnabled /\ EnabledIDs(t) = EnabledIDs(r) \ {i}
<1> DEFINE t == [r EXCEPT !.mapStakers[i] = Disable(r.mapStakers[i], h)]
           s == Disable(r.mapStakers[i], h)
<1>1. /\ r \in Registries /\ StakersOK(r.mapStakers) /\ i \in 1..MaxStakers
      /\ r.nIDCounter \in 1..MaxStakers
  BY PowerAssumption DEF RegOK, Registries, IDs
<1>2. r.mapStakers[i] \in StakerStats /\ Accounted(r.mapStakers[i])
  BY Zenon, <1>1 DEF StakersOK
<1>3. s \in StakerStats /\ Accounted(s) /\ s.fQualified = r.mapStakers[i].fQualified
  BY <1>2, ChangesGood DEF GoodStats
<1>4. /\ t \in Registries /\ SameQueue(r, t) /\ StakersOK(t.mapStakers)
      /\ t.powerRoundCurrent = r.powerRoundCurrent
      /\ \A j \in 1..MaxStakers : j # i => t.mapStakers[j] = r.mapStakers[j]
      /\ t.nHeightExitedReplay = r.nHeightExitedReplay
  BY <1>1, <1>3, PutStaker
<1> HIDE DEF t, s
<1>5. RegOK(t)
  BY <1>4, SameQueueOK DEF RegOK
<1>6. IDs(t) = IDs(r) /\ IDs(r) \subseteq 1..MaxStakers
  BY <1>1, <1>4, PowerAssumption DEF SameQueue, IDs
<1>7. IsEnabled(r.mapStakers[i])
        => EnabledIDs(t) = EnabledIDs(r) \/ EnabledIDs(t) = EnabledIDs(r) \ {i}
  <2>1. ASSUME NEW j, j # i PROVE j \in EnabledIDs(t) <=> j \in EnabledIDs(r)
    BY <1>4, <1>6, <2>1 DEF EnabledIDs
  <2>2. CASE i \in EnabledIDs(t) <=> i \in EnabledIDs(r)
    BY <2>1, <2>2
  <2>3. CASE ~IsEnabled(r.mapStakers[i])
    BY <2>3
  <2>4. CASE i \notin EnabledIDs(t)
    BY <2>1, <2>4
  <2> QED
    BY <2>2, <2>3, <2>4 DEF EnabledIDs
<1>8. SameQueue(r, r)
  BY DEF SameQueue
<1>9. \/ DisableStakerIfNecessary(r, i, h) = r
      \/ /\ GetNumberEnabled(r) > MinEnabled /\ IsEnabled(r.mapStakers[i])
         /\ DisableStakerIfNecessary(r, i, h) = t
  BY Zenon DEF DisableStakerIfNecessary, t
<1> QED
  BY <1>4, <1>5, <1>7, <1>8, <1>9

Put(r, i, s, p, f) ==
    [r EXCEPT !.powerRoundCurrent = p, !.mapStakers[i] = s, !.fPrevBlockWasProduced = f]

\* Writing statistics and a new element of the power round into a registry.
LEMMA PutStakerAndRound ==
    ASSUME NEW r \in Registries, StakersOK(r.mapStakers), NEW i \in 1..MaxStakers,
           NEW s \in StakerStats, Accounted(s),
           s.fQualified = r.mapStakers[i].fQualified,
           NEW p, RoundOK(p), NEW f \in BOOLEAN, NEW t, t = Put(r, i, s, p, f)
    PROVE  /\ t \in Registries /\ SameQueue(r, t)
           /\ StakersOK(t.mapStakers)
           /\ t.powerRoundCurrent = p
           /\ t.mapStakers[i] = s
           /\ \A j \in 1..MaxStakers : j # i => t.mapStakers[j] = r.mapStakers[j]
           /\ t.nHeightExitedReplay = r.nHeightExitedReplay
<1> DEFINE m == [r.mapStakers EXCEPT ![i] = s]
<1>1. /\ StakersOK(m) /\ m[i] = s
      /\ \A j \in 1..MaxStakers : j # i => m[j] = r.mapStakers[j]
  BY StakersExcept
<1>2. \A j \in 1..MaxStakers : m[j].fQualified = r.mapStakers[j].fQualified
  BY <1>1
<1>3. t = [r EXCEPT !.powerRoundCurrent = p, !.mapStakers = m, !.fPrevBlockWasProduced = f]
  BY DEF Put
<1> HIDE DEF m
<1>4. t \in Registries
  BY ZenonT(40), <1>1, <1>3 DEF Registries, StakersOK, RoundOK
<1>5. /\ t.mapStakers = m /\ t.powerRoundCurrent = p
      /\ t.nHeightExitedReplay = r.nHeightExitedReplay
  BY <1>3 DEF Registries
<1>6. SameQueue(r, t)
  BY <1>2, <1>3 DEF Registries, SameQueue
<1> QED
  BY <1>1, <1>4, <1>5, <1>6

\* A missed slot is counted against its staker, and may disable it.
LEMMA MissedChanges ==
    ASSUME NEW r, RegOK(r), NEW i \in IDs(r), NEW h \in Nat
    PROVE  LET t == StakerMissedBlock(r, i, h)
           IN  /\ RegOK(t) /\ SameQueue(r, t)
               /\ t.nHeightExitedReplay = r.nHeightExitedReplay
               /\ \/ EnabledIDs(t) = EnabledIDs(r)
                  \/ GetNumberEnabled(r) > MinEnabled /\ EnabledIDs(t) = EnabledIDs(r) \ {i}
<1> DEFINE fDock == h >= ForkMissFix
           s == MissedBlock(r.mapStakers[i], r.fPrevBlockWasProduced, fDock)
           e == PowerElement(r, i, FALSE)
           p == Append(r.powerRoundCurrent, e)
           f == FALSE
           t == Put(r, i, s, p, f)
<1>1. /\ r \in Registries /\ StakersOK(r.mapStakers) /\ i \in 1..MaxStakers
      /\ r.nIDCounter \in 1..MaxStakers /\ r.fPrevBlockWasProduced \in BOOLEAN
  BY PowerAssumption DEF RegOK, Registries, IDs
<1>2. r.mapStakers[i] \in StakerStats /\ Accounted(r.mapStakers[i])
  BY Zenon, <1>1 DEF StakersOK
<1>3. fDock \in BOOLEAN
  BY ForkAssumption
<1>4. /\ s \in StakerStats /\ Accounted(s) /\ s.fQualified = r.mapStakers[i].fQualified
      /\ s.nHeightDisabled = r.mapStakers[i].nHeightDisabled
  <2> HIDE DEF fDock
  <2> QED
    BY <1>1, <1>2, <1>3, MissedGood DEF GoodStats
<1>5. e \in PowerElements /\ e.nWeight > 0
  BY Zenon, <1>1, PowerElementOK
<1>6. RoundOK(p)
  <2> HIDE DEF e
  <2> QED
    BY <1>5, RoundAppend DEF RegOK
<1>7. \/ StakerMissedBlock(r, i, h) = r
      \/ StakerMissedBlock(r, i, h) = t
      \/ StakerMissedBlock(r, i, h) = DisableStakerIfNecessary(t, i, h)
  BY Zenon DEF StakerMissedBlock, Put
<1> HIDE DEF s, p, e
<1>8. f \in BOOLEAN
  OBVIOUS
<1> HIDE DEF f
<1>9. /\ t \in Registries /\ SameQueue(r, t) /\ StakersOK(t.mapStakers)
      /\ t.powerRoundCurrent = p
      /\ t.mapStakers[i] = s
      /\ \A j \in 1..MaxStakers : j # i => t.mapStakers[j] = r.mapStakers[j]
      /\ t.nHeightExitedReplay = r.nHeightExitedReplay
  BY <1>1, <1>4, <1>6, <1>8, PutStakerAndRound
<1> HIDE DEF t
<1>10. RegOK(t)
  BY <1>6, <1>9, SameQueueOK
<1>11. IDs(t) = IDs(r) /\ IDs(r) \subseteq 1..MaxStakers
  BY <1>1, <1>9, PowerAssumption DEF SameQueue, IDs
<1>12. EnabledIDs(t) = EnabledIDs(r)
  BY <1>4, <1>9, <1>11 DEF EnabledIDs, IsEnabled
<1>13. SameQueue(r, r)
  BY DEF SameQueue
<1>14. LET u == DisableStakerIfNecessary(t, i, h)
       IN  /\ RegOK(u) /\ SameQueue(r, u)
           /\ u.nHeightExitedReplay = r.nHeightExitedReplay
           /\ \/ EnabledIDs(u) = EnabledIDs(r)
              \/ GetNumberEnabled(r) > MinEnabled /\ EnabledIDs(u) = EnabledIDs(r) \ {i}
  <2>1. GetNumberEnabled(t) = GetNumberEnabled(r)
    BY <1>12 DEF GetNumberEnabled
  <2>2. LET u == DisableStakerIfNecessary(t, i, h)
        IN  /\ RegOK(u) /\ SameQueue(t, u)
            /\ u.nHeightExitedReplay = t.nHeightExitedReplay
            /\ \/ EnabledIDs(u) = EnabledIDs(t)
               \/ GetNumberEnabled(t) > MinEnabled /\ EnabledIDs(u) = EnabledIDs(t) \ {i}
    BY <1>10, <1>11, DisableChanges
  <2> QED
    BY <1>9, <1>12, <2>1, <2>2 DEF SameQueue
<1> QED
  BY <1>7, <1>9, <1>10, <1>12, <1>13, <1>14

\* What becomes of a slot the clock passes.  Before qPoS the registry leaves replay mode.
LEMMA PassSlotChanges ==
    ASSUME NEW r, RegOK(r), Size(r.queue) > 0, NEW h \in Nat, NEW n \in Nat
    PROVE  LET t == PassSlot(r, h, n)
           IN  /\ RegOK(t) /\ SameQueue(r, t)
               /\ \/ EnabledIDs(t) = EnabledIDs(r)
                  \/ /\ GetNumberEnabled(r) > MinEnabled
                     /\ \E i \in IDs(r) : EnabledIDs(t) = EnabledIDs(r) \ {i}
               /\ ~r.fCurrentBlockWasProduced /\ h < ForkQPoS
                    => t.nHeightExitedReplay = r.nBlockHeight
<1>1. r \in Registries /\ r.queue.nCurrentSlot \in 0..(Size(r.queue) - 1)
  <2>1. r \in Registries /\ r.queue.nCurrentSlot \in Nat /\ Len(r.queue.vStakerIDs) \in Nat
    BY DEF RegOK, Registries, Queues
  <2>2. r.queue.nCurrentSlot < Size(r.queue)
    BY DEF RegOK, QueueIsSound
  <2> QED
    BY <2>1, <2>2 DEF Size
<1>2. GetCurrentID(r.queue) \in IDs(r)
  BY <1>1, SlotInRange DEF GetCurrentID
<1>3. RegOK(r) /\ SameQueue(r, r)
  BY DEF SameQueue
<1>4. LET t == ExitReplayMode(r)
      IN  /\ RegOK(t) /\ SameQueue(r, t) /\ EnabledIDs(t) = EnabledIDs(r)
          /\ t.nHeightExitedReplay = r.nBlockHeight
  <2>1. /\ ExitReplayMode(r) \in Registries /\ SameRounds(r, ExitReplayMode(r))
        /\ ExitReplayMode(r).nHeightExitedReplay = r.nBlockHeight
    BY <1>1, ReplayChanges
  <2>2. RegOK(ExitReplayMode(r))
    BY <2>1, SameRoundsOK
  <2> QED
    BY <2>1, <2>2 DEF SameRounds, SameQueue, EnabledIDs, IDs
<1>5. LET t == StakerMissedBlock(r, GetCurrentID(r.queue), h)
      IN  /\ RegOK(t) /\ SameQueue(r, t)
          /\ \/ EnabledIDs(t) = EnabledIDs(r)
             \/ /\ GetNumberEnabled(r) > MinEnabled
                /\ \E i \in IDs(r) : EnabledIDs(t) = EnabledIDs(r) \ {i}
  BY <1>2, MissedChanges
<1>6. CASE r.fCurrentBlockWasProduced
  BY <1>3, <1>6 DEF PassSlot
<1>7. CASE /\ ~r.fCurrentBlockWasProduced
           /\ h >= ForkQPoS /\ (h < ForkFeeless2 \/ n <= 1)
  <2>1. PassSlot(r, h, n) = StakerMissedBlock(r, GetCurrentID(r.queue), h)
    BY <1>7 DEF PassSlot
  <2>2. ~(h < ForkQPoS)
    BY <1>7, ForkAssumption
  <2> QED
    BY <1>5, <2>1, <2>2
<1>8. CASE /\ ~r.fCurrentBlockWasProduced
           /\ ~(h >= ForkQPoS /\ (h < ForkFeeless2 \/ n <= 1))
  <2>1. PassSlot(r, h, n) = ExitReplayMode(r)
    BY <1>8 DEF PassSlot
  <2> QED
    BY <1>4, <2>1
<1> QED
  BY <1>6, <1>7, <1>8

\* Every slot of the queue belongs to a qualified staker.
AllQualified(r) ==
    \A s \in 0..(Size(r.queue) - 1) : r.mapStakers[r.queue.vStakerIDs[s + 1]].fQualified

\* A new round schedules the enabled stakers, all of them qualified, from its first slot on.
LEMMA NewQueueChanges ==
    ASSUME NEW r, RegOK(r), EnabledIDs(r) # {}, NEW nTime0 \in Nat, NEW hash \in Hashes,
           NEW t, t = NewQueue(r, nTime0, hash)
    PROVE  /\ RegOK(t)
           /\ Size(t.queue) > 0
           /\ t.queue.nCurrentSlot = 0 /\ t.queue.nSlotTime0 = nTime0
           /\ t.nIDCounter = r.nIDCounter /\ t.mapStakers = r.mapStakers
           /\ t.fCurrentBlockWasProduced = r.fCurrentBlockWasProduced
           /\ t.nBlockHeight = r.nBlockHeight /\ t.hashBlock = r.hashBlock
           /\ t.nHeightExitedReplay = r.nHeightExitedReplay
           /\ AllQualified(t)
<1> DEFINE S == EnabledIDs(r)
           v == Shuffle(S, hash)
           q == MakeQueue(nTime0, v)
           k == Size(r.queue)
           n == r.nRound + 1
           e == << >>
<1>1. /\ r \in Registries /\ r.nIDCounter \in 1..MaxStakers /\ k \in Nat /\ r.nRound \in Nat
      /\ r.powerRoundCurrent \in Seq(PowerElements)
  BY DEF RegOK, Registries, Queues, Size
<1>2. /\ S \subseteq IDs(r) /\ IDs(r) \subseteq 1..MaxStakers
      /\ \A i \in S : r.mapStakers[i].fQualified
  BY <1>1, PowerAssumption DEF EnabledIDs, IDs, IsEnabled
<1>3. IsShuffleOf(v, S)
  <2>1. S \in SUBSET (1..MaxStakers)
    BY <1>2
  <2> HIDE DEF S
  <2> QED
    BY <2>1, ShuffleAssumption
<1>4. /\ v \in Seq(S) /\ v \in Seq(1..MaxStakers) /\ Len(v) \in Nat
      /\ \A j \in 1..Len(v) : v[j] \in S
      /\ \A i, j \in 1..Len(v) : v[i] = v[j] => i = j
  <2>1. v \in Seq(S) /\ \A i, j \in 1..Len(v) : v[i] = v[j] => i = j
    BY <1>3 DEF IsShuffleOf
  <2>2. S \subseteq 1..MaxStakers
    BY <1>2
  <2> HIDE DEF v, S
  <2>3. Len(v) \in Nat /\ \A j \in 1..Len(v) : v[j] \in S
    BY <2>1, SeqWiden
  <2>4. v \in Seq(1..MaxStakers)
    BY Zenon, <2>1, <2>2, SeqWiden
  <2> QED
    BY <2>1, <2>3, <2>4
<1>5. Len(v) > 0
  <2>1. PICK i \in S : TRUE
    OBVIOUS
  <2>2. \E j \in 1..Len(v) : v[j] = i
    BY <1>3, <2>1 DEF IsShuffleOf
  <2> HIDE DEF v, S
  <2> QED
    BY <1>4, <2>2
<1>6. /\ q.vStakerIDs = v /\ q.nCurrentSlot = 0 /\ q.nSlotTime0 = nTime0
      /\ q \in Queues
  <2> HIDE DEF v
  <2> QED
    BY <1>4 DEF MakeQueue, Queues
<1>7. t = [r EXCEPT !.nQueuePrev = k, !.queue = q, !.nRound = n,
                     !.powerRoundPrev = r.powerRoundCurrent, !.powerRoundCurrent = e]
  BY DEF NewQueue
<1>8. n \in Nat /\ n > 0 /\ RoundOK(e)
  BY <1>1 DEF RoundOK
<1> HIDE DEF S, v, q, k, n, e
<1>9. t \in Registries
  BY ZenonT(40), <1>1, <1>6, <1>7, <1>8 DEF Registries, RoundOK
<1>10. /\ t.queue = q /\ t.nRound = n /\ t.powerRoundCurrent = e
       /\ t.nIDCounter = r.nIDCounter /\ t.mapStakers = r.mapStakers
       /\ t.fCurrentBlockWasProduced = r.fCurrentBlockWasProduced
       /\ t.nBlockHeight = r.nBlockHeight /\ t.hashBlock = r.hashBlock
       /\ t.nHeightExitedReplay = r.nHeightExitedReplay
  BY <1>1, <1>7 DEF Registries
<1>11. QueueIsSound(t)
  <2>1. Size(t.queue) = Len(v) /\ t.queue.vStakerIDs = v /\ IDs(t) = IDs(r)
    BY <1>6, <1>10 DEF Size, IDs
  <2> QED
    BY <1>2, <1>4, <1>5, <1>6, <1>8, <1>10, <2>1 DEF QueueIsSound
<1>12. AllQualified(t)
  <2>1. \A s \in 0..(Len(v) - 1) : v[s + 1] \in S
    BY <1>4
  <2> QED
    BY <1>2, <1>6, <1>10, <2>1 DEF AllQualified, Size
<1>13. RegOK(t)
  BY <1>8, <1>9, <1>10, <1>11, <1>12 DEF RegOK, AllQualified, NoneDisqualifiedAhead
<1> QED
  BY <1>5, <1>6, <1>10, <1>12, <1>13 DEF Size

\* Moving on, the registry's clock goes to the slot that starts when the last one ends.
LEMMA MoveOnChanges ==
    ASSUME NEW r, RegOK(r), Size(r.queue) > 0, CanMoveOn(r)
    PROVE  LET t == MoveOn(r)
           IN  /\ RegOK(t)
               /\ Size(t.queue) > 0 /\ ~t.fCurrentBlockWasProduced
               /\ SlotStart(t.queue, t.queue.nCurrentSlot) = GetCurrentSlotEnd(r.queue) + 1
               /\ t.nIDCounter = r.nIDCounter /\ t.mapStakers = r.mapStakers
               /\ t.nBlockHeight = r.nBlockHeight /\ t.hashBlock = r.hashBlock
               /\ t.nHeightExitedReplay = r.nHeightExitedReplay
<1> DEFINE c == r.queue.nCurrentSlot
           k == Size(r.queue)
           t0 == r.queue.nSlotTime0
           f == FALSE
<1>1. /\ r \in Registries /\ c \in Nat /\ k \in Nat /\ t0 \in Nat /\ c < k
      /\ r.queue \in Queues /\ r.hashBlock \in Hashes
  <2>1. /\ r \in Registries /\ c \in Nat /\ t0 \in Nat /\ Len(r.queue.vStakerIDs) \in Nat
        /\ r.queue \in Queues /\ r.hashBlock \in Hashes
    BY DEF RegOK, Registries, Queues
  <2>2. c < Size(r.queue)
    BY DEF RegOK, QueueIsSound
  <2> QED
    BY <2>1, <2>2 DEF Size
<1>2. ASSUME NEW u, RegOK(u), Size(u.queue) > 0, NEW t, t = [u EXCEPT !.fCurrentBlockWasProduced = f],
             \A s \in 0..(Size(u.queue) - 1) :
                 s >= u.queue.nCurrentSlot => u.mapStakers[u.queue.vStakerIDs[s + 1]].fQualified
      PROVE  /\ RegOK(t) /\ ~t.fCurrentBlockWasProduced
             /\ t.queue = u.queue
             /\ t.nIDCounter = u.nIDCounter /\ t.mapStakers = u.mapStakers
             /\ t.nBlockHeight = u.nBlockHeight /\ t.hashBlock = u.hashBlock
             /\ t.nHeightExitedReplay = u.nHeightExitedReplay
  <2>1. f \in BOOLEAN
    OBVIOUS
  <2>2. u \in Registries
    BY <1>2 DEF RegOK
  <2>3. t.fCurrentBlockWasProduced = f
    <3> HIDE DEF f
    <3> QED
      BY <1>2, <2>2 DEF Registries
  <2>4. ~t.fCurrentBlockWasProduced
    BY <2>3
  <2> HIDE DEF f
  <2>5. /\ t \in Registries /\ t.queue = u.queue /\ t.nRound = u.nRound
        /\ t.nIDCounter = u.nIDCounter /\ t.mapStakers = u.mapStakers
        /\ t.powerRoundCurrent = u.powerRoundCurrent
        /\ t.nBlockHeight = u.nBlockHeight /\ t.hashBlock = u.hashBlock
        /\ t.nHeightExitedReplay = u.nHeightExitedReplay
    BY <1>2, <2>1, <2>2 DEF Registries
  <2>6. QueueIsSound(t)
    BY <1>2, <2>5 DEF RegOK, QueueIsSound, IDs
  <2>7. NoneDisqualifiedAhead(t)
    <3>1. u.queue.nCurrentSlot \in Nat
      BY <2>2 DEF Registries, Queues
    <3> QED
      BY <1>2, <2>5, <3>1 DEF NoneDisqualifiedAhead
  <2> QED
    BY <1>2, <2>4, <2>5, <2>6, <2>7 DEF RegOK
<1>3. CASE CanIncrementSlot(r.queue)
  <2> DEFINE d == c + 1
             q == [r.queue EXCEPT !.nCurrentSlot = d]
             u == [r EXCEPT !.queue = q]
  <2>1. d \in Nat /\ d < k
    BY <1>1, <1>3 DEF CanIncrementSlot
  <2>2. MoveOn(r) = [u EXCEPT !.fCurrentBlockWasProduced = f]
    BY <1>3, Zenon DEF MoveOn, IncrementSlot
  <2> HIDE DEF d
  <2>3. /\ q \in Queues /\ q.nCurrentSlot = d /\ q.vStakerIDs = r.queue.vStakerIDs
        /\ q.nSlotTime0 = t0
    BY <1>1, <2>1 DEF Queues
  <2> HIDE DEF q
  <2>4. /\ u \in Registries /\ u.queue = q /\ u.nRound = r.nRound
        /\ u.nIDCounter = r.nIDCounter /\ u.mapStakers = r.mapStakers
        /\ u.powerRoundCurrent = r.powerRoundCurrent
        /\ u.nBlockHeight = r.nBlockHeight /\ u.hashBlock = r.hashBlock
        /\ u.nHeightExitedReplay = r.nHeightExitedReplay
    BY SMTT(30), ZenonT(30), <1>1, <2>3 DEF Registries
  <2> HIDE DEF u
  <2>5. Size(u.queue) = k
    BY <2>3, <2>4 DEF Size
  <2>6. \A s \in 0..(k - 1) : s >= d => r.mapStakers[r.queue.vStakerIDs[s + 1]].fQualified
    BY <1>1, <2>1 DEF RegOK, NoneDisqualifiedAhead, d
  <2>7. QueueIsSound(u)
    BY <2>1, <2>3, <2>4, <2>5 DEF RegOK, QueueIsSound, IDs
  <2>8. NoneDisqualifiedAhead(u)
    BY <2>1, <2>3, <2>4, <2>5, <2>6 DEF NoneDisqualifiedAhead
  <2>9. RegOK(u)
    BY <2>4, <2>7, <2>8 DEF RegOK
  <2>10. SlotStart(u.queue, u.queue.nCurrentSlot) = GetCurrentSlotEnd(r.queue) + 1
    BY <1>1, <2>3, <2>4, SpacingAssumption DEF SlotStart, GetCurrentSlotEnd, SlotEnd, d
  <2> QED
    BY <1>2, <2>2, <2>3, <2>4, <2>5, <2>6, <2>9, <2>10
<1>4. CASE ~CanIncrementSlot(r.queue)
  <2> DEFINE n == GetMaxTime(r.queue) + 1
             u == NewQueue(r, n, r.hashBlock)
  <2>1. MoveOn(r) = [u EXCEPT !.fCurrentBlockWasProduced = f]
    BY <1>4, Zenon DEF MoveOn
  <2>2. n = t0 + QP_TARGET_SPACING * k /\ QP_TARGET_SPACING * k \in Nat
    BY <1>1, SpacingAssumption DEF GetMaxTime
  <2>3. c = k - 1
    BY <1>1, <1>4 DEF CanIncrementSlot
  <2>4. n \in Nat /\ n = GetCurrentSlotEnd(r.queue) + 1
    BY <1>1, <2>2, <2>3, SpacingAssumption DEF SlotStart, GetCurrentSlotEnd, SlotEnd
  <2> HIDE DEF n
  <2>5. EnabledIDs(r) # {}
    BY <1>4 DEF CanMoveOn
  <2>6. /\ RegOK(u) /\ Size(u.queue) > 0
        /\ u.queue.nCurrentSlot = 0 /\ u.queue.nSlotTime0 = n
        /\ u.nIDCounter = r.nIDCounter /\ u.mapStakers = r.mapStakers
        /\ u.nBlockHeight = r.nBlockHeight /\ u.hashBlock = r.hashBlock
        /\ u.nHeightExitedReplay = r.nHeightExitedReplay
        /\ AllQualified(u)
    <3>1. u = NewQueue(r, n, r.hashBlock) /\ r.hashBlock \in Hashes
      BY <1>1
    <3> HIDE DEF u
    <3> QED
      BY <2>4, <2>5, <3>1, NewQueueChanges
  <2> HIDE DEF u
  <2>7. SlotStart(u.queue, u.queue.nCurrentSlot) = n
    BY <2>4, <2>6, SpacingAssumption DEF SlotStart
  <2>8. /\ RegOK(MoveOn(r)) /\ ~MoveOn(r).fCurrentBlockWasProduced
        /\ MoveOn(r).queue = u.queue
        /\ MoveOn(r).nIDCounter = u.nIDCounter /\ MoveOn(r).mapStakers = u.mapStakers
        /\ MoveOn(r).nBlockHeight = u.nBlockHeight /\ MoveOn(r).hashBlock = u.hashBlock
        /\ MoveOn(r).nHeightExitedReplay = u.nHeightExitedReplay
    BY <1>2, <2>1, <2>6 DEF AllQualified
  <2> QED
    BY <2>4, <2>6, <2>7, <2>8
<1> QED
  BY <1>3, <1>4

-----------------------------------------------------------------------------
(* A block *)

\* Everything about the queue but the qualifications is as before.
SameSlots(r, t) ==
    /\ t.nIDCounter = r.nIDCounter
    /\ t.queue = r.queue
    /\ t.nRound = r.nRound
    /\ t.fCurrentBlockWasProduced = r.fCurrentBlockWasProduced
    /\ t.nBlockHeight = r.nBlockHeight
    /\ t.hashBlock = r.hashBlock
    /\ t.nHeightExitedReplay = r.nHeightExitedReplay

\* Replacing all statistics, disqualifying nobody.
LEMMA PutStakers ==
    ASSUME NEW r, RegOK(r), NEW m, StakersOK(m),
           \A i \in 1..MaxStakers : r.mapStakers[i].fQualified => m[i].fQualified,
           NEW t, t = [r EXCEPT !.mapStakers = m]
    PROVE  RegOK(t) /\ SameSlots(r, t)
<1>1. r \in Registries
  BY DEF RegOK
<1>2. t \in Registries
  BY ZenonT(40), <1>1 DEF Registries, StakersOK
<1>3. t.mapStakers = m /\ t.powerRoundCurrent = r.powerRoundCurrent /\ SameSlots(r, t)
  BY <1>1 DEF Registries, SameSlots
<1>4. QueueIsSound(t)
  BY <1>3 DEF RegOK, SameSlots, QueueIsSound, IDs
<1>5. NoneDisqualifiedAhead(t)
  BY <1>3, SlotInRange DEF RegOK, SameSlots, NoneDisqualifiedAhead
<1> QED
  BY <1>2, <1>3, <1>4, <1>5 DEF RegOK

\* The adjustments at the forks disqualify nobody.
LEMMA AdjustChanges ==
    ASSUME NEW r, RegOK(r), NEW h \in Nat, NEW t, t = AdjustForForks(r, h)
    PROVE  RegOK(t) /\ SameSlots(r, t)
<1> DEFINE m == r.mapStakers
           Both(s) == ResetDocked(IF s.fQualified THEN s ELSE Requalify(s))
           m1 == [i \in DOMAIN m |-> ResetDocked(m[i])]
           m2 == [i \in DOMAIN m |-> Both(m[i])]
<1>1. /\ DOMAIN m = 1..MaxStakers
      /\ \A i \in 1..MaxStakers : m[i] \in StakerStats /\ Accounted(m[i])
  BY ZenonT(40) DEF RegOK, StakersOK
<1>2. \A i \in 1..MaxStakers : GoodStats(ResetDocked(m[i])) /\ ResetDocked(m[i]).fQualified = m[i].fQualified
  <2> TAKE i \in 1..MaxStakers
  <2>1. m[i] \in StakerStats /\ Accounted(m[i]) /\ 0 \in Nat
    BY <1>1
  <2> HIDE DEF m
  <2> QED
    BY <2>1, ChangesGood
<1>3. \A i \in 1..MaxStakers : GoodStats(Both(m[i])) /\ (m[i].fQualified => Both(m[i]).fQualified)
  <2> TAKE i \in 1..MaxStakers
  <2>1. m[i] \in StakerStats /\ Accounted(m[i]) /\ 0 \in Nat
    BY <1>1
  <2>2. CASE m[i].fQualified
    <3>1. Both(m[i]) = ResetDocked(m[i])
      BY <2>2
    <3> QED
      BY <1>2, <2>2, <3>1
  <2>3. CASE ~m[i].fQualified
    <3> DEFINE s == Requalify(m[i])
    <3>1. Both(m[i]) = ResetDocked(s)
      BY <2>3
    <3>2. s \in StakerStats /\ Accounted(s)
      <4> HIDE DEF m
      <4> QED
        BY <2>1, ChangesGood DEF GoodStats
    <3> HIDE DEF s
    <3>3. GoodStats(ResetDocked(s))
      BY <2>1, <3>2, ChangesGood
    <3> QED
      BY <2>3, <3>1, <3>3
  <2> QED
    BY <2>2, <2>3
<1> HIDE DEF Both
<1>4. StakersOK(m1) /\ \A i \in 1..MaxStakers : m[i].fQualified => m1[i].fQualified
  BY <1>1, <1>2 DEF StakersOK, GoodStats
<1>5. StakersOK(m2) /\ \A i \in 1..MaxStakers : m[i].fQualified => m2[i].fQualified
  BY <1>1, <1>3 DEF StakersOK, GoodStats
<1>6. t = r \/ t = [r EXCEPT !.mapStakers = m1] \/ t = [r EXCEPT !.mapStakers = m2]
  BY Zenon DEF AdjustForForks, Both
<1> HIDE DEF m1, m2
<1>7. CASE t = r
  BY <1>7 DEF SameSlots
<1>8. CASE t = [r EXCEPT !.mapStakers = m1]
  BY <1>4, <1>8, PutStakers
<1>9. CASE t = [r EXCEPT !.mapStakers = m2]
  BY <1>5, <1>9, PutStakers
<1> QED
  BY <1>6, <1>7, <1>8, <1>9

\* Enabling and disabling by a transaction.
LEMMA StateChanges ==
    ASSUME NEW r, RegOK(r), NEW i \in IDs(r), NEW h \in Nat, NEW t,
           t = ApplyEnable(r, i) \/ t = ApplyDisable(r, i, h)
    PROVE  RegOK(t) /\ SameSlots(r, t)
<1>1. r \in Registries /\ StakersOK(r.mapStakers) /\ i \in 1..MaxStakers
  BY PowerAssumption DEF RegOK, Registries, IDs
<1>2. r.mapStakers[i] \in StakerStats /\ Accounted(r.mapStakers[i])
  BY Zenon, <1>1 DEF StakersOK
<1>3. /\ GoodStats(Enable(r.mapStakers[i]))
      /\ Enable(r.mapStakers[i]).fQualified = r.mapStakers[i].fQualified
      /\ GoodStats(Disable(r.mapStakers[i], h))
      /\ Disable(r.mapStakers[i], h).fQualified = r.mapStakers[i].fQualified
  BY <1>2, ChangesGood
<1>4. ASSUME NEW s, GoodStats(s), s.fQualified = r.mapStakers[i].fQualified,
             t = [r EXCEPT !.mapStakers[i] = s]
      PROVE  RegOK(t) /\ SameSlots(r, t)
  <2> DEFINE m == [r.mapStakers EXCEPT ![i] = s]
  <2>1. /\ StakersOK(m) /\ m[i] = s
        /\ \A j \in 1..MaxStakers : j # i => m[j] = r.mapStakers[j]
    BY <1>1, <1>4, StakersExcept DEF GoodStats
  <2>2. t = [r EXCEPT !.mapStakers = m]
    BY <1>4
  <2> HIDE DEF m
  <2>3. \A j \in 1..MaxStakers : r.mapStakers[j].fQualified => m[j].fQualified
    BY <1>4, <2>1
  <2> QED
    BY <2>1, <2>2, <2>3, PutStakers
<1>5. \/ t = r
      \/ t = [r EXCEPT !.mapStakers[i] = Enable(r.mapStakers[i])]
      \/ t = [r EXCEPT !.mapStakers[i] = Disable(r.mapStakers[i], h)]
  BY Zenon DEF ApplyEnable, ApplyDisable
<1>6. RegOK(r) /\ SameSlots(r, r)
  BY DEF SameSlots
<1> QED
  BY <1>3, <1>4, <1>5, <1>6

\* A purchase adds a qualified staker that the queue does not name yet.
LEMMA PurchaseChanges ==
    ASSUME NEW r, RegOK(r), r.nIDCounter < MaxStakers, NEW t, t = ApplyPurchase(r)
    PROVE  /\ RegOK(t) /\ t.queue = r.queue
           /\ t.fCurrentBlockWasProduced = r.fCurrentBlockWasProduced
           /\ t.nBlockHeight = r.nBlockHeight
           /\ t.nHeightExitedReplay = r.nHeightExitedReplay
<1> DEFINE n == r.nIDCounter + 1
           m == [r.mapStakers EXCEPT ![n] = Reset]
<1>1. /\ r \in Registries /\ StakersOK(r.mapStakers) /\ r.nIDCounter \in 1..MaxStakers
      /\ n \in 1..MaxStakers /\ r.nIDCounter <= n
  BY PowerAssumption DEF RegOK, Registries
<1>2. t = [r EXCEPT !.nIDCounter = n, !.mapStakers = m]
  BY DEF ApplyPurchase
<1> HIDE DEF n
<1>3. /\ StakersOK(m) /\ m[n] = Reset
      /\ \A j \in 1..MaxStakers : j # n => m[j] = r.mapStakers[j]
  BY <1>1, ResetGood, StakersExcept DEF GoodStats
<1> HIDE DEF m
<1>4. \A j \in 1..MaxStakers : r.mapStakers[j].fQualified => m[j].fQualified
  BY <1>3, ResetGood
<1>5. t \in Registries
  BY ZenonT(40), <1>1, <1>2, <1>3 DEF Registries, StakersOK
<1>6. /\ t.nIDCounter = n /\ t.mapStakers = m /\ t.queue = r.queue /\ t.nRound = r.nRound
      /\ t.powerRoundCurrent = r.powerRoundCurrent
      /\ t.fCurrentBlockWasProduced = r.fCurrentBlockWasProduced
      /\ t.nBlockHeight = r.nBlockHeight
      /\ t.nHeightExitedReplay = r.nHeightExitedReplay
  BY <1>1, <1>2 DEF Registries
<1>7. IDs(r) \subseteq IDs(t)
  BY <1>1, <1>6, PowerAssumption DEF IDs
<1>8. QueueIsSound(t)
  BY SMTT(30), ZenonT(30), <1>6, <1>7 DEF RegOK, QueueIsSound
<1>9. NoneDisqualifiedAhead(t)
  BY <1>4, <1>6, SlotInRange DEF RegOK, NoneDisqualifiedAhead
<1> QED
  BY <1>3, <1>5, <1>6, <1>8, <1>9 DEF RegOK

\* Counting a block: the statistics stay in order and only the producer can be
\* disqualified.
LEMMA ProducedChanges ==
    ASSUME NEW r, RegOK(r), NEW i \in IDs(r), NEW g \in BOOLEAN, NEW t,
           t = StakerProducedBlock(r, i, g)
    PROVE  /\ t \in Registries /\ StakersOK(t.mapStakers) /\ RoundOK(t.powerRoundCurrent)
           /\ \A j \in 1..MaxStakers : j # i => t.mapStakers[j] = r.mapStakers[j]
           /\ t.nIDCounter = r.nIDCounter /\ t.queue = r.queue /\ t.nRound = r.nRound
           /\ t.fCurrentBlockWasProduced
           /\ t.nHeightExitedReplay = r.nHeightExitedReplay
<1> DEFINE s == ProducedBlock(r.mapStakers[i], r.fPrevBlockWasProduced)
           e == PowerElement(r, i, TRUE)
           p == Append(r.powerRoundCurrent, e)
           u == [r EXCEPT !.powerRoundCurrent = p, !.mapStakers[i] = s]
           d == Disqualify(s)
           f == TRUE
<1>1. /\ r \in Registries /\ StakersOK(r.mapStakers) /\ i \in 1..MaxStakers
      /\ r.fPrevBlockWasProduced \in BOOLEAN
  BY PowerAssumption DEF RegOK, Registries, IDs
<1>2. r.mapStakers[i] \in StakerStats /\ Accounted(r.mapStakers[i])
  BY Zenon, <1>1 DEF StakersOK
<1>3. s \in StakerStats /\ Accounted(s)
  BY <1>1, <1>2, ProducedGood DEF GoodStats
<1>4. e \in PowerElements /\ e.nWeight > 0
  BY Zenon, <1>1, PowerElementOK
<1>5. RoundOK(p)
  <2> HIDE DEF e
  <2> QED
    BY <1>4, RoundAppend DEF RegOK
<1>6. d \in StakerStats /\ Accounted(d)
  <2>1. 0 \in Nat
    OBVIOUS
  <2> HIDE DEF s
  <2> QED
    BY <1>3, <2>1, ChangesGood DEF GoodStats
<1>7. u.mapStakers[i] = s
  <2> HIDE DEF s, p
  <2> QED
    BY Zenon, <1>1 DEF Registries
<1>8. \E w \in {u, [u EXCEPT !.mapStakers[i] = d]} :
         t = [w EXCEPT !.fCurrentBlockWasProduced = f, !.fPrevBlockWasProduced = f]
  <2>1. \/ DisqualifyStakerIfNecessary(u, i, g) = u
        \/ DisqualifyStakerIfNecessary(u, i, g) = [u EXCEPT !.mapStakers[i] = d]
    <3>1. \/ DisqualifyStakerIfNecessary(u, i, g) = u
          \/ DisqualifyStakerIfNecessary(u, i, g)
               = [u EXCEPT !.mapStakers[i] = Disqualify(u.mapStakers[i])]
      <4> HIDE DEF u
      <4> QED
        BY Zenon DEF DisqualifyStakerIfNecessary
    <3> HIDE DEF u
    <3> QED
      BY <1>7, <3>1
  <2>2. \/ t = [u EXCEPT !.fCurrentBlockWasProduced = f, !.fPrevBlockWasProduced = f]
        \/ t = [DisqualifyStakerIfNecessary(u, i, g)
                  EXCEPT !.fCurrentBlockWasProduced = f, !.fPrevBlockWasProduced = f]
    BY Zenon DEF StakerProducedBlock
  <2> HIDE DEF u, d
  <2> QED
    BY Zenon, <2>1, <2>2
<1>9. f \in BOOLEAN
  OBVIOUS
<1>10. /\ u \in Registries /\ StakersOK(u.mapStakers) /\ u.powerRoundCurrent = p
       /\ \A j \in 1..MaxStakers : j # i => u.mapStakers[j] = r.mapStakers[j]
       /\ u.nIDCounter = r.nIDCounter /\ u.queue = r.queue /\ u.nRound = r.nRound
       /\ u.nHeightExitedReplay = r.nHeightExitedReplay
  <2> DEFINE m == [r.mapStakers EXCEPT ![i] = s]
  <2> HIDE DEF s, p
  <2>1. StakersOK(m) /\ \A j \in 1..MaxStakers : j # i => m[j] = r.mapStakers[j]
    BY <1>1, <1>3, StakersExcept
  <2>2. u = [r EXCEPT !.powerRoundCurrent = p, !.mapStakers = m]
    OBVIOUS
  <2> HIDE DEF m, u
  <2>3. u \in Registries
    BY Zenon, <1>1, <1>5, <2>1, <2>2 DEF Registries, StakersOK, RoundOK
  <2>4. /\ u.mapStakers = m /\ u.powerRoundCurrent = p
        /\ u.nIDCounter = r.nIDCounter /\ u.queue = r.queue /\ u.nRound = r.nRound
        /\ u.nHeightExitedReplay = r.nHeightExitedReplay
    BY <1>1, <2>2 DEF Registries
  <2> QED
    BY <2>1, <2>3, <2>4
<1>11. PICK w \in {u, [u EXCEPT !.mapStakers[i] = d]} :
         t = [w EXCEPT !.fCurrentBlockWasProduced = f, !.fPrevBlockWasProduced = f]
  BY Zenon, <1>8
<1> HIDE DEF s, p, u, d
<1>12. /\ w \in Registries /\ StakersOK(w.mapStakers) /\ w.powerRoundCurrent = p
       /\ \A j \in 1..MaxStakers : j # i => w.mapStakers[j] = r.mapStakers[j]
       /\ w.nIDCounter = r.nIDCounter /\ w.queue = r.queue /\ w.nRound = r.nRound
       /\ w.nHeightExitedReplay = r.nHeightExitedReplay
  <2>1. CASE w = u
    BY <1>10, <2>1
  <2>2. CASE w = [u EXCEPT !.mapStakers[i] = d]
    <3> DEFINE m == [u.mapStakers EXCEPT ![i] = d]
    <3>1. StakersOK(m) /\ \A j \in 1..MaxStakers : j # i => m[j] = u.mapStakers[j]
      BY <1>1, <1>6, <1>10, StakersExcept
    <3>2. w = [u EXCEPT !.mapStakers = m]
      BY <2>2
    <3> HIDE DEF m
    <3>3. w \in Registries
      BY Zenon, <1>10, <3>1, <3>2 DEF Registries, StakersOK
    <3>4. /\ w.mapStakers = m /\ w.powerRoundCurrent = u.powerRoundCurrent
          /\ w.nIDCounter = u.nIDCounter /\ w.queue = u.queue /\ w.nRound = u.nRound
          /\ w.nHeightExitedReplay = u.nHeightExitedReplay
      BY <1>10, <3>2 DEF Registries
    <3> QED
      BY <1>10, <3>1, <3>3, <3>4
  <2> QED
    BY <1>11, <2>1, <2>2
<1>13. f
  BY DEF f
<1> HIDE DEF f
<1>14. t \in Registries
  BY Zenon, <1>9, <1>11, <1>12 DEF Registries
<1>15. /\ t.mapStakers = w.mapStakers /\ t.powerRoundCurrent = w.powerRoundCurrent
       /\ t.nIDCounter = w.nIDCounter /\ t.queue = w.queue /\ t.nRound = w.nRound
       /\ t.nHeightExitedReplay = w.nHeightExitedReplay
  BY <1>11, <1>12 DEF Registries
<1>16. t.fCurrentBlockWasProduced = f
  BY <1>11, <1>12 DEF Registries
<1> QED
  BY SMTT(30), ZenonT(30), <1>5, <1>12, <1>13, <1>14, <1>15, <1>16

\* GetSlotForID returns a slot of the staker.
LEMMA SlotForID ==
    ASSUME NEW q \in Queues, NEW i, HasSlotForID(q, i)
    PROVE  GetSlotForID(q, i) \in SlotsOf(q, i)
<1>1. SlotsOf(q, i) \in SUBSET Nat
  BY DEF SlotsOf
<1>2. SlotsOf(q, i) # {}
  BY DEF HasSlotForID
<1>3. \E s \in SlotsOf(q, i) : \A u \in SlotsOf(q, i) : s <= u
  BY <1>1, <1>2, LeastNat
<1> QED
  BY <1>3 DEF GetSlotForID

\* The bit of a slot exists.
LEMMA BitIsNat ==
    ASSUME NEW q \in Queues, NEW s \in Nat
    PROVE  BitForSlot(q, s) \in Nat
<1> DEFINE k == Size(q)
<1>1. k \in Nat
  BY DEF Queues, Size
<1>2. BitForSlot(q, s) = s + 8 * ((k + 7) \div 8) - k
  BY DEF BitForSlot, StatsBits
<1> HIDE DEF k
<1>3. 8 * ((k + 7) \div 8) >= k /\ (k + 7) \div 8 \in Nat
  BY <1>1, SMT
<1> QED
  BY <1>1, <1>2, <1>3

\* What a qPoS block does to the registry: the slots still ahead stay qualified, since
\* the producer has no other slot in the queue.
LEMMA ProduceChanges ==
    ASSUME NEW r, RegOK(r), NEW i, CanProduce(r, i), NEW h \in Nat, NEW hash \in Hashes,
           NEW g \in BOOLEAN, NEW t, t = Produce(r, i, h, hash, g)
    PROVE  /\ RegOK(t) /\ t.fCurrentBlockWasProduced
           /\ t.queue.nSlotTime0 = r.queue.nSlotTime0
           /\ t.queue.nCurrentSlot = r.queue.nCurrentSlot
           /\ t.queue.vStakerIDs = r.queue.vStakerIDs
           /\ t.nBlockHeight = h
           /\ t.nHeightExitedReplay = r.nHeightExitedReplay
<1> DEFINE c == r.queue.nCurrentSlot
<1>1. /\ r \in Registries /\ StakersOK(r.mapStakers) /\ r.queue \in Queues
      /\ c \in Nat /\ Size(r.queue) \in Nat
  BY DEF RegOK, Registries, Queues, Size
<1>2. c \in SlotsOf(r.queue, i)
  BY <1>1, SlotForID DEF CanProduce
<1>3. c \in 0..(Size(r.queue) - 1) /\ r.queue.vStakerIDs[c + 1] = i
  BY <1>2 DEF SlotsOf
<1>4. i \in IDs(r) /\ i \in 1..MaxStakers
  BY <1>3, SlotInRange
<1> DEFINE u == StakerProducedBlock(r, i, g)
           b == r.queue.vchBlockStats \cup {BitForSlot(r.queue, c)}
           q == [r.queue EXCEPT !.vchBlockStats = b]
           m == [j \in DOMAIN u.mapStakers |-> IF j \in IDs(r) /\ u.mapStakers[j].fQualified
                                               THEN SawBlock(u.mapStakers[j])
                                               ELSE u.mapStakers[j]]
<1>5. /\ u \in Registries /\ StakersOK(u.mapStakers) /\ RoundOK(u.powerRoundCurrent)
      /\ \A j \in 1..MaxStakers : j # i => u.mapStakers[j] = r.mapStakers[j]
      /\ u.nIDCounter = r.nIDCounter /\ u.queue = r.queue /\ u.nRound = r.nRound
      /\ u.fCurrentBlockWasProduced
      /\ u.nHeightExitedReplay = r.nHeightExitedReplay
  <2>1. u = StakerProducedBlock(r, i, g)
    OBVIOUS
  <2> HIDE DEF u
  <2> QED
    BY <1>4, <2>1, ProducedChanges
<1>6. t = [u EXCEPT !.queue = SlotProduced(u.queue, u.queue.nCurrentSlot), !.mapStakers = m,
                    !.nBlockHeight = h, !.hashBlock = hash]
  BY Zenon DEF Produce
<1> HIDE DEF u
<1>7. SlotProduced(u.queue, u.queue.nCurrentSlot) = q
  BY <1>5 DEF SlotProduced
<1>8. StakersOK(m) /\ \A j \in 1..MaxStakers : m[j].fQualified = u.mapStakers[j].fQualified
  <2>1. ASSUME NEW j \in 1..MaxStakers
        PROVE  /\ m[j] \in StakerStats /\ Accounted(m[j])
               /\ m[j].fQualified = u.mapStakers[j].fQualified
    <3> DEFINE s == u.mapStakers[j]
    <3>1. s \in StakerStats /\ Accounted(s) /\ j \in DOMAIN u.mapStakers /\ 0 \in Nat
      BY ZenonT(40), <1>5 DEF StakersOK
    <3>2. m[j] = SawBlock(s) \/ m[j] = s
      BY <3>1
    <3> HIDE DEF s, m
    <3>3. GoodStats(SawBlock(s)) /\ SawBlock(s).fQualified = s.fQualified
      BY <3>1, ChangesGood
    <3> QED
      BY <3>1, <3>2, <3>3 DEF GoodStats, s
  <2>2. DOMAIN u.mapStakers = 1..MaxStakers
    BY <1>5 DEF StakersOK
  <2> QED
    BY ZenonT(40), <2>1, <2>2 DEF StakersOK
<1>9. /\ q \in Queues /\ q.nSlotTime0 = r.queue.nSlotTime0
      /\ q.nCurrentSlot = c /\ q.vStakerIDs = r.queue.vStakerIDs
  <2>1. b \in SUBSET Nat
    BY <1>1, BitIsNat DEF Queues
  <2> HIDE DEF b
  <2> QED
    BY <1>1, <2>1 DEF Queues
<1> HIDE DEF m, q
<1>10. t \in Registries
  BY ZenonT(40), <1>5, <1>6, <1>7, <1>8, <1>9 DEF Registries, StakersOK
<1>11. /\ t.queue = q /\ t.mapStakers = m /\ t.nBlockHeight = h
       /\ t.powerRoundCurrent = u.powerRoundCurrent
       /\ t.nIDCounter = u.nIDCounter /\ t.nRound = u.nRound
       /\ t.fCurrentBlockWasProduced = u.fCurrentBlockWasProduced
       /\ t.nHeightExitedReplay = u.nHeightExitedReplay
  BY Zenon, <1>5, <1>6, <1>7 DEF Registries
<1>12. Size(t.queue) = Size(r.queue) /\ IDs(t) = IDs(r)
  BY <1>5, <1>9, <1>11 DEF Size, IDs
<1>13. QueueIsSound(t)
  <2>1. QueueIsSound(r)
    BY SMTT(30), ZenonT(30) DEF RegOK
  <2>2. /\ t.queue.vStakerIDs = r.queue.vStakerIDs
        /\ t.queue.nCurrentSlot = r.queue.nCurrentSlot
        /\ t.nRound = r.nRound
    BY <1>5, <1>9, <1>11
  <2> QED
    BY <1>12, <2>1, <2>2 DEF QueueIsSound
<1>14. NoneDisqualifiedAhead(t)
  <2> SUFFICES ASSUME NEW s \in 0..(Size(r.queue) - 1), s > c
               PROVE  m[r.queue.vStakerIDs[s + 1]].fQualified
    BY ZenonT(40), <1>5, <1>9, <1>11, <1>12 DEF NoneDisqualifiedAhead
  <2> DEFINE j == r.queue.vStakerIDs[s + 1]
  <2>1. j \in 1..MaxStakers
    BY SMTT(30), ZenonT(30), SlotInRange
  <2>2. j # i
    <3>1. s + 1 \in 1..Size(r.queue) /\ c + 1 \in 1..Size(r.queue) /\ s + 1 # c + 1
      BY SMTT(30), ZenonT(30), <1>1, <1>3
    <3> QED
      BY SMTT(30), ZenonT(30), <1>3, <3>1 DEF RegOK, QueueIsSound
  <2>3. r.mapStakers[j].fQualified
    BY DEF RegOK, NoneDisqualifiedAhead
  <2> HIDE DEF j
  <2>4. m[j].fQualified
    BY <1>5, <1>8, <2>1, <2>2, <2>3
  <2> QED
    BY <2>4 DEF j
<1> QED
  BY SMTT(30), ZenonT(30), <1>5, <1>8, <1>9, <1>10, <1>11, <1>13, <1>14 DEF RegOK

\* One iteration of the loop of UpdateOnNewTime.
LEMMA AdvanceChanges ==
    ASSUME NEW r, RegOK(r), Size(r.queue) > 0, NEW h \in Nat, NEW n \in Nat,
           CanMoveOn(PassSlot(r, h, n)),
           NEW t, t = JudgePower(MoveOn(PassSlot(r, h, n)))
    PROVE  /\ RegOK(t) /\ Size(t.queue) > 0 /\ ~t.fCurrentBlockWasProduced
           /\ SlotStart(t.queue, t.queue.nCurrentSlot) = GetCurrentSlotEnd(r.queue) + 1
           /\ t.nBlockHeight = r.nBlockHeight
           /\ ~r.fCurrentBlockWasProduced /\ h < ForkQPoS
                => t.nHeightExitedReplay = r.nBlockHeight
           /\ \/ EnabledIDs(t) = EnabledIDs(r)
              \/ /\ GetNumberEnabled(r) > MinEnabled
                 /\ \E i \in IDs(r) : EnabledIDs(t) = EnabledIDs(r) \ {i}
<1> DEFINE p == PassSlot(r, h, n)
           m == MoveOn(p)
<1>1. /\ RegOK(p) /\ SameQueue(r, p)
      /\ \/ EnabledIDs(p) = EnabledIDs(r)
         \/ /\ GetNumberEnabled(r) > MinEnabled
            /\ \E i \in IDs(r) : EnabledIDs(p) = EnabledIDs(r) \ {i}
      /\ ~r.fCurrentBlockWasProduced /\ h < ForkQPoS
           => p.nHeightExitedReplay = r.nBlockHeight
  BY PassSlotChanges
<1>2. CanMoveOn(p) /\ t = JudgePower(m)
  OBVIOUS
<1> HIDE DEF p
<1>3. Size(p.queue) > 0
  BY SMTT(30), ZenonT(30), <1>1 DEF SameQueue
<1>4. /\ RegOK(m) /\ Size(m.queue) > 0 /\ ~m.fCurrentBlockWasProduced
      /\ SlotStart(m.queue, m.queue.nCurrentSlot) = GetCurrentSlotEnd(p.queue) + 1
      /\ m.nIDCounter = p.nIDCounter /\ m.mapStakers = p.mapStakers
      /\ m.nBlockHeight = p.nBlockHeight
      /\ m.nHeightExitedReplay = p.nHeightExitedReplay
  BY SMTT(30), ZenonT(30), <1>1, <1>2, <1>3, MoveOnChanges
<1> HIDE DEF m
<1>5. /\ t \in Registries /\ SameRounds(m, t)
      /\ t.nHeightExitedReplay \in {m.nHeightExitedReplay, m.nBlockHeight}
  BY <1>2, <1>4, JudgePowerChanges DEF RegOK
<1>6. RegOK(t)
  BY SMTT(30), ZenonT(30), <1>4, <1>5, SameRoundsOK
<1>7. EnabledIDs(t) = EnabledIDs(p)
  BY <1>4, <1>5 DEF EnabledIDs, IDs, SameRounds
<1>8. /\ t.queue = m.queue /\ p.queue = r.queue /\ t.nBlockHeight = r.nBlockHeight
      /\ t.fCurrentBlockWasProduced = m.fCurrentBlockWasProduced
      /\ m.nBlockHeight = r.nBlockHeight
  BY Zenon, <1>1, <1>4, <1>5 DEF SameRounds, SameQueue
<1> QED
  BY ZenonT(40), <1>1, <1>4, <1>5, <1>6, <1>7, <1>8

=============================================================================
