--------------------------- MODULE QPStakerProofs ----------------------------
(***************************************************************************)
(* A staker's statistics stay in order, and its weight is positive, which  *)
(* needs that integer square roots exist.                                  *)
(***************************************************************************)
EXTENDS QPStaker, TLAPS, WellFoundedInduction

\* A set of natural numbers that is not empty has a least element.
LEMMA LeastNat ==
    ASSUME NEW T \in SUBSET Nat, T # {}
    PROVE  \E a \in T : \A b \in T : a <= b
<1> DEFINE R == OpToRel(<, Nat)
<1>1. IsWellFoundedOn(R, Nat)
  BY NatLessThanWellFounded
<1>2. \A a, b \in Nat : b < a => << b, a >> \in R
  BY DEF OpToRel
<1> HIDE DEF R
<1>3. PICK a \in T : \A b \in T : ~(<< b, a >> \in R)
  BY <1>1, WFMin
<1>4. \A b \in T : ~(b < a)
  BY <1>2, <1>3
<1>5. \A b \in T : a <= b
  BY <1>4
<1> QED
  BY <1>5

\* Every number has an integer square root: the least number whose successor's square is
\* above it.
LEMMA RootExists ==
    ASSUME NEW n \in Nat
    PROVE  \E r \in 0..n : r * r <= n /\ n < (r + 1) * (r + 1)
<1> DEFINE T == {k \in Nat : n < (k + 1) * (k + 1)}
<1>1. n \in T
  <2>1. (n + 1) * (n + 1) = n * n + 2 * n + 1 /\ n * n >= 0
    BY SMT
  <2> QED
    BY <2>1, SMT
<1>2. PICK r \in T : \A k \in T : r <= k
  BY <1>1, LeastNat
<1>3. r \in 0..n
  BY <1>1, <1>2, SMT
<1>4. r * r <= n
  <2>1. CASE r = 0
    BY <2>1, SMT
  <2>2. CASE r > 0
    <3>1. r - 1 \notin T
      BY <1>2, <2>2, SMT
    <3>2. r - 1 \in Nat /\ (r - 1) + 1 = r
      BY <1>2, <2>2, SMT
    <3> QED
      BY <3>1, <3>2, SMT
  <2> QED
    BY <1>2, <2>1, <2>2, SMT
<1> QED
  BY <1>2, <1>3, <1>4

-----------------------------------------------------------------------------
(* The square root of the weights *)

\* uisqrt is positive where its argument is.
LEMMA RootIsPositive ==
    ASSUME NEW n \in Nat \ {0}
    PROVE  uisqrt(n) \in Nat \ {0}
<1>1. uisqrt(n) \in 0..n /\ n < (uisqrt(n) + 1) * (uisqrt(n) + 1)
  BY Zenon, RootExists DEF uisqrt
<1>2. uisqrt(n) # 0
  BY <1>1, SMT
<1> QED
  BY <1>1, <1>2, SMT

-----------------------------------------------------------------------------
(* A staker's statistics *)

\* Every slot of the staker was produced or missed; it was docked for missed ones only.
Accounted(s) ==
    /\ s.nBlocksAssigned = s.nBlocksProduced + s.nBlocksMissed
    /\ s.nBlocksDocked <= s.nBlocksMissed

GoodStats(s) == s \in StakerStats /\ Accounted(s)

\* Shifting a slot into a bitset gives a bitset.
LEMMA ShiftInType ==
    ASSUME NEW bits \in RecentBlocks, NEW b \in BOOLEAN
    PROVE  ShiftIn(bits, b) \in RecentBlocks
  BY StakerAssumption DEF ShiftIn, RecentBlocks

\* A new staker's statistics are in order.
LEMMA ResetGood == GoodStats(Reset) /\ Reset.fQualified
  BY DEF GoodStats, Accounted, Reset, StakerStats, AllProduced, RecentBlocks

\* A slot of the previous staker changes only what is recorded about such slots.
LEMMA UpdatePrevGood ==
    ASSUME NEW s \in StakerStats, Accounted(s), NEW f \in BOOLEAN
    PROVE  /\ GoodStats(UpdatePrevRecentBlocks(s, f))
           /\ UpdatePrevRecentBlocks(s, f).fQualified = s.fQualified
           /\ UpdatePrevRecentBlocks(s, f).nHeightDisabled = s.nHeightDisabled
<1> DEFINE bits == ShiftIn(s.bPrevRecentBlocks, f)
           m == IF f THEN s.nPrevBlocksMissed ELSE s.nPrevBlocksMissed + 1
<1>1. bits \in RecentBlocks
  BY ShiftInType DEF StakerStats
<1>2. m \in Nat
  BY DEF StakerStats
<1>3. UpdatePrevRecentBlocks(s, f) = [s EXCEPT !.bPrevRecentBlocks = bits, !.nPrevBlocksMissed = m]
  BY DEF UpdatePrevRecentBlocks
<1> HIDE DEF bits, m
<1> QED
  BY Zenon, <1>1, <1>2, <1>3 DEF GoodStats, Accounted, StakerStats

\* Producing a block keeps the accounts and neither enables nor disqualifies.
LEMMA ProducedGood ==
    ASSUME NEW s \in StakerStats, Accounted(s), NEW f \in BOOLEAN
    PROVE  /\ GoodStats(ProducedBlock(s, f))
           /\ ProducedBlock(s, f).fQualified = s.fQualified
           /\ ProducedBlock(s, f).nHeightDisabled = s.nHeightDisabled
<1> DEFINE p == s.nBlocksProduced + 1
           a == s.nBlocksAssigned + 1
           bits == ShiftIn(s.bRecentBlocks, TRUE)
           t == [s EXCEPT !.nBlocksProduced = p, !.nBlocksAssigned = a, !.bRecentBlocks = bits]
<1>1. bits \in RecentBlocks
  BY Zenon, ShiftInType DEF StakerStats
<1>2. p \in Nat /\ a \in Nat /\ a = p + s.nBlocksMissed
  BY DEF StakerStats, Accounted
<1>3. ProducedBlock(s, f) = UpdatePrevRecentBlocks(t, f)
  BY DEF ProducedBlock
<1> HIDE DEF p, a, bits
<1>4. t \in StakerStats
  BY Zenon, <1>1, <1>2 DEF StakerStats
<1>5. Accounted(t) /\ t.fQualified = s.fQualified /\ t.nHeightDisabled = s.nHeightDisabled
  BY <1>2 DEF StakerStats, Accounted
<1> HIDE DEF t
<1> QED
  BY <1>3, <1>4, <1>5, UpdatePrevGood

\* So does missing one.
LEMMA MissedGood ==
    ASSUME NEW s \in StakerStats, Accounted(s), NEW f \in BOOLEAN, NEW fDock \in BOOLEAN
    PROVE  /\ GoodStats(MissedBlock(s, f, fDock))
           /\ MissedBlock(s, f, fDock).fQualified = s.fQualified
           /\ MissedBlock(s, f, fDock).nHeightDisabled = s.nHeightDisabled
<1> DEFINE a == s.nBlocksAssigned + 1
           m == s.nBlocksMissed + 1
           d == IF fDock THEN s.nBlocksDocked + 1 ELSE s.nBlocksDocked
           bits == ShiftIn(s.bRecentBlocks, FALSE)
           t == [s EXCEPT !.nBlocksAssigned = a, !.nBlocksMissed = m,
                          !.nBlocksDocked = d, !.bRecentBlocks = bits]
<1>1. bits \in RecentBlocks
  BY Zenon, ShiftInType DEF StakerStats
<1>2. /\ a \in Nat /\ m \in Nat /\ d \in Nat
      /\ a = s.nBlocksProduced + m /\ d <= m
  BY DEF StakerStats, Accounted
<1>3. MissedBlock(s, f, fDock) = UpdatePrevRecentBlocks(t, f)
  BY DEF MissedBlock
<1> HIDE DEF a, m, d, bits
<1>4. t \in StakerStats
  BY Zenon, <1>1, <1>2 DEF StakerStats
<1>5. Accounted(t) /\ t.fQualified = s.fQualified /\ t.nHeightDisabled = s.nHeightDisabled
  BY <1>2 DEF StakerStats, Accounted
<1> HIDE DEF t
<1> QED
  BY <1>3, <1>4, <1>5, UpdatePrevGood

\* The other changes of a staker keep its statistics in order.
LEMMA ChangesGood ==
    ASSUME NEW s \in StakerStats, Accounted(s), NEW h \in Nat
    PROVE  /\ GoodStats(SawBlock(s)) /\ SawBlock(s).fQualified = s.fQualified
           /\ GoodStats(Enable(s)) /\ Enable(s).fQualified = s.fQualified
           /\ GoodStats(Disable(s, h)) /\ Disable(s, h).fQualified = s.fQualified
           /\ GoodStats(Disqualify(s))
           /\ GoodStats(ResetDocked(s)) /\ ResetDocked(s).fQualified = s.fQualified
           /\ GoodStats(Requalify(s)) /\ Requalify(s).fQualified
<1>1. HeightDisqualified \in Int
  BY SMT DEF HeightDisqualified
<1>2. GoodStats(SawBlock(s)) /\ SawBlock(s).fQualified = s.fQualified
  BY DEF GoodStats, Accounted, StakerStats, SawBlock
<1>3. GoodStats(Enable(s)) /\ Enable(s).fQualified = s.fQualified
  BY DEF GoodStats, Accounted, StakerStats, Enable
<1>4. GoodStats(Disable(s, h)) /\ Disable(s, h).fQualified = s.fQualified
  BY DEF GoodStats, Accounted, StakerStats, Disable
<1>5. GoodStats(Disqualify(s))
  BY Zenon, <1>1 DEF GoodStats, Accounted, StakerStats, Disqualify
<1>6. GoodStats(ResetDocked(s)) /\ ResetDocked(s).fQualified = s.fQualified
  BY DEF GoodStats, Accounted, StakerStats, ResetDocked
<1>7. GoodStats(Requalify(s)) /\ Requalify(s).fQualified
  <2> DEFINE z == 0
  <2>1. Requalify(s) = [s EXCEPT !.nHeightDisabled = z, !.fQualified = TRUE]
    BY DEF Requalify
  <2>2. z \in Int
    OBVIOUS
  <2> HIDE DEF z
  <2>3. GoodStats(Requalify(s))
    BY ZenonT(40), <2>1, <2>2 DEF GoodStats, Accounted, StakerStats
  <2>4. Requalify(s).fQualified
    BY <2>1 DEF StakerStats
  <2> QED
    BY <2>3, <2>4
<1> QED
  BY <1>2, <1>3, <1>4, <1>5, <1>6, <1>7

\* The weight of a staker with a positive seniority is positive.
LEMMA WeightIsPositive ==
    ASSUME NEW s \in StakerStats, Accounted(s), NEW k \in Nat \ {0}
    PROVE  GetWeight(s, k) \in Nat \ {0}
<1>1. GetNetBlocks(s) \in Nat
  BY DEF GetNetBlocks, GoodStats, StakerStats
<1>2. k * k \in Nat /\ k * k > 0
  BY SMT
<1>3. GetNetBlocks(s) + k * k \in Nat \ {0}
  BY <1>1, <1>2, SMT
<1> QED
  BY <1>3, RootIsPositive DEF GetWeight

=============================================================================
