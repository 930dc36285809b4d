--------------------------- MODULE QPLedgerProofs ---------------------------
(***************************************************************************)
(* Proofs about QPLedger for every set of keys, every number of stakers    *)
(* and every bound.                                                        *)
(***************************************************************************)
EXTENDS QPLedger, FiniteSetTheorems, TLAPS

DomainsOK(l) ==
    /\ DOMAIN l.mapActive = DOMAIN l.mapBalances
    /\ DOMAIN l.mapBalances \subseteq DOMAIN l.mapLastClaim

NonNegative(l) == \A k \in DOMAIN l.mapBalances : l.mapBalances[k] >= 0

LedgerOK(l) == LedgerType(l) /\ DomainsOK(l) /\ NonNegative(l)

\* From l to r the claim clock of a key is kept or restarted at t.
ClockKept(l, r, t) ==
    /\ DOMAIN l.mapLastClaim \subseteq DOMAIN r.mapLastClaim
    /\ \A x \in DOMAIN r.mapLastClaim :
          \/ r.mapLastClaim[x] = t
          \/ x \in DOMAIN l.mapLastClaim /\ r.mapLastClaim[x] = l.mapLastClaim[x]

\* From l to r no key loses balance that is referenced in both.
BalanceKept(l, r) ==
    \A x \in Keys :
        Lookup(l.mapActive, x) > 0 /\ Lookup(r.mapActive, x) > 0 =>
            /\ x \in DOMAIN l.mapBalances /\ x \in DOMAIN r.mapBalances
            /\ r.mapBalances[x] >= l.mapBalances[x]

-----------------------------------------------------------------------------
(* Ledger operations *)

\* Activating a key adds one reference to it and to no other key.
LEMMA ActivateCounts ==
    ASSUME NEW l, LedgerType(l), NEW key \in Keys, NEW t \in Nat
    PROVE  \A x \in Keys :
              Lookup(ActivatePubKey(l, key, t).mapActive, x)
                 = Lookup(l.mapActive, x) + (IF x = key THEN 1 ELSE 0)
<1> DEFINE n == Lookup(l.mapActive, key)
           a == Assign(l.mapActive, key, n + 1)
<1>1. IsMap(l.mapActive, Keys, Nat)
  BY DEF LedgerType
<1>2. n \in Nat /\ n + 1 \in Nat
  BY <1>1 DEF IsMap, Lookup
<1>3. /\ DOMAIN a = DOMAIN l.mapActive \cup {key}
      /\ a[key] = n + 1
      /\ \A x \in DOMAIN l.mapActive : x # key => a[x] = l.mapActive[x]
  <2> HIDE DEF n
  <2> QED BY <1>1, <1>2 DEF Assign, IsMap
<1>4. ActivatePubKey(l, key, t).mapActive = a
  BY DEF ActivatePubKey
<1>5. \A x \in Keys : Lookup(l.mapActive, x) \in Nat
  BY <1>1 DEF IsMap, Lookup
<1> HIDE DEF a
<1>6. ASSUME NEW x \in Keys
      PROVE  Lookup(a, x) = Lookup(l.mapActive, x) + (IF x = key THEN 1 ELSE 0)
  <2>1. CASE x = key
    BY <2>1, <1>3 DEF Lookup
  <2>2. CASE x # key
    BY <2>2, <1>3, <1>5 DEF Lookup
  <2> QED BY <2>1, <2>2
<1> QED BY <1>4, <1>6

\* Activation keeps the ledger well formed.
LEMMA ActivateOK ==
    ASSUME NEW l, LedgerOK(l), NEW key \in Keys, NEW t \in Nat
    PROVE  LedgerOK(ActivatePubKey(l, key, t))
<1> DEFINE n == Lookup(l.mapActive, key)
           r == ActivatePubKey(l, key, t)
<1>1. /\ IsMap(l.mapActive, Keys, Nat)
      /\ IsMap(l.mapBalances, Keys, Int)
      /\ IsMap(l.mapLastClaim, Keys, Nat)
  BY DEF LedgerOK, LedgerType
<1>2. n \in Nat /\ n + 1 \in Nat
  BY <1>1 DEF IsMap, Lookup
<1>3. /\ r = [mapActive |-> r.mapActive, mapBalances |-> r.mapBalances,
              mapLastClaim |-> r.mapLastClaim]
      /\ r.mapActive = Assign(l.mapActive, key, n + 1)
      /\ r.mapBalances = IF n = 0 THEN Assign(l.mapBalances, key, 0) ELSE l.mapBalances
      /\ r.mapLastClaim = IF n = 0 THEN Assign(l.mapLastClaim, key, t) ELSE l.mapLastClaim
  BY DEF ActivatePubKey
<1> HIDE DEF n, r
<1>4. /\ IsMap(r.mapActive, Keys, Nat)
      /\ DOMAIN r.mapActive = DOMAIN l.mapActive \cup {key}
  BY <1>1, <1>2, <1>3 DEF Assign, IsMap
<1>5. ASSUME n = 0 PROVE LedgerOK(r)
  <2>1. /\ IsMap(r.mapBalances, Keys, Int)
        /\ DOMAIN r.mapBalances = DOMAIN l.mapBalances \cup {key}
        /\ r.mapBalances[key] = 0
        /\ \A x \in DOMAIN l.mapBalances : x # key => r.mapBalances[x] = l.mapBalances[x]
    BY <1>1, <1>3, <1>5 DEF Assign, IsMap
  <2>2. /\ IsMap(r.mapLastClaim, Keys, Nat)
        /\ DOMAIN r.mapLastClaim = DOMAIN l.mapLastClaim \cup {key}
    BY <1>1, <1>3, <1>5 DEF Assign, IsMap
  <2> QED BY <1>3, <1>4, <2>1, <2>2 DEF LedgerOK, LedgerType, DomainsOK, NonNegative
<1>6. ASSUME n # 0 PROVE LedgerOK(r)
  <2>1. key \in DOMAIN l.mapActive
    BY <1>6 DEF n, Lookup
  <2>2. r.mapBalances = l.mapBalances /\ r.mapLastClaim = l.mapLastClaim
    BY <1>3, <1>6
  <2> QED BY <1>1, <1>3, <1>4, <2>1, <2>2 DEF LedgerOK, LedgerType, DomainsOK, NonNegative
<1> QED BY <1>5, <1>6 DEF r

\* Deactivating a key that CanDeactivate removes one reference from it and from
\* no other key, and keeps the ledger well formed.
LEMMA DeactivateCounts ==
    ASSUME NEW l, LedgerOK(l), NEW key \in Keys, CanDeactivate(l, key)
    PROVE  /\ LedgerOK(DeactivatePubKey(l, key))
           /\ \A x \in Keys :
                Lookup(DeactivatePubKey(l, key).mapActive, x)
                   = Lookup(l.mapActive, x) - (IF x = key THEN 1 ELSE 0)
           /\ DeactivatePubKey(l, key).mapBalances = l.mapBalances
           /\ DeactivatePubKey(l, key).mapLastClaim = l.mapLastClaim
<1> DEFINE a == Assign(l.mapActive, key, l.mapActive[key] - 1)
           r == DeactivatePubKey(l, key)
<1>1. /\ l = [mapActive |-> l.mapActive, mapBalances |-> l.mapBalances,
              mapLastClaim |-> l.mapLastClaim]
      /\ IsMap(l.mapActive, Keys, Nat)
      /\ key \in DOMAIN l.mapActive
      /\ l.mapActive[key] - 1 \in Nat
  BY DEF LedgerOK, LedgerType, CanDeactivate, IsMap
<1>2. r = [mapActive |-> a, mapBalances |-> l.mapBalances, mapLastClaim |-> l.mapLastClaim]
  BY <1>1 DEF DeactivatePubKey
<1>3. /\ IsMap(a, Keys, Nat)
      /\ DOMAIN a = DOMAIN l.mapActive
      /\ a[key] = l.mapActive[key] - 1
      /\ \A x \in DOMAIN l.mapActive : x # key => a[x] = l.mapActive[x]
  BY <1>1 DEF Assign, IsMap
<1> HIDE DEF a, r
<1>4. LedgerOK(r)
  BY <1>2, <1>3 DEF LedgerOK, LedgerType, DomainsOK, NonNegative
<1>5. \A x \in Keys : Lookup(a, x) = Lookup(l.mapActive, x) - (IF x = key THEN 1 ELSE 0)
  BY <1>1, <1>3 DEF Lookup, IsMap
<1> QED BY <1>2, <1>4, <1>5 DEF r

\* What an activation does to balances and claim times: a referenced key keeps
\* both, a fresh key starts at zero and at the time of the block.
LEMMA ActivateKeeps ==
    ASSUME NEW l, LedgerOK(l), NEW key \in Keys, NEW t \in Nat
    PROVE  LET r == ActivatePubKey(l, key, t)
           IN  /\ \A x \in Keys : Lookup(l.mapActive, x) > 0 =>
                     x \in DOMAIN r.mapBalances /\ r.mapBalances[x] = l.mapBalances[x]
               /\ ClockKept(l, r, t)
<1> DEFINE n == Lookup(l.mapActive, key)
           r == ActivatePubKey(l, key, t)
<1>1. /\ r.mapBalances = IF n = 0 THEN Assign(l.mapBalances, key, 0) ELSE l.mapBalances
      /\ r.mapLastClaim = IF n = 0 THEN Assign(l.mapLastClaim, key, t) ELSE l.mapLastClaim
  BY DEF ActivatePubKey
<1>2. \A x \in Keys : Lookup(l.mapActive, x) > 0 => x \in DOMAIN l.mapBalances
  BY DEF LedgerOK, DomainsOK, Lookup
<1> HIDE DEF r
<1>3. CASE n = 0
  <2>1. \A x \in Keys : Lookup(l.mapActive, x) > 0 => x # key
    BY <1>3
  <2> HIDE DEF n
  <2>2. \A x \in Keys : Lookup(l.mapActive, x) > 0 =>
            x \in DOMAIN r.mapBalances /\ r.mapBalances[x] = l.mapBalances[x]
    BY <1>1, <1>2, <1>3, <2>1 DEF Assign
  <2>3. ClockKept(l, r, t)
    BY <1>1, <1>3 DEF Assign, ClockKept
  <2> QED BY <2>2, <2>3 DEF r
<1>4. CASE n # 0
  <2> HIDE DEF n
  <2>1. r.mapBalances = l.mapBalances /\ r.mapLastClaim = l.mapLastClaim
    BY <1>1, <1>4
  <2> QED BY <1>2, <2>1 DEF r, ClockKept
<1> QED BY <1>3, <1>4

\* r is l with one reference moved from keyOld to keyNew at time t
Moved(l, r, keyOld, keyNew, t) ==
    /\ LedgerOK(r)
    /\ \A x \in Keys :
          Lookup(r.mapActive, x) = (Lookup(l.mapActive, x) - (IF x = keyOld THEN 1 ELSE 0))
                                       + (IF x = keyNew THEN 1 ELSE 0)
    /\ ClockKept(l, r, t)
    /\ BalanceKept(l, r)

\* Replacing keyOld by keyNew in one role moves one reference between them.
LEMMA MoveCounts ==
    ASSUME NEW l, LedgerOK(l), NEW keyOld \in Keys, NEW keyNew \in Keys, NEW t \in Nat,
           CanMoveReference(l, keyOld, keyNew)
    PROVE  Moved(l, MoveReference(l, keyOld, keyNew, t), keyOld, keyNew, t)
<1> DEFINE r == MoveReference(l, keyOld, keyNew, t)
           d == DeactivatePubKey(l, keyOld)
<1>0. /\ \A x \in Keys : Lookup(l.mapActive, x) \in Nat
      /\ \A x \in DOMAIN l.mapBalances : l.mapBalances[x] \in Int
      /\ \A x \in Keys : Lookup(l.mapActive, x) > 0 => x \in DOMAIN l.mapBalances
  BY DEF LedgerOK, LedgerType, DomainsOK, IsMap, Lookup
<1>1. CASE keyNew = keyOld
  <2>1. r = l
    BY <1>1 DEF MoveReference
  <2> HIDE DEF r
  <2>2. ClockKept(l, r, t) /\ BalanceKept(l, r)
    BY <1>0, <2>1 DEF ClockKept, BalanceKept
  <2>3. \A x \in Keys :
          Lookup(r.mapActive, x) =
              (Lookup(l.mapActive, x) - (IF x = keyOld THEN 1 ELSE 0))
                  + (IF x = keyNew THEN 1 ELSE 0)
    BY <1>0, <1>1, <2>1
  <2> QED BY <2>1, <2>2, <2>3 DEF r, Moved
<1>2. CASE keyNew # keyOld
  <2>1. /\ LedgerOK(d)
        /\ \A x \in Keys : Lookup(d.mapActive, x)
                             = Lookup(l.mapActive, x) - (IF x = keyOld THEN 1 ELSE 0)
        /\ d.mapBalances = l.mapBalances
        /\ d.mapLastClaim = l.mapLastClaim
    BY <1>2, DeactivateCounts DEF CanMoveReference
  <2>2. r = ActivatePubKey(d, keyNew, t)
    BY <1>2 DEF MoveReference
  <2> HIDE DEF d, r
  <2>3. LedgerOK(r)
    BY <2>1, <2>2, ActivateOK
  <2>4. LedgerType(d)
    BY <2>1 DEF LedgerOK
  <2>5. \A x \in Keys : Lookup(r.mapActive, x)
                          = Lookup(d.mapActive, x) + (IF x = keyNew THEN 1 ELSE 0)
    BY <2>2, <2>4, ActivateCounts
  <2>6. /\ \A x \in Keys : Lookup(d.mapActive, x) > 0 =>
              x \in DOMAIN r.mapBalances /\ r.mapBalances[x] = d.mapBalances[x]
        /\ ClockKept(d, r, t)
    BY <2>1, <2>2, ActivateKeeps
  <2>7. ClockKept(l, r, t)
    BY <2>1, <2>6 DEF ClockKept
  <2>8. BalanceKept(l, r)
    <3> SUFFICES ASSUME NEW x \in Keys,
                        Lookup(l.mapActive, x) > 0, Lookup(r.mapActive, x) > 0
                 PROVE  /\ x \in DOMAIN l.mapBalances /\ x \in DOMAIN r.mapBalances
                        /\ r.mapBalances[x] >= l.mapBalances[x]
      BY DEF BalanceKept
    <3>1. Lookup(d.mapActive, x) > 0
      BY <1>0, <1>2, <2>1, <2>5
    <3> QED BY <1>0, <2>1, <2>6, <3>1
  <2>9. \A x \in Keys :
          Lookup(r.mapActive, x) = (Lookup(l.mapActive, x) - (IF x = keyOld THEN 1 ELSE 0))
                                       + (IF x = keyNew THEN 1 ELSE 0)
    BY <2>1, <2>5
  <2> QED BY <2>3, <2>7, <2>8, <2>9 DEF r, Moved
<1> QED BY <1>1, <1>2

\* A purchase adds one reference for each of the two roles.
LEMMA ActivateStakerCounts ==
    ASSUME NEW l, LedgerOK(l), NEW s \in Staker, NEW t \in Nat
    PROVE  LET r == ActivateStaker(l, s, t)
           IN  /\ LedgerOK(r)
               /\ \A x \in Keys :
                    Lookup(r.mapActive, x) =
                        (Lookup(l.mapActive, x) + (IF x = s.pubkeyManager THEN 1 ELSE 0))
                            + (IF x = s.pubkeyDelegate THEN 1 ELSE 0)
               /\ ClockKept(l, r, t)
               /\ BalanceKept(l, r)
<1> DEFINE m == ActivatePubKey(l, s.pubkeyManager, t)
           r == ActivateStaker(l, s, t)
<1>0. s.pubkeyManager \in Keys /\ s.pubkeyDelegate \in Keys
  BY DEF Staker
<1>1. /\ \A x \in Keys : Lookup(l.mapActive, x) \in Nat
      /\ \A x \in DOMAIN l.mapBalances : l.mapBalances[x] \in Int
      /\ \A x \in Keys : Lookup(l.mapActive, x) > 0 => x \in DOMAIN l.mapBalances
      /\ LedgerType(l)
  BY DEF LedgerOK, LedgerType, DomainsOK, IsMap, Lookup
<1>2. LedgerOK(m) /\ LedgerType(m)
  BY <1>0, ActivateOK DEF LedgerOK
<1>3. \A x \in Keys : Lookup(m.mapActive, x)
                        = Lookup(l.mapActive, x) + (IF x = s.pubkeyManager THEN 1 ELSE 0)
  BY <1>0, <1>1, ActivateCounts
<1>4. /\ \A x \in Keys : Lookup(l.mapActive, x) > 0 =>
            x \in DOMAIN m.mapBalances /\ m.mapBalances[x] = l.mapBalances[x]
      /\ ClockKept(l, m, t)
  BY <1>0, ActivateKeeps
<1>5. r = ActivatePubKey(m, s.pubkeyDelegate, t)
  BY DEF ActivateStaker
<1> HIDE DEF m, r
<1>6. LedgerOK(r)
  BY <1>0, <1>2, <1>5, ActivateOK
<1>7. \A x \in Keys : Lookup(r.mapActive, x)
                        = Lookup(m.mapActive, x) + (IF x = s.pubkeyDelegate THEN 1 ELSE 0)
  BY <1>0, <1>2, <1>5, ActivateCounts
<1>8. /\ \A x \in Keys : Lookup(m.mapActive, x) > 0 =>
            x \in DOMAIN r.mapBalances /\ r.mapBalances[x] = m.mapBalances[x]
      /\ ClockKept(m, r, t)
  BY <1>0, <1>2, <1>5, ActivateKeeps
<1>9. ClockKept(l, r, t)
  BY <1>4, <1>8 DEF ClockKept
<1>10. BalanceKept(l, r)
  BY <1>1, <1>3, <1>4, <1>8 DEF BalanceKept
<1> QED BY <1>3, <1>6, <1>7, <1>9, <1>10 DEF r

\* A reward is split between delegate and manager without remainder: neither
\* part is negative.
LEMMA DelegateRewardBounds ==
    ASSUME NEW s \in Staker, NEW nReward \in Nat
    PROVE  /\ DelegateReward(s, nReward) \in Nat
           /\ nReward - DelegateReward(s, nReward) \in Nat
<1> DEFINE pcm == s.nPcmDelegatePayout
<1>1. pcm \in Nat /\ pcm <= 100000
  BY DEF Staker, Pcm
<1> HIDE DEF pcm
<1>2. nReward * pcm \in Nat /\ nReward * pcm <= nReward * 100000
  BY <1>1
<1> DEFINE x == nReward * pcm
<1>3. x \in Nat /\ x <= nReward * 100000
  BY <1>2
<1> HIDE DEF x
<1>4. x \div 100000 \in Nat /\ x \div 100000 <= nReward
  BY <1>3
<1>5. DelegateReward(s, nReward) \in {0, x \div 100000}
  BY DEF DelegateReward, x, pcm
<1> QED BY <1>4, <1>5

\* Paying a counted key keeps the ledger well formed and lowers no balance.
LEMMA CreditOK ==
    ASSUME NEW l, LedgerOK(l), NEW key \in DOMAIN l.mapActive, NEW n \in Nat
    PROVE  LET r == Credit(l, key, n)
           IN  /\ LedgerOK(r)
               /\ r.mapActive = l.mapActive
               /\ r.mapLastClaim = l.mapLastClaim
               /\ DOMAIN r.mapBalances = DOMAIN l.mapBalances
               /\ \A x \in DOMAIN l.mapBalances : r.mapBalances[x] >= l.mapBalances[x]
<1> DEFINE r == Credit(l, key, n)
           b == Assign(l.mapBalances, key, Lookup(l.mapBalances, key) + n)
<1>1. /\ l = [mapActive |-> l.mapActive, mapBalances |-> l.mapBalances,
              mapLastClaim |-> l.mapLastClaim]
      /\ IsMap(l.mapBalances, Keys, Int)
      /\ key \in DOMAIN l.mapBalances
      /\ key \in Keys
      /\ \A x \in DOMAIN l.mapBalances : l.mapBalances[x] \in Int /\ l.mapBalances[x] >= 0
  BY DEF LedgerOK, LedgerType, DomainsOK, IsMap, NonNegative
<1>2. r = [mapActive |-> l.mapActive, mapBalances |-> b, mapLastClaim |-> l.mapLastClaim]
  BY <1>1 DEF Credit
<1>3. Lookup(l.mapBalances, key) + n = l.mapBalances[key] + n
  BY <1>1 DEF Lookup
<1>4. /\ IsMap(b, Keys, Int)
      /\ DOMAIN b = DOMAIN l.mapBalances
      /\ b[key] = l.mapBalances[key] + n
      /\ \A x \in DOMAIN l.mapBalances : x # key => b[x] = l.mapBalances[x]
  BY <1>1, <1>3 DEF Assign, IsMap
<1> HIDE DEF b, r
<1>5. \A x \in DOMAIN b : b[x] >= l.mapBalances[x] /\ b[x] >= 0
  BY <1>1, <1>4
<1>6. LedgerOK(r)
  BY <1>2, <1>4, <1>5 DEF LedgerOK, LedgerType, DomainsOK, NonNegative
<1> QED BY <1>2, <1>4, <1>5, <1>6 DEF r

\* Paying a producer whose keys are counted: likewise.
LEMMA PayoutOK ==
    ASSUME NEW l, LedgerOK(l), NEW s \in Staker, NEW nReward \in Nat,
           s.pubkeyManager \in DOMAIN l.mapActive,
           s.pubkeyDelegate \in DOMAIN l.mapActive
    PROVE  LET r == Payout(l, s, nReward)
           IN  /\ LedgerOK(r)
               /\ r.mapActive = l.mapActive
               /\ r.mapLastClaim = l.mapLastClaim
               /\ DOMAIN r.mapBalances = DOMAIN l.mapBalances
               /\ \A x \in DOMAIN l.mapBalances : r.mapBalances[x] >= l.mapBalances[x]
<1> DEFINE d == DelegateReward(s, nReward)
           p == Credit(l, s.pubkeyManager, nReward - d)
           q == Credit(p, s.pubkeyDelegate, d)
<1>1. d \in Nat /\ nReward - d \in Nat
  BY DelegateRewardBounds
<1>2. Payout(l, s, nReward) = IF d > 0 THEN q ELSE p
  BY DEF Payout
<1> HIDE DEF d
<1>3. /\ LedgerOK(p)
      /\ p.mapActive = l.mapActive
      /\ p.mapLastClaim = l.mapLastClaim
      /\ DOMAIN p.mapBalances = DOMAIN l.mapBalances
      /\ \A x \in DOMAIN l.mapBalances : p.mapBalances[x] >= l.mapBalances[x]
  BY <1>1, CreditOK
<1> HIDE DEF p
<1>4. /\ LedgerOK(q)
      /\ q.mapActive = p.mapActive
      /\ q.mapLastClaim = p.mapLastClaim
      /\ DOMAIN q.mapBalances = DOMAIN p.mapBalances
      /\ \A x \in DOMAIN p.mapBalances : q.mapBalances[x] >= p.mapBalances[x]
  BY <1>1, <1>3, CreditOK
<1> HIDE DEF q
<1>5. \A x \in DOMAIN l.mapBalances :
         l.mapBalances[x] \in Int /\ p.mapBalances[x] \in Int /\ q.mapBalances[x] \in Int
  BY <1>3, <1>4 DEF LedgerOK, LedgerType, IsMap
<1>6. \A x \in DOMAIN l.mapBalances : q.mapBalances[x] >= l.mapBalances[x]
  BY <1>3, <1>4, <1>5
<1> QED BY <1>2, <1>3, <1>4, <1>6

\* The end of a round changes no count, restores non-negative balances, and
\* takes nothing from a referenced key.
LEMMA DockAndPurgeOK ==
    ASSUME NEW l, LedgerOK(l), NEW v \in Nat
    PROVE  LET r == PurgeLowBalances(DockInactiveKeys(l, v), v)
           IN  /\ LedgerOK(r)
               /\ \A x \in Keys : Lookup(r.mapActive, x) = Lookup(l.mapActive, x)
               /\ r.mapLastClaim = l.mapLastClaim
               /\ BalanceKept(l, r)
<1> DEFINE db == [k \in DOMAIN l.mapBalances |->
                     IF k \in DOMAIN l.mapActive /\ l.mapActive[k] < 1
                     THEN l.mapBalances[k] - v ELSE l.mapBalances[k]]
           d == DockInactiveKeys(l, v)
           P == {k \in DOMAIN db : db[k] < v /\ Lookup(l.mapActive, k) <= 0}
           r == PurgeLowBalances(d, v)
<1>1. /\ l = [mapActive |-> l.mapActive, mapBalances |-> l.mapBalances,
              mapLastClaim |-> l.mapLastClaim]
      /\ IsMap(l.mapActive, Keys, Nat)
      /\ IsMap(l.mapBalances, Keys, Int)
      /\ IsMap(l.mapLastClaim, Keys, Nat)
      /\ DOMAIN l.mapActive = DOMAIN l.mapBalances
      /\ DOMAIN l.mapBalances \subseteq DOMAIN l.mapLastClaim
      /\ \A x \in DOMAIN l.mapBalances : l.mapBalances[x] \in Int /\ l.mapBalances[x] >= 0
      /\ \A x \in DOMAIN l.mapActive : l.mapActive[x] \in Nat
  BY DEF LedgerOK, LedgerType, DomainsOK, IsMap, NonNegative
<1>2. d = [mapActive |-> l.mapActive, mapBalances |-> db, mapLastClaim |-> l.mapLastClaim]
  BY <1>1 DEF DockInactiveKeys
<1> HIDE DEF d
<1>3. r = [mapActive |-> Erase(l.mapActive, P), mapBalances |-> Erase(db, P),
           mapLastClaim |-> l.mapLastClaim]
  <2> HIDE DEF db
  <2>1. d.mapActive = l.mapActive /\ d.mapBalances = db
    BY <1>2
  <2>2. {k \in DOMAIN d.mapBalances :
           d.mapBalances[k] < v /\ Lookup(d.mapActive, k) <= 0} = P
    BY <2>1
  <2> HIDE DEF P
  <2>3. r = [d EXCEPT !.mapBalances = Erase(d.mapBalances, P),
                      !.mapActive = Erase(d.mapActive, P)]
    BY <2>2 DEF PurgeLowBalances
  <2> QED BY <1>2, <2>1, <2>3
<1>4. \A x \in DOMAIN l.mapActive : Lookup(l.mapActive, x) = l.mapActive[x]
  BY DEF Lookup
<1>5. /\ DOMAIN db = DOMAIN l.mapActive
      /\ \A x \in DOMAIN db : db[x] \in Int
      /\ \A x \in DOMAIN db : l.mapActive[x] > 0 => db[x] = l.mapBalances[x]
  BY <1>1
<1>6. P = {x \in DOMAIN l.mapActive : db[x] < v /\ l.mapActive[x] <= 0}
  BY <1>4, <1>5
<1> HIDE DEF P, db, r
<1>7. /\ IsMap(Erase(l.mapActive, P), Keys, Nat)
      /\ IsMap(Erase(db, P), Keys, Int)
      /\ DOMAIN Erase(l.mapActive, P) = DOMAIN l.mapActive \ P
      /\ DOMAIN Erase(db, P) = DOMAIN l.mapActive \ P
      /\ \A x \in DOMAIN l.mapActive \ P :
            Erase(l.mapActive, P)[x] = l.mapActive[x] /\ Erase(db, P)[x] = db[x]
  BY <1>1, <1>5 DEF Erase, IsMap
<1>8. \A x \in DOMAIN l.mapActive \ P : db[x] >= 0
  BY <1>1, <1>5, <1>6
<1>9. LedgerOK(r)
  BY <1>1, <1>3, <1>7, <1>8 DEF LedgerOK, LedgerType, DomainsOK, NonNegative
<1>10. \A x \in P : l.mapActive[x] = 0
  BY <1>1, <1>6
<1>11. \A x \in Keys : Lookup(r.mapActive, x) = Lookup(l.mapActive, x)
  BY <1>3, <1>6, <1>7, <1>10 DEF Lookup
<1>12. BalanceKept(l, r)
  <2> SUFFICES ASSUME NEW x \in Keys, Lookup(l.mapActive, x) > 0
               PROVE  /\ x \in DOMAIN l.mapBalances /\ x \in DOMAIN r.mapBalances
                      /\ r.mapBalances[x] >= l.mapBalances[x]
    BY DEF BalanceKept
  <2>1. x \in DOMAIN l.mapActive /\ l.mapActive[x] > 0
    BY DEF Lookup
  <2>2. x \notin P
    BY <1>10, <2>1
  <2> QED BY <1>1, <1>3, <1>5, <1>7, <2>1, <2>2
<1> QED BY <1>3, <1>9, <1>11, <1>12 DEF r, d

-----------------------------------------------------------------------------
(* Counting references *)

ManagedBy(st, k) == {i \in DOMAIN st : st[i].pubkeyManager = k}
DelegatedTo(st, k) == {i \in DOMAIN st : st[i].pubkeyDelegate = k}

\* l counts the references of the stakers st
References(l, st) ==
    \A k \in Keys : Lookup(l.mapActive, k) =
                        Cardinality(ManagedBy(st, k)) + Cardinality(DelegatedTo(st, k))

\* Sets of stakers are finite, so their sizes are natural numbers.
LEMMA StakerSets ==
    ASSUME NEW n \in Nat, NEW st \in [1..n -> Staker], NEW k
    PROVE  /\ IsFiniteSet(ManagedBy(st, k)) /\ Cardinality(ManagedBy(st, k)) \in Nat
           /\ IsFiniteSet(DelegatedTo(st, k)) /\ Cardinality(DelegatedTo(st, k)) \in Nat
<1>1. IsFiniteSet(1..n)
  BY FS_Interval
<1>2. ManagedBy(st, k) \subseteq 1..n /\ DelegatedTo(st, k) \subseteq 1..n
  BY DEF ManagedBy, DelegatedTo
<1>3. IsFiniteSet(ManagedBy(st, k)) /\ IsFiniteSet(DelegatedTo(st, k))
  BY <1>1, <1>2, FS_Subset
<1> QED BY <1>3, FS_CardinalityType

\* A new staker is counted once for its manager and once for its delegate.
LEMMA CountNewStaker ==
    ASSUME NEW n \in Nat, NEW st \in [1..n -> Staker], NEW s \in Staker, NEW k
    PROVE  LET u == Assign(st, n + 1, s)
           IN  /\ u \in [1..(n + 1) -> Staker]
               /\ Cardinality(ManagedBy(u, k))
                    = Cardinality(ManagedBy(st, k)) + (IF k = s.pubkeyManager THEN 1 ELSE 0)
               /\ Cardinality(DelegatedTo(u, k))
                    = Cardinality(DelegatedTo(st, k)) + (IF k = s.pubkeyDelegate THEN 1 ELSE 0)
<1> DEFINE u == Assign(st, n + 1, s)
<1>1. /\ DOMAIN u = (1..n) \cup {n + 1}
      /\ u[n + 1] = s
      /\ \A i \in 1..n : u[i] = st[i]
  BY DEF Assign
<1>2. (1..n) \cup {n + 1} = 1..(n + 1) /\ n + 1 \notin 1..n
  OBVIOUS
<1>3. u \in [1..(n + 1) -> Staker]
  BY <1>2 DEF Assign
<1> HIDE DEF u
<1>4. /\ ManagedBy(u, k) = IF k = s.pubkeyManager
                           THEN ManagedBy(st, k) \cup {n + 1} ELSE ManagedBy(st, k)
      /\ DelegatedTo(u, k) = IF k = s.pubkeyDelegate
                             THEN DelegatedTo(st, k) \cup {n + 1} ELSE DelegatedTo(st, k)
      /\ n + 1 \notin ManagedBy(st, k)
      /\ n + 1 \notin DelegatedTo(st, k)
  BY <1>1, <1>2 DEF ManagedBy, DelegatedTo
<1>5. /\ Cardinality(ManagedBy(st, k) \cup {n + 1}) = Cardinality(ManagedBy(st, k)) + 1
      /\ Cardinality(DelegatedTo(st, k) \cup {n + 1}) = Cardinality(DelegatedTo(st, k)) + 1
  BY <1>4, StakerSets, FS_AddElement
<1>6. Cardinality(ManagedBy(st, k)) \in Nat /\ Cardinality(DelegatedTo(st, k)) \in Nat
  BY StakerSets
<1> QED BY <1>3, <1>4, <1>5, <1>6 DEF u

\* Changing the manager of one staker moves one element between two of the sets.
LEMMA CountMove ==
    ASSUME NEW S, IsFiniteSet(S), NEW T, NEW i, NEW a \in BOOLEAN, NEW b \in BOOLEAN,
           i \in S <=> a, T = (S \ {i}) \cup (IF b THEN {i} ELSE {})
    PROVE  Cardinality(T) =
               (Cardinality(S) - (IF a THEN 1 ELSE 0)) + (IF b THEN 1 ELSE 0)
<1>1. Cardinality(S) \in Nat
  BY FS_CardinalityType
<1>2. IsFiniteSet(S \ {i}) /\ Cardinality(S \ {i}) = Cardinality(S) - (IF a THEN 1 ELSE 0)
  BY <1>1, FS_RemoveElement
<1>3. Cardinality((S \ {i}) \cup {i}) = Cardinality(S \ {i}) + 1
  BY <1>2, FS_AddElement
<1>4. CASE b
  BY <1>1, <1>2, <1>3, <1>4
<1>5. CASE ~b
  <2>1. T = S \ {i}
    BY <1>5
  <2> QED BY <1>1, <1>2, <1>5, <2>1
<1> QED BY <1>4, <1>5

-----------------------------------------------------------------------------
(* The inductive invariant *)

\* the time n claims take at least
Span(n) == n * QP_MIN_SECS_PER_CLAIM

\* A key's claims fit in the time up to its last claim or activation; a key that
\* was never activated never claimed.
ClaimClock ==
    /\ \A k \in DOMAIN ledger.mapLastClaim :
          Span(nClaims[k]) <= ledger.mapLastClaim[k] /\ ledger.mapLastClaim[k] <= nTime
    /\ \A k \in Keys \ DOMAIN ledger.mapLastClaim : nClaims[k] = 0

IInv ==
    /\ TypeOK
    /\ LedgerDomains
    /\ BalancesNonNegative
    /\ ActiveCountsReferences
    /\ ClaimClock

\* the type of everything but the ledger
TypeRest ==
    /\ nBlockHeight \in Nat /\ nHeight \in Nat /\ nTime \in Nat
    /\ nHeight \in {nBlockHeight, nBlockHeight + 1}
    /\ nIDCounter \in Nat
    /\ mapStakers \in [1..nIDCounter -> Staker]
    /\ IsMap(mapAliases, Aliases, 1..nIDCounter)
    /\ IsMap(mapNftOwners, 1..nIDCounter, NftIDs)
    /\ IsMap(mapNftOwnerLookup, NftIDs, 1..nIDCounter)
    /\ nClaims \in [Keys -> Nat]
    /\ nClaimed \in Nat

\* n + 1 claims take one waiting time more than n.
LEMMA SpanStep ==
    ASSUME NEW n \in Nat
    PROVE  Span(n) \in Nat /\ Span(n + 1) = Span(n) + QP_MIN_SECS_PER_CLAIM /\ Span(0) = 0
  BY HeightAssumption DEF Span

\* The ledger's part of the invariant.
LEMMA LedgerPart ==
    /\ IInv => LedgerOK(ledger)
    /\ LedgerOK(ledger) => LedgerType(ledger) /\ LedgerDomains /\ BalancesNonNegative
  BY DEF IInv, TypeOK, LedgerOK, LedgerDomains, DomainsOK, BalancesNonNegative, NonNegative

\* The references of a key, as the operators of this module count them.
LEMMA ReferencePart == ActiveCountsReferences <=> References(ledger, mapStakers)
  BY DEF ActiveCountsReferences, Managed, Delegated, References, ManagedBy, DelegatedTo

\* The invariant after a step, from its parts.
LEMMA IInvParts ==
    ASSUME LedgerOK(ledger'), TypeRest', References(ledger', mapStakers'), ClaimClock'
    PROVE  IInv'
<1>1. LedgerDomains' /\ BalancesNonNegative' /\ LedgerType(ledger')
  BY DEF LedgerOK, LedgerDomains, DomainsOK, BalancesNonNegative, NonNegative
<1>2. TypeOK'
  BY <1>1 DEF TypeOK, TypeRest, LedgerType
<1>3. ActiveCountsReferences'
  BY DEF ActiveCountsReferences, Managed, Delegated, References, ManagedBy, DelegatedTo
<1> QED BY <1>1, <1>2, <1>3 DEF IInv

\* An operation that only restarts clocks at the time of the block keeps ClaimClock.
LEMMA ClockStep ==
    ASSUME IInv, LedgerOK(ledger'), ClockKept(ledger, ledger', nTime),
           nTime' = nTime, nClaims' = nClaims
    PROVE  ClaimClock'
<1>1. /\ nTime \in Nat
      /\ \A k \in Keys : nClaims[k] \in Nat
      /\ DOMAIN ledger.mapLastClaim \subseteq Keys
      /\ DOMAIN ledger'.mapLastClaim \subseteq Keys
      /\ \A k \in DOMAIN ledger.mapLastClaim : ledger.mapLastClaim[k] \in Nat
  BY DEF IInv, TypeOK, LedgerOK, LedgerType, IsMap
<1>2. \A k \in Keys : Span(nClaims[k]) \in Nat /\ (nClaims[k] = 0 => Span(nClaims[k]) = 0)
  BY <1>1, SpanStep
<1>3. ASSUME NEW k \in DOMAIN ledger'.mapLastClaim
      PROVE  Span(nClaims[k]) <= ledger'.mapLastClaim[k] /\ ledger'.mapLastClaim[k] <= nTime
  <2>1. CASE ledger'.mapLastClaim[k] = nTime /\ k \in DOMAIN ledger.mapLastClaim
    BY <1>1, <1>2, <2>1 DEF IInv, ClaimClock
  <2>2. CASE ledger'.mapLastClaim[k] = nTime /\ k \notin DOMAIN ledger.mapLastClaim
    BY <1>1, <1>2, <2>2 DEF IInv, ClaimClock
  <2>3. CASE /\ k \in DOMAIN ledger.mapLastClaim
             /\ ledger'.mapLastClaim[k] = ledger.mapLastClaim[k]
    BY <2>3 DEF IInv, ClaimClock
  <2> QED BY <2>1, <2>2, <2>3 DEF ClockKept
<1>4. \A k \in Keys \ DOMAIN ledger'.mapLastClaim : nClaims[k] = 0
  BY DEF IInv, ClaimClock, ClockKept
<1> QED BY <1>3, <1>4 DEF ClaimClock

\* The invariant holds of the empty registry.
LEMMA InitIInv == Init => IInv
<1> SUFFICES ASSUME Init PROVE IInv
  OBVIOUS
<1>1. DOMAIN EmptyMap = {}
  BY DEF EmptyMap
<1>2. mapStakers \in [1..nIDCounter -> Staker]
  <2>1. 1..0 = {}
    OBVIOUS
  <2> QED BY <2>1 DEF Init, EmptyMap
<1>3. LedgerOK(ledger)
  BY <1>1 DEF Init, LedgerOK, LedgerType, DomainsOK, NonNegative, IsMap, EmptyMap
<1>4. TypeOK
  BY <1>2, <1>3 DEF Init, TypeOK, LedgerOK, IsMap, EmptyMap
<1>5. ActiveCountsReferences
  <2>1. \A k \in Keys : ManagedBy(mapStakers, k) = {} /\ DelegatedTo(mapStakers, k) = {}
    BY <1>1 DEF Init, ManagedBy, DelegatedTo
  <2>2. \A k \in Keys : Lookup(ledger.mapActive, k) = 0
    BY <1>1 DEF Init, Lookup
  <2> QED BY <2>1, <2>2, FS_EmptySet, ReferencePart DEF References
<1>6. ClaimClock
  BY <1>1 DEF Init, ClaimClock
<1> QED BY <1>3, <1>4, <1>5, <1>6, LedgerPart DEF IInv

-----------------------------------------------------------------------------
(* Every action preserves the invariant *)

\* What the proofs below use of the invariant.
LEMMA IInvFacts ==
    ASSUME IInv
    PROVE  LedgerOK(ledger) /\ TypeRest /\ References(ledger, mapStakers) /\ ClaimClock
  BY LedgerPart, ReferencePart DEF IInv, TypeOK, TypeRest

\* A step that leaves the managers and delegates alone keeps the counts right.
LEMMA SameReferences ==
    ASSUME NEW l, NEW r, NEW st, NEW su, References(l, st),
           \A k \in Keys : Lookup(r.mapActive, k) = Lookup(l.mapActive, k),
           DOMAIN su = DOMAIN st,
           \A i \in DOMAIN st : /\ su[i].pubkeyManager = st[i].pubkeyManager
                                /\ su[i].pubkeyDelegate = st[i].pubkeyDelegate
    PROVE  References(r, su)
<1>1. \A k : ManagedBy(su, k) = ManagedBy(st, k) /\ DelegatedTo(su, k) = DelegatedTo(st, k)
  BY DEF ManagedBy, DelegatedTo
<1> QED BY <1>1 DEF References

\* A queue change keeps the invariant.
LEMMA NewRoundIInv == ASSUME IInv, NEW d \in DockValues, NewRound(d) PROVE IInv'
<1>0. LedgerOK(ledger) /\ TypeRest /\ References(ledger, mapStakers) /\ ClaimClock
  BY IInvFacts
<1> USE <1>0
<1>1. d \in Nat
  BY AmountAssumption
<1>2. /\ LedgerOK(ledger')
      /\ \A x \in Keys : Lookup(ledger'.mapActive, x) = Lookup(ledger.mapActive, x)
      /\ ledger'.mapLastClaim = ledger.mapLastClaim
  BY <1>1, DockAndPurgeOK DEF NewRound
<1>3. TypeRest'
  BY DEF TypeRest, NewRound, clock, names, history
<1>4. References(ledger', mapStakers')
  BY <1>2, SameReferences DEF NewRound
<1>5. ClaimClock'
  BY <1>2 DEF ClaimClock, NewRound, clock, history
<1> QED BY <1>2, <1>3, <1>4, <1>5, IInvParts

\* The start of a block keeps the invariant.
LEMMA BeginBlockIInv == ASSUME IInv, NEW t \in 1..MaxTime, BeginBlock(t) PROVE IInv'
<1>0. LedgerOK(ledger) /\ TypeRest /\ References(ledger, mapStakers) /\ ClaimClock
  BY IInvFacts
<1> USE <1>0
<1>1. ledger' = ledger /\ nClaims' = nClaims /\ nTime' = t /\ t > nTime
  BY DEF BeginBlock, history
<1>2. /\ mapStakers' \in [1..nIDCounter -> Staker]
      /\ \A i \in DOMAIN mapStakers :
            /\ mapStakers'[i].pubkeyManager = mapStakers[i].pubkeyManager
            /\ mapStakers'[i].pubkeyDelegate = mapStakers[i].pubkeyDelegate
  <2>1. CASE nHeight < ForkReinstate /\ nHeight + 1 >= ForkReinstate
    BY <2>1 DEF BeginBlock, TypeRest, Staker
  <2>2. CASE ~(nHeight < ForkReinstate /\ nHeight + 1 >= ForkReinstate)
    BY <2>2 DEF BeginBlock, TypeRest
  <2> QED BY <2>1, <2>2
<1>3. TypeRest'
  BY <1>1, <1>2 DEF TypeRest, BeginBlock, InBlock, names, history
<1>4. References(ledger', mapStakers')
  <2>1. DOMAIN mapStakers' = DOMAIN mapStakers
    BY <1>2 DEF TypeRest
  <2> QED BY <1>1, <1>2, <2>1, SameReferences
<1>5. ClaimClock'
  <2>1. \A k \in DOMAIN ledger.mapLastClaim : ledger.mapLastClaim[k] \in Nat
    BY DEF LedgerOK, LedgerType, IsMap
  <2> QED BY <1>1, <2>1 DEF ClaimClock, TypeRest
<1> QED BY <1>1, <1>3, <1>4, <1>5, IInvParts

\* What is bought is a staker.
LEMMA PurchasedType == PurchasedStakers \subseteq Staker
<1>1. 0 \in Pcm /\ Pcms \subseteq Pcm
  BY AmountAssumption DEF Pcm
<1>2. \A o, m, d \in Keys, pcm \in Pcm : NewStaker(o, m, d, pcm) \in Staker
  BY DEF NewStaker, Staker
<1> QED BY <1>1, <1>2 DEF PurchasedStakers

\* A purchase keeps the invariant.
LEMMA ApplyPurchaseIInv ==
    ASSUME IInv, NEW staker \in PurchasedStakers, NEW sKey \in Aliases,
           NEW id \in NftIDs \cup {0}, ApplyPurchase(staker, sKey, id)
    PROVE  IInv'
<1>0. LedgerOK(ledger) /\ TypeRest /\ References(ledger, mapStakers) /\ ClaimClock
  BY IInvFacts
<1> USE <1>0
<1>1. staker \in Staker /\ nIDCounter \in Nat /\ mapStakers \in [1..nIDCounter -> Staker]
      /\ nTime \in Nat
  BY PurchasedType DEF TypeRest
<1>2. /\ LedgerOK(ledger')
      /\ \A x \in Keys :
            Lookup(ledger'.mapActive, x) =
                (Lookup(ledger.mapActive, x) + (IF x = staker.pubkeyManager THEN 1 ELSE 0))
                    + (IF x = staker.pubkeyDelegate THEN 1 ELSE 0)
      /\ ClockKept(ledger, ledger', nTime)
  BY <1>1, ActivateStakerCounts DEF ApplyPurchase
<1>3. mapStakers' = Assign(mapStakers, nIDCounter + 1, staker)
  BY DEF ApplyPurchase
<1>4. mapStakers' \in [1..(nIDCounter + 1) -> Staker]
  BY <1>1, <1>3, CountNewStaker
<1>5. TypeRest'
  <2>1. PICK n \in NftFor(sKey, id) :
          /\ mapNftOwners' = Assign(mapNftOwners, nIDCounter + 1, n)
          /\ mapNftOwnerLookup' = Assign(mapNftOwnerLookup, n, nIDCounter + 1)
    BY DEF ApplyPurchase
  <2>2. n \in NftIDs
    BY <2>1 DEF NftFor, FreeNfts
  <2>3. nIDCounter + 1 \in 1..(nIDCounter + 1) /\ 1..nIDCounter \subseteq 1..(nIDCounter + 1)
    BY <1>1
  <2>4. IsMap(mapNftOwners', 1..(nIDCounter + 1), NftIDs)
    BY <2>1, <2>2, <2>3 DEF TypeRest, IsMap, Assign
  <2>5. IsMap(mapNftOwnerLookup', NftIDs, 1..(nIDCounter + 1))
    BY <2>1, <2>2, <2>3 DEF TypeRest, IsMap, Assign
  <2>6. IsMap(mapAliases', Aliases, 1..(nIDCounter + 1))
    BY <2>3 DEF TypeRest, IsMap, Assign, ApplyPurchase
  <2> QED BY <1>1, <1>4, <2>4, <2>5, <2>6 DEF TypeRest, ApplyPurchase, clock, history
<1>6. References(ledger', mapStakers')
  <2> SUFFICES ASSUME NEW k \in Keys
               PROVE  Lookup(ledger'.mapActive, k) = Cardinality(ManagedBy(mapStakers', k))
                                                  + Cardinality(DelegatedTo(mapStakers', k))
    BY DEF References
  <2>1. /\ Cardinality(ManagedBy(mapStakers', k)) = Cardinality(ManagedBy(mapStakers, k))
                + (IF k = staker.pubkeyManager THEN 1 ELSE 0)
        /\ Cardinality(DelegatedTo(mapStakers', k)) = Cardinality(DelegatedTo(mapStakers, k))
                + (IF k = staker.pubkeyDelegate THEN 1 ELSE 0)
    BY <1>1, <1>3, CountNewStaker
  <2>2. /\ Cardinality(ManagedBy(mapStakers, k)) \in Nat
        /\ Cardinality(DelegatedTo(mapStakers, k)) \in Nat
    BY <1>1, StakerSets
  <2> QED BY <1>2, <2>1, <2>2 DEF References
<1>7. ClaimClock'
  BY <1>2, ClockStep DEF ApplyPurchase, clock, history
<1> QED BY <1>2, <1>5, <1>6, <1>7, IInvParts

\* A change of owner keeps the invariant.
LEMMA SetOwnerIInv ==
    ASSUME IInv, NEW id \in DOMAIN mapStakers, NEW keyNew \in Keys, SetOwner(id, keyNew)
    PROVE  IInv'
<1>0. LedgerOK(ledger) /\ TypeRest /\ References(ledger, mapStakers) /\ ClaimClock
  BY IInvFacts
<1> USE <1>0
<1>1. mapStakers \in [1..nIDCounter -> Staker]
  BY DEF TypeRest
<1>2. /\ mapStakers' \in [1..nIDCounter -> Staker]
      /\ \A i \in DOMAIN mapStakers :
            /\ mapStakers'[i].pubkeyManager = mapStakers[i].pubkeyManager
            /\ mapStakers'[i].pubkeyDelegate = mapStakers[i].pubkeyDelegate
  BY <1>1 DEF SetOwner, Staker
<1>3. TypeRest'
  BY <1>2 DEF TypeRest, SetOwner, clock, names, history
<1>4. References(ledger', mapStakers')
  <2>1. ledger' = ledger
    BY DEF SetOwner
  <2>2. DOMAIN mapStakers' = DOMAIN mapStakers
    BY <1>1, <1>2
  <2> QED BY <1>2, <2>1, <2>2, SameReferences
<1>5. ClaimClock'
  BY DEF ClaimClock, SetOwner, clock, history
<1>6. LedgerOK(ledger')
  BY DEF SetOwner
<1> QED BY <1>3, <1>4, <1>5, <1>6, IInvParts

\* A change of manager keeps the invariant.
LEMMA SetManagerIInv ==
    ASSUME IInv, NEW id \in DOMAIN mapStakers, NEW keyNew \in Keys, SetManager(id, keyNew)
    PROVE  IInv'
<1>0. LedgerOK(ledger) /\ TypeRest /\ References(ledger, mapStakers) /\ ClaimClock
  BY IInvFacts
<1> USE <1>0
<1> DEFINE keyOld == mapStakers[id].pubkeyManager
<1>1. /\ mapStakers \in [1..nIDCounter -> Staker] /\ nIDCounter \in Nat /\ nTime \in Nat
      /\ id \in 1..nIDCounter
      /\ keyOld \in Keys
  BY DEF TypeRest, Staker
<1>2. /\ mapStakers' \in [1..nIDCounter -> Staker]
      /\ mapStakers'[id].pubkeyManager = keyNew
      /\ \A i \in 1..nIDCounter :
            /\ mapStakers'[i].pubkeyDelegate = mapStakers[i].pubkeyDelegate
            /\ i # id => mapStakers'[i].pubkeyManager = mapStakers[i].pubkeyManager
  BY <1>1 DEF SetManager, Staker
<1>3. /\ LedgerOK(ledger')
      /\ \A x \in Keys :
            Lookup(ledger'.mapActive, x) =
                (Lookup(ledger.mapActive, x) - (IF x = keyOld THEN 1 ELSE 0))
                    + (IF x = keyNew THEN 1 ELSE 0)
      /\ ClockKept(ledger, ledger', nTime)
  <2>1. /\ CanMoveReference(ledger, keyOld, keyNew)
        /\ ledger' = MoveReference(ledger, keyOld, keyNew, nTime)
    BY DEF SetManager
  <2> HIDE DEF keyOld
  <2>2. Moved(ledger, ledger', keyOld, keyNew, nTime)
    BY <1>1, <2>1, MoveCounts
  <2> QED BY <2>2 DEF Moved
<1>4. TypeRest'
  BY <1>2 DEF TypeRest, SetManager, clock, names, history
<1>5. References(ledger', mapStakers')
  <2> SUFFICES ASSUME NEW k \in Keys
               PROVE  Lookup(ledger'.mapActive, k) = Cardinality(ManagedBy(mapStakers', k))
                                                  + Cardinality(DelegatedTo(mapStakers', k))
    BY DEF References
  <2> DEFINE S == ManagedBy(mapStakers, k)
             T == ManagedBy(mapStakers', k)
  <2>1. DelegatedTo(mapStakers', k) = DelegatedTo(mapStakers, k)
    BY <1>1, <1>2 DEF DelegatedTo
  <2>2. /\ IsFiniteSet(S) /\ Cardinality(S) \in Nat
        /\ Cardinality(DelegatedTo(mapStakers, k)) \in Nat
    BY <1>1, StakerSets
  <2>3. id \in S <=> k = keyOld
    BY <1>1 DEF ManagedBy
  <2>4. T = (S \ {id}) \cup (IF k = keyNew THEN {id} ELSE {})
    BY <1>1, <1>2 DEF ManagedBy
  <2> HIDE DEF S, T, keyOld
  <2>5. Cardinality(T) =
            (Cardinality(S) - (IF k = keyOld THEN 1 ELSE 0)) + (IF k = keyNew THEN 1 ELSE 0)
    BY <2>2, <2>3, <2>4, CountMove
  <2> QED BY <1>3, <2>1, <2>2, <2>5 DEF References, S, T
<1>6. ClaimClock'
  BY <1>3, ClockStep DEF SetManager, clock, history
<1> QED BY <1>3, <1>4, <1>5, <1>6, IInvParts

\* A change of delegate keeps the invariant.
LEMMA SetDelegateIInv ==
    ASSUME IInv, NEW id \in DOMAIN mapStakers, NEW keyNew \in Keys, NEW pcm \in Pcms,
           SetDelegate(id, keyNew, pcm)
    PROVE  IInv'
<1>0. LedgerOK(ledger) /\ TypeRest /\ References(ledger, mapStakers) /\ ClaimClock
  BY IInvFacts
<1> USE <1>0
<1> DEFINE keyOld == mapStakers[id].pubkeyDelegate
<1>1. /\ mapStakers \in [1..nIDCounter -> Staker] /\ nIDCounter \in Nat /\ nTime \in Nat
      /\ id \in 1..nIDCounter
      /\ keyOld \in Keys
  BY DEF TypeRest, Staker
<1>2. /\ mapStakers' \in [1..nIDCounter -> Staker]
      /\ mapStakers'[id].pubkeyDelegate = keyNew
      /\ \A i \in 1..nIDCounter :
            /\ mapStakers'[i].pubkeyManager = mapStakers[i].pubkeyManager
            /\ i # id => mapStakers'[i].pubkeyDelegate = mapStakers[i].pubkeyDelegate
  <2>1. pcm \in Pcm
    BY AmountAssumption
  <2> QED BY <1>1, <2>1 DEF SetDelegate, Staker
<1>3. /\ LedgerOK(ledger')
      /\ \A x \in Keys :
            Lookup(ledger'.mapActive, x) =
                (Lookup(ledger.mapActive, x) - (IF x = keyOld THEN 1 ELSE 0))
                    + (IF x = keyNew THEN 1 ELSE 0)
      /\ ClockKept(ledger, ledger', nTime)
  <2>1. /\ CanMoveReference(ledger, keyOld, keyNew)
        /\ ledger' = MoveReference(ledger, keyOld, keyNew, nTime)
    BY DEF SetDelegate
  <2> HIDE DEF keyOld
  <2>2. Moved(ledger, ledger', keyOld, keyNew, nTime)
    BY <1>1, <2>1, MoveCounts
  <2> QED BY <2>2 DEF Moved
<1>4. TypeRest'
  BY <1>2 DEF TypeRest, SetDelegate, clock, names, history
<1>5. References(ledger', mapStakers')
  <2> SUFFICES ASSUME NEW k \in Keys
               PROVE  Lookup(ledger'.mapActive, k) = Cardinality(ManagedBy(mapStakers', k))
                                                  + Cardinality(DelegatedTo(mapStakers', k))
    BY DEF References
  <2> DEFINE S == DelegatedTo(mapStakers, k)
             T == DelegatedTo(mapStakers', k)
  <2>1. ManagedBy(mapStakers', k) = ManagedBy(mapStakers, k)
    BY <1>1, <1>2 DEF ManagedBy
  <2>2. /\ IsFiniteSet(S) /\ Cardinality(S) \in Nat
        /\ Cardinality(ManagedBy(mapStakers, k)) \in Nat
    BY <1>1, StakerSets
  <2>3. id \in S <=> k = keyOld
    BY <1>1 DEF DelegatedTo
  <2>4. T = (S \ {id}) \cup (IF k = keyNew THEN {id} ELSE {})
    BY <1>1, <1>2 DEF DelegatedTo
  <2> HIDE DEF S, T, keyOld
  <2>5. Cardinality(T) =
            (Cardinality(S) - (IF k = keyOld THEN 1 ELSE 0)) + (IF k = keyNew THEN 1 ELSE 0)
    BY <2>2, <2>3, <2>4, CountMove
  <2> QED BY <1>3, <2>1, <2>2, <2>5 DEF References, S, T
<1>6. ClaimClock'
  BY <1>3, ClockStep DEF SetDelegate, clock, history
<1> QED BY <1>3, <1>4, <1>5, <1>6, IInvParts

\* A claim keeps the invariant.
LEMMA ApplyClaimIInv ==
    ASSUME IInv, NEW key \in Keys, NEW value \in ClaimValues, ApplyClaim(key, value)
    PROVE  IInv'
<1>0. LedgerOK(ledger) /\ TypeRest /\ References(ledger, mapStakers) /\ ClaimClock
  BY IInvFacts
<1> USE <1>0
<1> DEFINE b == Assign(ledger.mapBalances, key, ledger.mapBalances[key] - value)
           c == Assign(ledger.mapLastClaim, key, nTime)
<1>1. /\ ledger = [mapActive |-> ledger.mapActive, mapBalances |-> ledger.mapBalances,
                   mapLastClaim |-> ledger.mapLastClaim]
      /\ IsMap(ledger.mapBalances, Keys, Int)
      /\ IsMap(ledger.mapLastClaim, Keys, Nat)
      /\ \A k \in DOMAIN ledger.mapBalances :
            ledger.mapBalances[k] \in Int /\ ledger.mapBalances[k] >= 0
      /\ \A k \in DOMAIN ledger.mapLastClaim : ledger.mapLastClaim[k] \in Nat
  BY DEF LedgerOK, LedgerType, NonNegative, IsMap
<1>2. /\ value \in Nat /\ nTime \in Nat /\ nClaimed \in Nat
      /\ nClaims \in [Keys -> Nat]
      /\ QP_MIN_SECS_PER_CLAIM \in Nat
  BY AmountAssumption, HeightAssumption DEF TypeRest
<1>3. /\ key \in DOMAIN ledger.mapBalances
      /\ key \in DOMAIN ledger.mapLastClaim
      /\ value <= ledger.mapBalances[key]
      /\ nTime >= ledger.mapLastClaim[key] + QP_MIN_SECS_PER_CLAIM
  BY DEF ApplyClaim, CanClaimInternal, LedgerOK, DomainsOK
<1>4. ledger' = [mapActive |-> ledger.mapActive, mapBalances |-> b, mapLastClaim |-> c]
  BY <1>1 DEF ApplyClaim
<1>5. /\ IsMap(b, Keys, Int)
      /\ DOMAIN b = DOMAIN ledger.mapBalances
      /\ b[key] = ledger.mapBalances[key] - value
      /\ \A k \in DOMAIN ledger.mapBalances : k # key => b[k] = ledger.mapBalances[k]
  BY <1>1, <1>2, <1>3 DEF Assign, IsMap
<1>6. /\ IsMap(c, Keys, Nat)
      /\ DOMAIN c = DOMAIN ledger.mapLastClaim
      /\ c[key] = nTime
      /\ \A k \in DOMAIN ledger.mapLastClaim : k # key => c[k] = ledger.mapLastClaim[k]
  BY <1>1, <1>2, <1>3 DEF Assign, IsMap
<1> HIDE DEF b, c
<1>7. \A k \in DOMAIN b : b[k] >= 0
  BY <1>1, <1>2, <1>3, <1>5
<1>8. LedgerOK(ledger')
  BY <1>4, <1>5, <1>6, <1>7 DEF LedgerOK, LedgerType, DomainsOK, NonNegative
<1>9. /\ nClaims' = [nClaims EXCEPT ![key] = @ + 1]
      /\ nClaimed' = nClaimed + value
      /\ mapStakers' = mapStakers /\ nTime' = nTime
  BY DEF ApplyClaim, clock
<1>10. TypeRest'
  <2>1. nClaims' \in [Keys -> Nat] /\ nClaimed' \in Nat
    BY <1>2, <1>9
  <2> QED BY <2>1 DEF TypeRest, ApplyClaim, clock, names
<1>11. References(ledger', mapStakers')
  BY <1>4, <1>9 DEF References
<1>12. ClaimClock'
  <2>1. /\ nClaims'[key] = nClaims[key] + 1 /\ nClaims[key] \in Nat
        /\ \A k \in Keys : k # key => nClaims'[k] = nClaims[k]
    BY <1>2, <1>9
  <2>2. /\ Span(nClaims[key]) \in Nat
        /\ Span(nClaims'[key]) = Span(nClaims[key]) + QP_MIN_SECS_PER_CLAIM
    BY <2>1, SpanStep
  <2>3. Span(nClaims[key]) <= ledger.mapLastClaim[key]
    BY <1>3 DEF ClaimClock
  <2>4. Span(nClaims'[key]) <= nTime
    BY <1>1, <1>2, <1>3, <2>2, <2>3
  <2>5. \A k \in DOMAIN c : Span(nClaims'[k]) <= c[k] /\ c[k] <= nTime
    <3> SUFFICES ASSUME NEW k \in DOMAIN c
                 PROVE  Span(nClaims'[k]) <= c[k] /\ c[k] <= nTime
      OBVIOUS
    <3>1. CASE k = key
      BY <3>1, <1>2, <1>6, <2>4
    <3>2. CASE k # key
      <4>1. k \in Keys
        BY <1>6 DEF IsMap
      <4> QED BY <3>2, <4>1, <1>6, <2>1 DEF ClaimClock
    <3> QED BY <3>1, <3>2
  <2>6. \A k \in Keys \ DOMAIN c : nClaims'[k] = 0
    BY <1>3, <1>6, <2>1 DEF ClaimClock
  <2> QED BY <1>4, <1>9, <2>5, <2>6 DEF ClaimClock
<1> QED BY <1>8, <1>10, <1>11, <1>12, IInvParts

\* The end of a block before qPoS keeps the invariant.
LEMMA EndBlockIInv == ASSUME IInv, EndBlockBeforeQPoS PROVE IInv'
<1>0. LedgerOK(ledger) /\ TypeRest /\ References(ledger, mapStakers) /\ ClaimClock
  BY IInvFacts
<1> USE <1>0
<1>1. ledger' = ledger /\ mapStakers' = mapStakers /\ nClaims' = nClaims /\ nTime' = nTime
  BY DEF EndBlockBeforeQPoS, history
<1>2. TypeRest'
  BY DEF TypeRest, EndBlockBeforeQPoS, names, history
<1>3. ClaimClock'
  BY <1>1 DEF ClaimClock
<1> QED BY <1>1, <1>2, <1>3, IInvParts

\* A counted reference means an entry in the ledger: a staker's keys have one.
LEMMA StakerKeysCounted ==
    ASSUME IInv, NEW i \in DOMAIN mapStakers
    PROVE  /\ mapStakers[i].pubkeyManager \in DOMAIN ledger.mapActive
           /\ mapStakers[i].pubkeyDelegate \in DOMAIN ledger.mapActive
<1> DEFINE m == mapStakers[i].pubkeyManager
           d == mapStakers[i].pubkeyDelegate
<1>0. TypeRest /\ References(ledger, mapStakers)
  BY IInvFacts
<1>1. m \in Keys /\ d \in Keys
  BY <1>0 DEF TypeRest, Staker
<1>2. i \in ManagedBy(mapStakers, m) /\ i \in DelegatedTo(mapStakers, d)
  BY DEF ManagedBy, DelegatedTo
<1> HIDE DEF m, d
<1>3. \A k \in Keys :
         /\ IsFiniteSet(ManagedBy(mapStakers, k)) /\ Cardinality(ManagedBy(mapStakers, k)) \in Nat
         /\ IsFiniteSet(DelegatedTo(mapStakers, k)) /\ Cardinality(DelegatedTo(mapStakers, k)) \in Nat
  BY <1>0, StakerSets DEF TypeRest
<1>4. Cardinality(ManagedBy(mapStakers, m)) # 0 /\ Cardinality(DelegatedTo(mapStakers, d)) # 0
  BY <1>1, <1>2, <1>3, FS_EmptySet
<1>5. Lookup(ledger.mapActive, m) # 0 /\ Lookup(ledger.mapActive, d) # 0
  BY <1>0, <1>1, <1>3, <1>4 DEF References
<1>6. m \in DOMAIN ledger.mapActive /\ d \in DOMAIN ledger.mapActive
  BY <1>5 DEF Lookup
<1> QED BY <1>6 DEF m, d

\* Paying the producer keeps the invariant.
LEMMA StakerProducedBlockIInv ==
    ASSUME IInv, NEW nID \in DOMAIN mapStakers, NEW nReward \in Rewards,
           StakerProducedBlock(nID, nReward)
    PROVE  IInv'
<1>0. LedgerOK(ledger) /\ TypeRest /\ References(ledger, mapStakers) /\ ClaimClock
  BY IInvFacts
<1> USE <1>0
<1>1. /\ mapStakers \in [1..nIDCounter -> Staker]
      /\ nReward \in Nat
      /\ mapStakers[nID] \in Staker
  BY AmountAssumption DEF TypeRest
<1>2. /\ LedgerOK(ledger')
      /\ ledger'.mapActive = ledger.mapActive
      /\ ledger'.mapLastClaim = ledger.mapLastClaim
  <2>1. ledger' = Payout(ledger, mapStakers[nID], nReward)
    BY DEF StakerProducedBlock
  <2> QED BY <1>1, <2>1, StakerKeysCounted, PayoutOK
<1>3. /\ mapStakers' \in [1..nIDCounter -> Staker]
      /\ \A i \in DOMAIN mapStakers :
            /\ mapStakers'[i].pubkeyManager = mapStakers[i].pubkeyManager
            /\ mapStakers'[i].pubkeyDelegate = mapStakers[i].pubkeyDelegate
  <2>1. PICK q \in BOOLEAN :
          mapStakers' = [mapStakers EXCEPT ![nID].nTotalEarned = @ + nReward,
                                           ![nID].fQualified = q]
    BY DEF StakerProducedBlock
  <2> QED BY <1>1, <2>1 DEF Staker
<1>4. TypeRest'
  BY <1>3 DEF TypeRest, StakerProducedBlock, names, history
<1>5. References(ledger', mapStakers')
  <2>1. DOMAIN mapStakers' = DOMAIN mapStakers
    BY <1>1, <1>3
  <2>2. \A k \in Keys : Lookup(ledger'.mapActive, k) = Lookup(ledger.mapActive, k)
    BY <1>2
  <2> QED BY <1>3, <2>1, <2>2, SameReferences
<1>6. ClaimClock'
  BY <1>2 DEF ClaimClock, StakerProducedBlock, history
<1> QED BY <1>2, <1>4, <1>5, <1>6, IInvParts

-----------------------------------------------------------------------------
(* Theorems *)

\* IInv is inductive.
LEMMA NextIInv == IInv /\ [Next]_vars => IInv'
<1> SUFFICES ASSUME IInv, [Next]_vars PROVE IInv'
  OBVIOUS
<1>1. CASE \E d \in DockValues : NewRound(d)
  BY <1>1, NewRoundIInv
<1>2. CASE \E t \in 1..MaxTime : BeginBlock(t)
  BY <1>2, BeginBlockIInv
<1>3. CASE \E staker \in PurchasedStakers, sKey \in Aliases, id \in NftIDs \cup {0} :
              ApplyPurchase(staker, sKey, id)
  BY <1>3, ApplyPurchaseIInv
<1>4. CASE ApplySetKey
  BY <1>4, SetOwnerIInv, SetManagerIInv, SetDelegateIInv DEF ApplySetKey
<1>5. CASE \E key \in Keys, value \in ClaimValues : ApplyClaim(key, value)
  BY <1>5, ApplyClaimIInv
<1>6. CASE EndBlockBeforeQPoS
  BY <1>6, EndBlockIInv
<1>7. CASE \E nID \in DOMAIN mapStakers, nReward \in Rewards :
              StakerProducedBlock(nID, nReward)
  BY <1>7, StakerProducedBlockIInv
<1>8. CASE UNCHANGED vars
  BY <1>8 DEF vars, IInv, TypeOK, LedgerDomains, BalancesNonNegative,
              ActiveCountsReferences, Managed, Delegated, ClaimClock
<1> QED BY <1>1, <1>2, <1>3, <1>4, <1>5, <1>6, <1>7, <1>8 DEF Next

\* The invariant holds in every reachable state.
LEMMA InvariantHolds == Spec => []IInv
  BY InitIInv, NextIInv, PTL DEF Spec

\* Every variable of the key ledger keeps its type.
THEOREM TypeCorrect == Spec => []TypeOK
<1>1. IInv => TypeOK
  BY DEF IInv
<1> QED BY <1>1, InvariantHolds, PTL

\* mapActive counts the stakers' references exactly, for any number of stakers
\* and keys: ApplySetKey's "TSNH" failures are unreachable.
THEOREM CountsAreReferences == Spec => []ActiveCountsReferences
<1>1. IInv => ActiveCountsReferences
  BY DEF IInv
<1> QED BY <1>1, InvariantHolds, PTL

\* The three maps of the ledger agree on which keys they hold.
THEOREM DomainsAgree == Spec => []LedgerDomains
<1>1. IInv => LedgerDomains
  BY DEF IInv
<1> QED BY <1>1, InvariantHolds, PTL

\* Docks and claims never leave a negative balance behind.
THEOREM BalancesStayNonNegative == Spec => []BalancesNonNegative
<1>1. IInv => BalancesNonNegative
  BY DEF IInv
<1> QED BY <1>1, InvariantHolds, PTL

\* A key is paid at most one claim per QP_MIN_SECS_PER_CLAIM seconds.
THEOREM ClaimsAreSpaced == Spec => []ClaimRate
<1>1. IInv => ClaimRate
  <2> SUFFICES ASSUME IInv, NEW k \in Keys PROVE Span(nClaims[k]) <= nTime
    BY DEF ClaimRate, Span
  <2>1. /\ TypeRest /\ ClaimClock
        /\ \A x \in DOMAIN ledger.mapLastClaim : ledger.mapLastClaim[x] \in Nat
    BY IInvFacts DEF LedgerOK, LedgerType, IsMap
  <2>2. nClaims[k] \in Nat /\ nTime \in Nat
    BY <2>1 DEF TypeRest
  <2>3. Span(nClaims[k]) \in Nat /\ Span(0) = 0
    BY <2>2, SpanStep
  <2> QED BY <2>1, <2>2, <2>3 DEF ClaimClock
<1> QED BY <1>1, InvariantHolds, PTL

-----------------------------------------------------------------------------
(* Balances of referenced keys *)

\* the step formula of ReferencedKeepBalance
KeepStep ==
    \A k \in Keys :
        Referenced(k) /\ Referenced(k)' /\ nClaims'[k] = nClaims[k] =>
            ledger'.mapBalances[k] >= ledger.mapBalances[k]

\* Every step keeps the balances of the keys that stay referenced.
LEMMA NextKeeps == ASSUME IInv, [Next]_vars PROVE KeepStep
<1>0. LedgerOK(ledger) /\ TypeRest
  BY IInvFacts
<1>1. /\ \A k \in Keys : Referenced(k) => k \in DOMAIN ledger.mapBalances
      /\ \A k \in DOMAIN ledger.mapBalances : ledger.mapBalances[k] \in Int
      /\ nTime \in Nat /\ mapStakers \in [1..nIDCounter -> Staker]
      /\ nClaims \in [Keys -> Nat]
  BY <1>0 DEF LedgerOK, LedgerType, DomainsOK, IsMap, Referenced, Lookup, TypeRest
<1>2. ASSUME BalanceKept(ledger, ledger') PROVE KeepStep
  BY <1>2 DEF BalanceKept, KeepStep, Referenced
<1>3. ASSUME ledger' = ledger PROVE KeepStep
  BY <1>1, <1>3 DEF KeepStep
<1>4. ASSUME NEW d \in DockValues, NewRound(d) PROVE KeepStep
  <2>1. d \in Nat
    BY AmountAssumption
  <2>2. BalanceKept(ledger, ledger')
    BY <1>0, <1>4, <2>1, DockAndPurgeOK DEF NewRound
  <2> QED BY <1>2, <2>2
<1>5. ASSUME NEW staker \in PurchasedStakers, NEW sKey \in Aliases,
             NEW id \in NftIDs \cup {0}, ApplyPurchase(staker, sKey, id)
      PROVE  KeepStep
  <2>1. staker \in Staker
    BY PurchasedType
  <2>2. BalanceKept(ledger, ledger')
    BY <1>0, <1>1, <1>5, <2>1, ActivateStakerCounts DEF ApplyPurchase
  <2> QED BY <1>2, <2>2
<1>6. ASSUME NEW id \in DOMAIN mapStakers, NEW keyNew \in Keys, SetManager(id, keyNew)
      PROVE  KeepStep
  <2> DEFINE keyOld == mapStakers[id].pubkeyManager
  <2>1. /\ keyOld \in Keys
        /\ CanMoveReference(ledger, keyOld, keyNew)
        /\ ledger' = MoveReference(ledger, keyOld, keyNew, nTime)
    BY <1>1, <1>6 DEF SetManager, Staker
  <2> HIDE DEF keyOld
  <2>2. Moved(ledger, ledger', keyOld, keyNew, nTime)
    BY <1>0, <1>1, <2>1, MoveCounts
  <2> QED BY <1>2, <2>2 DEF Moved
<1>7. ASSUME NEW id \in DOMAIN mapStakers, NEW keyNew \in Keys, NEW pcm \in Pcms,
             SetDelegate(id, keyNew, pcm)
      PROVE  KeepStep
  <2> DEFINE keyOld == mapStakers[id].pubkeyDelegate
  <2>1. /\ keyOld \in Keys
        /\ CanMoveReference(ledger, keyOld, keyNew)
        /\ ledger' = MoveReference(ledger, keyOld, keyNew, nTime)
    BY <1>1, <1>7 DEF SetDelegate, Staker
  <2> HIDE DEF keyOld
  <2>2. Moved(ledger, ledger', keyOld, keyNew, nTime)
    BY <1>0, <1>1, <2>1, MoveCounts
  <2> QED BY <1>2, <2>2 DEF Moved
<1>8. ASSUME NEW key \in Keys, NEW value \in ClaimValues, ApplyClaim(key, value)
      PROVE  KeepStep
  <2>1. nClaims'[key] # nClaims[key]
    BY <1>1, <1>8 DEF ApplyClaim
  <2>2. ledger'.mapBalances = Assign(ledger.mapBalances, key, ledger.mapBalances[key] - value)
    BY <1>0, <1>8 DEF ApplyClaim, LedgerOK, LedgerType
  <2>3. \A k \in DOMAIN ledger.mapBalances :
           k # key => ledger'.mapBalances[k] = ledger.mapBalances[k]
    BY <2>2 DEF Assign
  <2> QED BY <1>1, <2>1, <2>3 DEF KeepStep
<1>9. ASSUME NEW nID \in DOMAIN mapStakers, NEW nReward \in Rewards,
             StakerProducedBlock(nID, nReward)
      PROVE  KeepStep
  <2>1. /\ mapStakers[nID] \in Staker
        /\ nReward \in Nat
        /\ ledger' = Payout(ledger, mapStakers[nID], nReward)
    BY <1>1, <1>9, AmountAssumption DEF StakerProducedBlock
  <2>2. \A x \in DOMAIN ledger.mapBalances :
            ledger'.mapBalances[x] >= ledger.mapBalances[x]
    BY <1>0, <2>1, StakerKeysCounted, PayoutOK
  <2> QED BY <1>1, <2>2 DEF KeepStep
<1>10. CASE \/ \E t \in 1..MaxTime : BeginBlock(t)
            \/ \E id \in DOMAIN mapStakers, keyNew \in Keys : SetOwner(id, keyNew)
            \/ EndBlockBeforeQPoS
            \/ UNCHANGED vars
  <2>1. ledger' = ledger
    BY <1>10 DEF BeginBlock, SetOwner, EndBlockBeforeQPoS, vars
  <2> QED BY <1>3, <2>1
<1> QED BY <1>4, <1>5, <1>6, <1>7, <1>8, <1>9, <1>10 DEF Next, ApplySetKey

\* No step but its own claim takes from the balance of a key that stays
\* referenced.
THEOREM ReferencedKeepTheirBalance == Spec => ReferencedKeepBalance
<1>1. IInv /\ [Next]_vars => [KeepStep]_vars
  BY NextKeeps
<1> QED BY <1>1, InvariantHolds, PTL DEF Spec, ReferencedKeepBalance, KeepStep

-----------------------------------------------------------------------------
(* Names *)

NamesInv == TypeRest /\ NftsOnePerStaker /\ ReservedAliasFollowsNft

\* Purchases hand out names consistently; nothing else touches them.
LEMMA NamesStep == IInv /\ NamesInv /\ [Next]_vars => NamesInv'
<1> SUFFICES ASSUME IInv, NamesInv, [Next]_vars PROVE NamesInv'
  OBVIOUS
<1>0. TypeRest'
  <2>1. IInv'
    BY NextIInv
  <2> QED BY <2>1 DEF IInv, TypeOK, TypeRest
<1>1. ASSUME NEW staker \in PurchasedStakers, NEW sKey \in Aliases,
             NEW id \in NftIDs \cup {0}, ApplyPurchase(staker, sKey, id)
      PROVE  NamesInv'
  <2> DEFINE i == nIDCounter + 1
  <2>1. PICK n \in NftFor(sKey, id) :
          /\ mapNftOwners' = Assign(mapNftOwners, i, n)
          /\ mapNftOwnerLookup' = Assign(mapNftOwnerLookup, n, i)
    BY <1>1 DEF ApplyPurchase
  <2>2. /\ n \in NftIDs /\ n \notin DOMAIN mapNftOwnerLookup
        /\ \A m \in NftIDs : strCharKey[m] = sKey => m = n
    <3>1. n \in FreeNfts
      BY <2>1 DEF NftFor
    <3>2. \A m \in NftIDs : strCharKey[m] = sKey => strCharKey[n] = sKey
      BY <2>1, <3>1 DEF NftFor
    <3> QED BY <3>1, <3>2, NftAssumption DEF FreeNfts
  <2>3. /\ nIDCounter \in Nat
        /\ nIDCounter' = i
        /\ mapAliases' = Assign(mapAliases, sKey, i)
        /\ sKey \notin DOMAIN mapAliases
    BY <1>1 DEF ApplyPurchase, NamesInv, TypeRest
  <2>4. 1..i = (1..nIDCounter) \cup {i} /\ i \notin 1..nIDCounter
    BY <2>3
  <2>5. /\ DOMAIN mapNftOwners' = 1..i
        /\ mapNftOwners'[i] = n
        /\ \A j \in 1..nIDCounter : mapNftOwners'[j] = mapNftOwners[j]
    BY <2>1, <2>4 DEF Assign, NamesInv, NftsOnePerStaker
  <2>6. /\ DOMAIN mapNftOwnerLookup' = DOMAIN mapNftOwnerLookup \cup {n}
        /\ mapNftOwnerLookup'[n] = i
        /\ \A m \in DOMAIN mapNftOwnerLookup : mapNftOwnerLookup'[m] = mapNftOwnerLookup[m]
    BY <2>1, <2>2 DEF Assign
  <2>7. \A m \in DOMAIN mapNftOwnerLookup : mapNftOwnerLookup[m] \in 1..nIDCounter
    BY DEF NamesInv, TypeRest, IsMap
  <2>8. NftsOnePerStaker'
    BY <2>2, <2>3, <2>4, <2>5, <2>6, <2>7 DEF NamesInv, NftsOnePerStaker
  <2>9. /\ DOMAIN mapAliases' = DOMAIN mapAliases \cup {sKey}
        /\ mapAliases'[sKey] = i
        /\ \A a \in DOMAIN mapAliases : mapAliases'[a] = mapAliases[a]
    BY <2>3 DEF Assign
  <2>10. ReservedAliasFollowsNft'
    <3> SUFFICES ASSUME NEW m \in NftIDs, strCharKey[m] \in DOMAIN mapAliases'
                 PROVE  /\ m \in DOMAIN mapNftOwnerLookup'
                        /\ mapNftOwnerLookup'[m] = mapAliases'[strCharKey[m]]
      BY DEF ReservedAliasFollowsNft
    <3>1. CASE strCharKey[m] = sKey
      BY <3>1, <2>2, <2>6, <2>9
    <3>2. CASE strCharKey[m] # sKey
      BY <3>2, <2>6, <2>9 DEF NamesInv, ReservedAliasFollowsNft
    <3> QED BY <3>1, <3>2
  <2> QED BY <1>0, <2>8, <2>10 DEF NamesInv
<1>2. ASSUME UNCHANGED <<nIDCounter, names>> PROVE NamesInv'
  BY <1>0, <1>2 DEF NamesInv, names, NftsOnePerStaker, ReservedAliasFollowsNft
<1>3. CASE \E d \in DockValues : NewRound(d)
  BY <1>2, <1>3 DEF NewRound
<1>4. CASE \E t \in 1..MaxTime : BeginBlock(t)
  BY <1>2, <1>4 DEF BeginBlock
<1>5. CASE ApplySetKey
  BY <1>2, <1>5 DEF ApplySetKey, SetOwner, SetManager, SetDelegate
<1>6. CASE \E key \in Keys, value \in ClaimValues : ApplyClaim(key, value)
  BY <1>2, <1>6 DEF ApplyClaim
<1>7. CASE EndBlockBeforeQPoS
  BY <1>2, <1>7 DEF EndBlockBeforeQPoS
<1>8. CASE \E nID \in DOMAIN mapStakers, nReward \in Rewards :
              StakerProducedBlock(nID, nReward)
  BY <1>2, <1>8 DEF StakerProducedBlock
<1>9. CASE UNCHANGED vars
  BY <1>2, <1>9 DEF vars, names
<1> QED BY <1>1, <1>3, <1>4, <1>5, <1>6, <1>7, <1>8, <1>9 DEF Next

\* The names are consistent in every reachable state.
LEMMA NamesHold == Spec => []NamesInv
<1>1. Init => NamesInv
  <2> SUFFICES ASSUME Init PROVE NamesInv
    OBVIOUS
  <2>1. TypeRest
    BY InitIInv, IInvFacts
  <2>2. 1..0 = {} /\ DOMAIN EmptyMap = {}
    BY DEF EmptyMap
  <2> QED BY <2>1, <2>2 DEF Init, NamesInv, NftsOnePerStaker, ReservedAliasFollowsNft
<1> QED BY <1>1, NamesStep, InvariantHolds, PTL DEF Spec

\* Every staker owns exactly one NFT and no NFT has two owners.
THEOREM OneNftPerStaker == Spec => []NftsOnePerStaker
<1>1. NamesInv => NftsOnePerStaker
  BY DEF NamesInv
<1> QED BY <1>1, NamesHold, PTL

\* The holder of a reserved alias owns the NFT that reserves it.
THEOREM ReservedAliasesFollow == Spec => []ReservedAliasFollowsNft
<1>1. NamesInv => ReservedAliasFollowsNft
  BY DEF NamesInv
<1> QED BY <1>1, NamesHold, PTL

=============================================================================
