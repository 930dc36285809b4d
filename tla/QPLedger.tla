------------------------------ MODULE QPLedger ------------------------------
(***************************************************************************)
(* The key ledger of the qPoS registry (QPRegistry): which public keys the *)
(* stakers name, how often each is referenced (mapActive), what each may   *)
(* claim (mapBalances), when it last claimed (mapLastClaim), and the names *)
(* (aliases and NFTs) purchases hand out.                                  *)
(*                                                                         *)
(* A block is applied by UpdateOnNewBlock in a fixed order: forks and new  *)
(* rounds first, then the block's operations, then the producer's reward.  *)
(* BeginBlock, the Apply actions and EndBlock follow that order; NewRound  *)
(* is the ledger's part of a queue change, which happens between blocks.   *)
(* An operation the code refuses makes it discard the temporary registry   *)
(* (or exit), so a refusal is a disabled action here.  The model is of     *)
(* mainnet (fTestNet = false) from XST_FORKPURCHASE3 on.                   *)
(***************************************************************************)
EXTENDS Integers, FiniteSets, Sequences

CONSTANTS
    Keys,                   \* public keys
    Aliases,                \* valid aliases, already lower case
    NftIDs,                 \* the IDs of mapNfts
    strCharKey,             \* the alias reserved by each NFT
    Pcms,                   \* delegate payouts, in thousandths of a percent
    Rewards,                \* values GetQPoSReward can return
    DockValues,             \* values of nMoneySupply / DOCK_INACTIVE_FRACTION
    ClaimValues,            \* amounts of claims
    QP_MIN_SECS_PER_CLAIM,
    ForkQPoS,               \* first height of XST_FORKQPOS
    ForkReinstate,          \* first height of XST_FORKREINSTATE
    MaxStakers,             \* bound on purchases
    MaxHeight,              \* bound on blocks
    MaxTime                 \* bound on block times

\* payouts SetDelegatePayout accepts: at most 100%
Pcm == {n \in Nat : n <= 100000}

ASSUME NftAssumption ==
    /\ NftIDs \subseteq Nat \ {0}
    /\ strCharKey \in [NftIDs -> Aliases]
    /\ \A m, n \in NftIDs : strCharKey[m] = strCharKey[n] => m = n

ASSUME AmountAssumption ==
    /\ Pcms \subseteq Pcm
    /\ Rewards \subseteq Nat
    /\ DockValues \subseteq Nat
    /\ ClaimValues \subseteq Nat \ {0}

ASSUME HeightAssumption ==
    /\ QP_MIN_SECS_PER_CLAIM \in Nat \ {0}
    /\ ForkQPoS \in Nat
    /\ ForkReinstate \in Nat
    /\ {MaxStakers, MaxHeight, MaxTime} \subseteq Nat

VARIABLES
    nBlockHeight,       \* height of the last block applied to the registry
    nHeight,            \* height of the block being applied, or nBlockHeight
    nTime,              \* time of the block being applied, or of the last one
    nIDCounter,         \* ID of the youngest staker
    mapStakers,         \* staker ID -> staker
    ledger,             \* mapActive, mapBalances and mapLastClaim
    mapAliases,         \* alias -> staker ID
    mapNftOwners,       \* staker ID -> NFT ID
    mapNftOwnerLookup,  \* NFT ID -> staker ID
    nClaims,            \* history: key -> number of claims paid
    nClaimed            \* history: sum of the claims paid

vars == <<nBlockHeight, nHeight, nTime, nIDCounter, mapStakers, ledger,
          mapAliases, mapNftOwners, mapNftOwnerLookup, nClaims, nClaimed>>

clock == <<nBlockHeight, nHeight, nTime>>
names == <<mapAliases, mapNftOwners, mapNftOwnerLookup>>
history == <<nClaims, nClaimed>>

-----------------------------------------------------------------------------
(* C++ maps are functions whose domain is the set of keys present.         *)

EmptyMap == [x \in {} |-> x]

\* the value C++'s operator[] reads: a missing number is created as zero
Lookup(m, k) == IF k \in DOMAIN m THEN m[k] ELSE 0

Assign(m, k, v) == [x \in DOMAIN m \cup {k} |-> IF x = k THEN v ELSE m[x]]

Erase(m, S) == [x \in DOMAIN m \ S |-> m[x]]

-----------------------------------------------------------------------------
(* Stakers *)

Staker == [pubkeyOwner : Keys, pubkeyManager : Keys, pubkeyDelegate : Keys,
           nPcmDelegatePayout : Pcm, nTotalEarned : Nat, fQualified : BOOLEAN]

NewStaker(owner, manager, delegate, pcm) ==
    [pubkeyOwner |-> owner, pubkeyManager |-> manager, pubkeyDelegate |-> delegate,
     nPcmDelegatePayout |-> pcm, nTotalEarned |-> 0, fQualified |-> TRUE]

\* TX_PURCHASE1 carries one key for all roles, TX_PURCHASE4 names the roles (the
\* manager is also the delegate if it carries only three keys).  The controller
\* key has no part in the ledger.
PurchasedStakers ==
    {NewStaker(k, k, k, 0) : k \in Keys}
        \cup {NewStaker(o, m, d, pcm) : o, m, d \in Keys, pcm \in Pcms}

\* The delegate's part of a reward; the rest is the owner's, paid to the
\* manager key.
DelegateReward(s, nReward) ==
    IF s.nPcmDelegatePayout = 0 \/ s.pubkeyDelegate = s.pubkeyOwner
    THEN 0
    ELSE (nReward * s.nPcmDelegatePayout) \div 100000

-----------------------------------------------------------------------------
(* The ledger *)

\* Fault: every activation resets the balance, not only the first.
ActivatePubKeyAlwaysFresh(l, key, t) ==
    [mapActive    |-> Assign(l.mapActive, key, Lookup(l.mapActive, key) + 1),
     mapBalances  |-> Assign(l.mapBalances, key, 0),
     mapLastClaim |-> Assign(l.mapLastClaim, key, t)]

ActivatePubKey(l, key, t) ==
    LET fresh == Lookup(l.mapActive, key) = 0
    IN  [mapActive    |-> Assign(l.mapActive, key, Lookup(l.mapActive, key) + 1),
         mapBalances  |-> IF fresh THEN Assign(l.mapBalances, key, 0)
                                   ELSE l.mapBalances,
         mapLastClaim |-> IF fresh THEN Assign(l.mapLastClaim, key, t)
                                   ELSE l.mapLastClaim]

CanDeactivate(l, key) == key \in DOMAIN l.mapActive /\ l.mapActive[key] >= 1

DeactivatePubKey(l, key) ==
    [l EXCEPT !.mapActive = Assign(@, key, @[key] - 1)]

\* Replacing a manager or delegate key moves one reference.
MoveReference(l, keyOld, keyNew, t) ==
    IF keyNew = keyOld
    THEN l
    ELSE ActivatePubKey(DeactivatePubKey(l, keyOld), keyNew, t)

\* Fault: a delegate that is paid nothing is not counted.
ActivateStakerIfPaid(l, s, t) ==
    IF s.nPcmDelegatePayout = 0
    THEN ActivatePubKey(l, s.pubkeyManager, t)
    ELSE ActivatePubKey(ActivatePubKey(l, s.pubkeyManager, t), s.pubkeyDelegate, t)

\* A new staker's manager and delegate are counted, the delegate even if it is
\* paid nothing.
ActivateStaker(l, s, t) ==
    ActivatePubKey(ActivatePubKey(l, s.pubkeyManager, t), s.pubkeyDelegate, t)

CanMoveReference(l, keyOld, keyNew) == keyNew = keyOld \/ CanDeactivate(l, keyOld)

Credit(l, key, n) ==
    [l EXCEPT !.mapBalances = Assign(@, key, Lookup(@, key) + n)]

\* Fault: the delegate's part is paid on top of the full reward.
PayoutTwice(l, s, nReward) ==
    Credit(Credit(l, s.pubkeyManager, nReward),
           s.pubkeyDelegate, DelegateReward(s, nReward))

Payout(l, s, nReward) ==
    LET nDelegateReward == DelegateReward(s, nReward)
        paid == Credit(l, s.pubkeyManager, nReward - nDelegateReward)
    IN  IF nDelegateReward > 0
        THEN Credit(paid, s.pubkeyDelegate, nDelegateReward)
        ELSE paid

\* Fault: the claim is not compared with the balance.
CanClaimAnything(l, key, value, nClaimTime) ==
    /\ key \in DOMAIN l.mapBalances
    /\ key \in DOMAIN l.mapLastClaim =>
         nClaimTime >= l.mapLastClaim[key] + QP_MIN_SECS_PER_CLAIM

\* Fault: the time since the last claim is not looked at.
CanClaimAnytime(l, key, value, nClaimTime) ==
    /\ key \in DOMAIN l.mapBalances
    /\ value <= l.mapBalances[key]

CanClaimInternal(l, key, value, nClaimTime) ==
    /\ key \in DOMAIN l.mapBalances
    /\ value <= l.mapBalances[key]
    /\ key \in DOMAIN l.mapLastClaim =>
         nClaimTime >= l.mapLastClaim[key] + QP_MIN_SECS_PER_CLAIM

\* Fault: a count of zero is not taken for inactive.
DockNegativeCounts(l, nDockValue) ==
    [l EXCEPT !.mapBalances =
        [k \in DOMAIN @ |-> IF k \in DOMAIN l.mapActive /\ l.mapActive[k] < 0
                            THEN @[k] - nDockValue ELSE @[k]]]

DockInactiveKeys(l, nDockValue) ==
    [l EXCEPT !.mapBalances =
        [k \in DOMAIN @ |-> IF k \in DOMAIN l.mapActive /\ l.mapActive[k] < 1
                            THEN @[k] - nDockValue ELSE @[k]]]

\* Fault: the purge leaves the count behind.
PurgeBalancesOnly(l, nDockValue) ==
    [l EXCEPT !.mapBalances =
        Erase(@, {k \in DOMAIN @ : @[k] < nDockValue /\ Lookup(l.mapActive, k) <= 0})]

PurgeLowBalances(l, nDockValue) ==
    LET vPurge == {k \in DOMAIN l.mapBalances :
                      l.mapBalances[k] < nDockValue /\ Lookup(l.mapActive, k) <= 0}
    IN  [l EXCEPT !.mapBalances = Erase(@, vPurge),
                  !.mapActive = Erase(@, vPurge)]

-----------------------------------------------------------------------------
(* Names *)

\* Fault: an NFT with an owner is still offered.
FreeNftsOwnedToo == NftIDs

FreeNfts == NftIDs \ DOMAIN mapNftOwnerLookup

\* Fault: an NFT is looked up among the stakers' IDs, as before
\* XST_FORKPURCHASE3, when it is chosen by ID.
NftForByOwner(sKey, id) ==
    IF id # 0
    THEN {n \in NftIDs \ DOMAIN mapNftOwners : n = id /\ strCharKey[n] = sKey}
    ELSE {n \in FreeNfts : \A m \in FreeNfts : n <= m}

\* The NFT a purchase is given: the one it names by ID, the one its alias is
\* reserved for, or the first free one.  The set is empty where the code fails.
NftFor(sKey, id) ==
    IF id # 0
    THEN {n \in FreeNfts : n = id /\ strCharKey[n] = sKey}
    ELSE IF \E n \in NftIDs : strCharKey[n] = sKey
    THEN {n \in FreeNfts : strCharKey[n] = sKey}
    ELSE {n \in FreeNfts : \A m \in FreeNfts : n <= m}

-----------------------------------------------------------------------------
Init ==
    /\ nBlockHeight = 0 /\ nHeight = 0 /\ nTime = 0
    /\ nIDCounter = 0
    /\ mapStakers = EmptyMap
    /\ ledger = [mapActive |-> EmptyMap, mapBalances |-> EmptyMap,
                 mapLastClaim |-> EmptyMap]
    /\ mapAliases = EmptyMap
    /\ mapNftOwners = EmptyMap
    /\ mapNftOwnerLookup = EmptyMap
    /\ nClaims = [k \in Keys |-> 0]
    /\ nClaimed = 0

InBlock == nHeight > nBlockHeight

\* NewQueue fails, and with it the update, when nobody can be scheduled.  Who
\* is enabled and whose slot it is are the business of QPRounds.
HasProducer(stakers) == \E i \in DOMAIN stakers : stakers[i].fQualified

\* A queue ran out: unreferenced keys pay the dock, then the poor are purged.
NewRound(nDockValue) ==
    /\ ~InBlock
    /\ nHeight + 1 >= ForkQPoS
    /\ HasProducer(mapStakers)
    /\ ledger' = PurgeLowBalances(DockInactiveKeys(ledger, nDockValue), nDockValue)
    /\ UNCHANGED <<clock, nIDCounter, mapStakers, names, history>>

\* A block arrives.  The first one of XST_FORKREINSTATE requalifies everyone.
BeginBlock(t) ==
    /\ ~InBlock
    /\ nHeight < MaxHeight
    /\ t > nTime
    /\ nHeight' = nHeight + 1
    /\ nTime' = t
    /\ mapStakers' =
         IF nHeight < ForkReinstate /\ nHeight + 1 >= ForkReinstate
         THEN [i \in DOMAIN mapStakers |-> [mapStakers[i] EXCEPT !.fQualified = TRUE]]
         ELSE mapStakers
    /\ nHeight + 1 >= ForkQPoS => HasProducer(mapStakers')
    /\ UNCHANGED <<nBlockHeight, nIDCounter, ledger, names, history>>

\* Fault: the staker is stored under the counter's old value.
ApplyPurchaseOldID(staker, sKey, id) ==
    /\ InBlock
    /\ nIDCounter < MaxStakers
    /\ sKey \notin DOMAIN mapAliases
    /\ \E n \in NftFor(sKey, id) :
         /\ mapNftOwners' = Assign(mapNftOwners, nIDCounter + 1, n)
         /\ mapNftOwnerLookup' = Assign(mapNftOwnerLookup, n, nIDCounter + 1)
    /\ nIDCounter' = nIDCounter + 1
    /\ mapStakers' = Assign(mapStakers, nIDCounter, staker)
    /\ ledger' = ActivateStaker(ledger, staker, nTime)
    /\ mapAliases' = Assign(mapAliases, sKey, nIDCounter + 1)
    /\ UNCHANGED <<clock, history>>

ApplyPurchase(staker, sKey, id) ==
    /\ InBlock
    /\ nIDCounter < MaxStakers
    /\ sKey \notin DOMAIN mapAliases
    /\ \E n \in NftFor(sKey, id) :
         /\ mapNftOwners' = Assign(mapNftOwners, nIDCounter + 1, n)
         /\ mapNftOwnerLookup' = Assign(mapNftOwnerLookup, n, nIDCounter + 1)
    /\ nIDCounter' = nIDCounter + 1
    /\ mapStakers' = Assign(mapStakers, nIDCounter + 1, staker)
    /\ ledger' = ActivateStaker(ledger, staker, nTime)
    /\ mapAliases' = Assign(mapAliases, sKey, nIDCounter + 1)
    /\ UNCHANGED <<clock, history>>

CanSetKey(id) == InBlock /\ id \in DOMAIN mapStakers /\ mapStakers[id].fQualified

SetOwner(id, keyNew) ==
    /\ CanSetKey(id)
    /\ mapStakers' = [mapStakers EXCEPT ![id].pubkeyOwner = keyNew]
    /\ UNCHANGED <<clock, nIDCounter, ledger, names, history>>

SetManager(id, keyNew) ==
    LET keyOld == mapStakers[id].pubkeyManager
    IN  /\ CanSetKey(id)
        /\ CanMoveReference(ledger, keyOld, keyNew)
        /\ ledger' = MoveReference(ledger, keyOld, keyNew, nTime)
        /\ mapStakers' = [mapStakers EXCEPT ![id].pubkeyManager = keyNew]
        /\ UNCHANGED <<clock, nIDCounter, names, history>>

SetDelegate(id, keyNew, pcm) ==
    LET keyOld == mapStakers[id].pubkeyDelegate
    IN  /\ CanSetKey(id)
        /\ CanMoveReference(ledger, keyOld, keyNew)
        /\ ledger' = MoveReference(ledger, keyOld, keyNew, nTime)
        /\ mapStakers' = [mapStakers EXCEPT ![id].pubkeyDelegate = keyNew,
                                            ![id].nPcmDelegatePayout = pcm]
        /\ UNCHANGED <<clock, nIDCounter, names, history>>

ApplyClaim(key, value) ==
    /\ InBlock
    /\ CanClaimInternal(ledger, key, value, nTime)
    /\ ledger' = [ledger EXCEPT !.mapLastClaim = Assign(@, key, nTime),
                                !.mapBalances = Assign(@, key, @[key] - value)]
    /\ nClaims' = [nClaims EXCEPT ![key] = @ + 1]
    /\ nClaimed' = nClaimed + value
    /\ UNCHANGED <<clock, nIDCounter, mapStakers, names>>

\* Before XST_FORKQPOS a block pays nobody through the registry.
EndBlockBeforeQPoS ==
    /\ InBlock
    /\ nHeight < ForkQPoS
    /\ nBlockHeight' = nHeight
    /\ UNCHANGED <<nHeight, nTime, nIDCounter, mapStakers, ledger, names, history>>

\* The producer is paid and, while the registry is below XST_FORKREINSTATE,
\* may be disqualified (its statistics decide; they are in QPRounds).
StakerProducedBlock(nID, nReward) ==
    /\ InBlock
    /\ nHeight >= ForkQPoS
    /\ nID \in DOMAIN mapStakers
    /\ mapStakers[nID].fQualified
    /\ ledger' = Payout(ledger, mapStakers[nID], nReward)
    /\ \E fQualified \in IF nBlockHeight < ForkReinstate THEN BOOLEAN ELSE {TRUE} :
         mapStakers' = [mapStakers EXCEPT ![nID].nTotalEarned = @ + nReward,
                                          ![nID].fQualified = fQualified]
    /\ nBlockHeight' = nHeight
    /\ UNCHANGED <<nHeight, nTime, nIDCounter, names, history>>

ApplySetKey ==
    \E id \in DOMAIN mapStakers, keyNew \in Keys :
        \/ SetOwner(id, keyNew)
        \/ SetManager(id, keyNew)
        \/ \E pcm \in Pcms : SetDelegate(id, keyNew, pcm)

Next ==
    \/ \E d \in DockValues : NewRound(d)
    \/ \E t \in 1..MaxTime : BeginBlock(t)
    \/ \E staker \in PurchasedStakers, sKey \in Aliases, id \in NftIDs \cup {0} :
         ApplyPurchase(staker, sKey, id)
    \/ ApplySetKey
    \/ \E key \in Keys, value \in ClaimValues : ApplyClaim(key, value)
    \/ EndBlockBeforeQPoS
    \/ \E nID \in DOMAIN mapStakers, nReward \in Rewards :
         StakerProducedBlock(nID, nReward)

Spec == Init /\ [][Next]_vars

\* Blocks that were begun are finished, and rounds keep ending: the chain goes on,
\* and each block takes the queue over every slot up to its time.
FairSpec ==
    /\ Spec
    /\ WF_vars(\E d \in DockValues : NewRound(d))
    /\ WF_vars(EndBlockBeforeQPoS)
    /\ WF_vars(\E nID \in DOMAIN mapStakers, nReward \in Rewards :
                   StakerProducedBlock(nID, nReward))

-----------------------------------------------------------------------------
(* Properties *)

IsMap(m, S, T) == DOMAIN m \subseteq S /\ m \in [DOMAIN m -> T]

LedgerType(l) ==
    /\ l = [mapActive |-> l.mapActive, mapBalances |-> l.mapBalances,
            mapLastClaim |-> l.mapLastClaim]
    /\ IsMap(l.mapActive, Keys, Nat)
    /\ IsMap(l.mapBalances, Keys, Int)
    /\ IsMap(l.mapLastClaim, Keys, Nat)

\* Every variable holds a value of the type its C++ member has.
TypeOK ==
    /\ nBlockHeight \in Nat /\ nHeight \in Nat /\ nTime \in Nat
    /\ nHeight \in {nBlockHeight, nBlockHeight + 1}
    /\ nIDCounter \in Nat
    /\ mapStakers \in [1..nIDCounter -> Staker]
    /\ LedgerType(ledger)
    /\ IsMap(mapAliases, Aliases, 1..nIDCounter)
    /\ IsMap(mapNftOwners, 1..nIDCounter, NftIDs)
    /\ IsMap(mapNftOwnerLookup, NftIDs, 1..nIDCounter)
    /\ nClaims \in [Keys -> Nat]
    /\ nClaimed \in Nat

Managed(k) == {i \in DOMAIN mapStakers : mapStakers[i].pubkeyManager = k}
Delegated(k) == {i \in DOMAIN mapStakers : mapStakers[i].pubkeyDelegate = k}

\* mapActive counts references exactly: over any history of purchases, key
\* changes, docks and purges, a key's count is the number of stakers that name
\* it as manager plus the number that name it as delegate.  The "TSNH old
\* manager not active" and "TSNH old delegate not activated" failures of
\* ApplySetKey therefore cannot happen.
ActiveCountsReferences ==
    \A k \in Keys :
        Lookup(ledger.mapActive, k) = Cardinality(Managed(k)) + Cardinality(Delegated(k))

\* Every key that can be paid, docked or purged has both a count and a balance,
\* and has a time of last claim: DockInactiveKeys' "missing in balances" error
\* is unreachable and no reward creates a balance for an uncounted key.
LedgerDomains ==
    /\ DOMAIN ledger.mapActive = DOMAIN ledger.mapBalances
    /\ DOMAIN ledger.mapBalances \subseteq DOMAIN ledger.mapLastClaim

\* No balance is negative once a queue change or an operation is complete,
\* although DockInactiveKeys takes the dock from keys that cannot afford it.
BalancesNonNegative ==
    \A k \in DOMAIN ledger.mapBalances : ledger.mapBalances[k] >= 0

\* Over its whole history, purges and reactivations included, a key is paid at
\* most one claim in every QP_MIN_SECS_PER_CLAIM seconds.
ClaimRate == \A k \in Keys : nClaims[k] * QP_MIN_SECS_PER_CLAIM <= nTime

\* Every staker owns exactly one NFT, no NFT has two owners, and the two maps
\* SetStakerNft maintains are inverses of one another.
NftsOnePerStaker ==
    /\ DOMAIN mapNftOwners = 1..nIDCounter
    /\ \A i \in 1..nIDCounter :
         /\ mapNftOwners[i] \in DOMAIN mapNftOwnerLookup
         /\ mapNftOwnerLookup[mapNftOwners[i]] = i
    /\ \A n \in DOMAIN mapNftOwnerLookup : mapNftOwners[mapNftOwnerLookup[n]] = n

\* An alias reserved for an NFT is only ever held by the owner of that NFT,
\* whichever of the three ways of choosing an NFT each purchase used.
ReservedAliasFollowsNft ==
    \A n \in NftIDs :
        strCharKey[n] \in DOMAIN mapAliases =>
            /\ n \in DOMAIN mapNftOwnerLookup
            /\ mapNftOwnerLookup[n] = mapAliases[strCharKey[n]]

Referenced(k) == Lookup(ledger.mapActive, k) > 0

\* While a key stays referenced its balance is lowered by its own claims only:
\* no purchase, key change or queue change takes from it.
ReferencedKeepBalance ==
    [][\A k \in Keys :
         Referenced(k) /\ Referenced(k)' /\ nClaims'[k] = nClaims[k] =>
             ledger'.mapBalances[k] >= ledger.mapBalances[k]]_vars

\* A key nobody references is docked away: it is eventually purged from the
\* ledger unless it is referenced again.
UnreferencedLeave ==
    \A k \in Keys :
        (k \in DOMAIN ledger.mapActive /\ ~Referenced(k))
            ~> (k \notin DOMAIN ledger.mapBalances \/ Referenced(k))

\* The comment in ApplyPurchase says that running out of NFTs "should never
\* happen": while an alias that no NFT reserves can still be bought, there is an
\* NFT to go with it.
OrdinaryAliasFindsNft ==
    (\E sKey \in Aliases \ DOMAIN mapAliases : \A n \in NftIDs : strCharKey[n] # sKey)
        => FreeNfts # {}

=============================================================================
