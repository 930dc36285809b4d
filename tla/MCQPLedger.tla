----------------------------- MODULE MCQPLedger -----------------------------
(* Small instances of QPLedger for TLC. *)
EXTENDS QPLedger, FiniteSetsExt, TLC

\* NFT 1 reserves the alias "nick", NFT 2 "nora", NFT 3 "obi"
CharKeys2 == 1 :> "nick" @@ 2 :> "nora"
CharKeys3 == CharKeys2 @@ 3 :> "obi"

KeySymmetry == Permutations(Keys)

SumOver(S, f(_)) == MapThenSumSet(f, S)

\* No coin is created by the ledger: what the keys hold and what they claimed
\* never exceeds what the stakers earned, whatever rounding StakerProducedBlock
\* does when it splits a reward between manager and delegate.
Conservation ==
    SumOver(DOMAIN ledger.mapBalances, LAMBDA k : ledger.mapBalances[k]) + nClaimed
        <= SumOver(DOMAIN mapStakers, LAMBDA i : mapStakers[i].nTotalEarned)

=============================================================================
