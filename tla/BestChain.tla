----------------------------- MODULE BestChain ------------------------------
(***************************************************************************)
(* What the chain code promises of the best chain, whatever steps it takes *)
(* inside: the node learns blocks whose parent it knows, and its best      *)
(* block moves at once to a block with more trust on a chain that connects *)
(* all the way, or back along its own chain.                               *)
(***************************************************************************)
EXTENDS BlockTree

VARIABLES known, best

Init == known = {Genesis} /\ best = Genesis

Learn(b) ==
    /\ Parent[b] \in known
    /\ known' = known \cup {b}
    /\ UNCHANGED best

Adopt(b) ==
    /\ b \in known
    /\ Trust[b] > Trust[best]
    /\ Chain(b) \cap Bad = {}
    /\ best' = b
    /\ UNCHANGED known

RollBack(a) ==
    /\ a \in Chain(best)
    /\ best' = a
    /\ UNCHANGED known

Next ==
    \/ \E b \in Blocks : Learn(b) \/ Adopt(b)
    \/ \E a \in Tree : RollBack(a)

Spec == Init /\ [][Next]_<<known, best>>
=============================================================================
