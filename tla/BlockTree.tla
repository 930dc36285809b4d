----------------------------- MODULE BlockTree ------------------------------
(***************************************************************************)
(* The tree of blocks the node may ever see.  A block is a number; what    *)
(* the chain code asks of it is its parent (hashPrevBlock), the trust of   *)
(* the chain that ends in it (bnChainTrust), whether its transactions      *)
(* connect (Bad blocks fail ConnectBlock) and whether the qPoS registry    *)
(* of its parent accepts it (Refused blocks fail UpdateOnNewBlock).        *)
(***************************************************************************)
EXTENDS Integers, Sequences, FiniteSets

CONSTANTS
    Blocks,    \* the blocks other than genesis
    Parent,    \* Blocks -> Blocks and Genesis
    Trust,     \* block -> bnChainTrust
    Bad,       \* blocks that ConnectBlock refuses
    Refused    \* blocks that UpdateOnNewBlock refuses

Genesis == 0
None == -1      \* the null pointer, or the zero hash

Tree == Blocks \cup {Genesis}

ASSUME TreeAssumption ==
    /\ Blocks \subseteq Nat \ {0}
    /\ Parent \in [Blocks -> Tree]
    /\ \A b \in Blocks : Parent[b] < b
    /\ Trust \in [Tree -> Nat]
    /\ \A b \in Blocks : Trust[b] > Trust[Parent[b]]
    /\ Bad \subseteq Blocks
    /\ Refused \subseteq Blocks

(* The blocks from genesis, left out, to b.  A parent has a smaller number *)
(* than its child, so the recursion ends.                                  *)
Path[b \in Tree] == IF b = Genesis THEN <<>> ELSE Append(Path[Parent[b]], b)

Height(b) == Len(Path[b])

(* b and the blocks before it.                                             *)
Chain(b) == {Genesis} \cup {Path[b][i] : i \in 1..Height(b)}

(* The blocks after a, up to and with b, in ascending order.               *)
Branch(a, b) == SubSeq(Path[b], Height(a) + 1, Height(b))

(* The last common block of two chains.                                    *)
ForkOf(a, b) ==
    CHOOSE f \in Chain(a) \cap Chain(b) :
        \A g \in Chain(a) \cap Chain(b) : Height(g) <= Height(f)

HasGrandparent(b) == Height(b) >= 2
=============================================================================
