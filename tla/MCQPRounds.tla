----------------------------- MODULE MCQPRounds ------------------------------
(* QPRounds on small instances. *)
EXTENDS QPRounds

\* A hash is a number; the queue is the sorted IDs, turned by it.
MCShuffle(S, hash) ==
    LET n == Cardinality(S)
        Place(i) == Cardinality({j \in S : j <= i})
        Sorted == [p \in 1..n |-> CHOOSE i \in S : Place(i) = p]
    IN  [p \in 1..n |-> Sorted[((p + hash - 1) % n) + 1]]

\* XST_FORKREINSTATE is there to "undo the damage" of disqualifications: from its
\* first block on nobody is disqualified.
ReinstatedStayQualified ==
    main.nBlockHeight >= ForkReinstate => \A i \in IDs(main) : main.mapStakers[i].fQualified

=============================================================================
