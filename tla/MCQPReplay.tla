----------------------------- MODULE MCQPReplay ------------------------------
(* QPRounds with a record of when the node last left replay mode. *)
EXTENDS MCQPRounds

\* the height of the main registry when it last left replay mode
VARIABLE nWentLive

NoteExit ==
    nWentLive' = IF IsInReplayMode(main) /\ ~IsInReplayMode(main')
                 THEN main'.nBlockHeight ELSE nWentLive

ReplaySpec == Init /\ nWentLive = 0 /\ [][Next /\ NoteExit]_<< vars, nWentLive >>

\* "wait for enough blocks to roll in to advance the queue before going back into
\* replay": a live registry that has seen more than a queue of blocks since it left
\* replay mode goes back when EnterReplayMode is called.
ReentersReplay ==
    /\ ~IsInReplayMode(main)
    /\ main.nBlockHeight > nWentLive + 1 + Size(main.queue)
    => IsInReplayMode(EnterReplayMode(main))

=============================================================================
