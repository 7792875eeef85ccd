----------------------------- MODULE MCRunQueue -----------------------------
(***************************************************************************)
(* Instances of RunQueue for TLC: two runs of one robot, a few threads.    *)
(***************************************************************************)
EXTENDS RunQueueProps, TLC

MCRuns == {1, 2}
OneRun == {1}
MCRobotOf == [r \in Runs |-> CHOOSE b \in Robots : TRUE]
MCAsked == {0, 1}
EdgeAsked == {-1, 1}

Sym == Permutations(Threads) \cup Permutations(Cancellers)
=============================================================================
