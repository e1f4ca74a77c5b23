---------------------------- MODULE MCNetSocket ----------------------------
(* Instances of NetSocket for TLC. *)
EXTENDS NetSocket, TLC

CONSTANTS main, app, w1, w2, nobody

MCOneCaller == {main}
MCTwoCallers == {main, app}
MCWorkers == {w1, w2}
MCOneWorker == {w1}

Symmetry == Permutations(MCWorkers)
=============================================================================
