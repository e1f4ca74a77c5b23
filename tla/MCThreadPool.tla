---------------------------- MODULE MCThreadPool ----------------------------
(* Instances of ThreadPool for TLC. *)
EXTENDS ThreadPool

CONSTANTS owner, app, w1, w2

MCOwnerOnly == {owner}
MCTwoCallers == {owner, app}
MCWorkers == {w1, w2}
MCOneWorker == {w1}
=============================================================================
