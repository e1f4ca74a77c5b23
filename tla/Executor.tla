------------------------------ MODULE Executor ------------------------------
(***************************************************************************)
(* What a thread_pool (src/src/common/thread_pool.h) promises about the    *)
(* tasks that commit() accepted, whatever its threads do: each is taken at *)
(* most once, in the order of acceptance, and while the pool is shut down  *)
(* none is taken and none is still running.  Tasks are numbered in the     *)
(* order they were accepted.                                               *)
(***************************************************************************)
EXTENDS Naturals, Sequences

VARIABLES accepted, waiting, running, halted

vars == <<accepted, waiting, running, halted>>

Init ==
    /\ accepted = 0
    /\ waiting = <<>>
    /\ running = {}
    /\ halted = TRUE

Submit ==
    /\ accepted' = accepted + 1
    /\ waiting' = Append(waiting, accepted + 1)
    /\ UNCHANGED <<running, halted>>

Take ==
    /\ ~halted /\ waiting # <<>>
    /\ running' = running \cup {Head(waiting)}
    /\ waiting' = Tail(waiting)
    /\ UNCHANGED <<accepted, halted>>

Finish ==
    /\ \E k \in running : running' = running \ {k}
    /\ UNCHANGED <<accepted, waiting, halted>>

Halt == running = {} /\ halted' = TRUE /\ UNCHANGED <<accepted, waiting, running>>

Resume == halted' = FALSE /\ UNCHANGED <<accepted, waiting, running>>

Next == Submit \/ Take \/ Finish \/ Halt \/ Resume

Spec == Init /\ [][Next]_vars
=============================================================================
