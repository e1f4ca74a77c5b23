---------------------------- MODULE RequestPipe ----------------------------
(***************************************************************************)
(* What an asynchronous database (async_post, async_resp of                *)
(* src/src/database/database.cpp) promises about the requests it accepted: *)
(* until it is closed, every request that asks for a response gets it and  *)
(* no other does, in the order of the requests, each once.  Requests are   *)
(* numbered in the order they were accepted.                               *)
(***************************************************************************)
EXTENDS Naturals

VARIABLES accepted, wants, pending, last, closed

vars == <<accepted, wants, pending, last, closed>>

Init ==
    /\ accepted = 0
    /\ wants = {}
    /\ pending = {}
    /\ last = 0
    /\ closed = FALSE

Submit ==
    /\ ~closed
    /\ accepted' = accepted + 1
    /\ wants' \in {wants, wants \cup {accepted + 1}}
    /\ pending' = pending \cup {accepted + 1}
    /\ UNCHANGED <<last, closed>>

\* A request that asks for no response is through.
Settle ==
    /\ \E n \in pending \ wants : pending' = pending \ {n}
    /\ UNCHANGED <<accepted, wants, last, closed>>

\* The oldest request gets its response.
Answer ==
    /\ \E n \in pending \cap wants :
          /\ \A m \in pending : n <= m
          /\ last < n
          /\ last' = n
          /\ pending' = pending \ {n}
    /\ UNCHANGED <<accepted, wants, closed>>

\* Whoever closes the database drops what is in it.
Close ==
    /\ ~closed
    /\ closed' = TRUE
    /\ pending' = {}
    /\ UNCHANGED <<accepted, wants, last>>

Next == Submit \/ Settle \/ Answer \/ Close

Spec == Init /\ [][Next]_vars
=============================================================================
