-------------------------- MODULE MCAsyncDatabase --------------------------
(* Instance of AsyncDatabase for TLC. *)
EXTENDS AsyncDatabase

CONSTANTS c1, c2

MCEscapers == {c1, c2}
=============================================================================
