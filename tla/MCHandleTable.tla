--------------------------- MODULE MCHandleTable ---------------------------
(* Instance of HandleTable for TLC. *)
EXTENDS HandleTable
=============================================================================
