---------------------------- MODULE MCTimerWheel ----------------------------
(* Instance of TimerWheel for TLC. *)
EXTENDS TimerWheel

CONSTANTS e1, e2

MCRadix == <<2, 2, 3>>
MCCycles == {<<"repeat", 2>>, <<"repeat", 6>>, <<"week", {1}>>, <<"month", {1}>>}
=============================================================================
