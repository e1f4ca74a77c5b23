---------------------------- MODULE TimerSchedule ----------------------------
(***************************************************************************)
(* What src/src/common/timer.h promises: every event is called at the tick *)
(* it is due, before the time moves on, and is due again only later.  There*)
(* is no wheel here.                                                       *)
(***************************************************************************)
EXTENDS Naturals

CONSTANTS
    Events,    \* event objects
    Horizon,   \* model bound: ticks are below it
    None       \* not due: removed, paused, not inserted

VARIABLES
    now,       \* the tick that is being executed, or the next one
    due,       \* when each event is called next
    calling    \* the event whose callback runs

vars == <<now, due, calling>>

Later == {t \in 0..Horizon - 1 : t > now}

Init ==
    /\ now \in 0..Horizon - 1
    /\ due = [e \in Events |-> None]
    /\ calling = None

\* insert(), remove(), pause() and resume(), from a callback too.
Set(e) ==
    /\ \E t \in Later \cup {None} : due' = [due EXCEPT ![e] = t]
    /\ UNCHANGED <<now, calling>>

Call(e) ==
    /\ calling = None /\ due[e] = now
    /\ calling' = e
    /\ UNCHANGED <<now, due>>

Return ==
    /\ calling # None
    /\ calling' = None
    /\ \E t \in Later \cup {None} : due' = [due EXCEPT ![calling] = t]
    /\ UNCHANGED now

Tick ==
    /\ calling = None
    /\ \A e \in Events : due[e] # now
    /\ now' = now + 1
    /\ UNCHANGED <<due, calling>>

Next == Return \/ Tick \/ \E e \in Events : Set(e) \/ Call(e)

Spec == Init /\ [][Next]_vars
=============================================================================
