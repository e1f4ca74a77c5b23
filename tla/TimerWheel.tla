----------------------------- MODULE TimerWheel -----------------------------
(***************************************************************************)
(* The timer of src/src/common/timer.cpp: a hierarchical timing wheel that *)
(* one thread steps, whose callbacks insert, remove, pause and resume      *)
(* events, and adjust_cycle_next() of datetime.cpp, which says when an     *)
(* event is due again.                                                     *)
(*                                                                         *)
(* A handle of auto_handle stands for its event object, each used once: it *)
(* resolves while the event lives (see HandleTable).  Times are ticks of   *)
(* Precision milliseconds, those of a repeated event's data milliseconds.  *)
(***************************************************************************)
EXTENDS Integers, Sequences, FiniteSets

CONSTANTS
    Events,      \* event objects
    None,        \* no event
    Radix,       \* the buckets of each level of the wheel, the lowest first
    Precision,   \* TIMER_PRECISION
    Day, Week,   \* ticks of a day, days of a week
    Month,       \* days of a long month; every other one is a day shorter
    Cycles,      \* the cycles of events, <<type, data>>
    Durations,   \* the durations they are inserted with
    Starts,      \* the times they start at, and the delays of resume()
    Clocks,      \* the ticks at which the clock is read
    MaxEntries   \* model bound: entries of the wheel when resume() adds one

Levels == 1..Len(Radix)

\* The ticks that one bucket of level l spans.
Span[l \in 1..Len(Radix) + 1] == IF l = 1 THEN 1 ELSE Span[l - 1] * Radix[l - 1]

Horizon == Span[Len(Radix) + 1]

ASSUME TimerAssumption ==
    /\ None \notin Events \cup Nat
    /\ Radix \in Seq(Nat \ {0, 1})
    /\ Precision \in Nat \ {0} /\ Day \in Nat \ {0} /\ Week \in Nat \ {0} /\ Month \in Nat \ {0, 1}
    /\ Starts \cup Clocks \subseteq 0..Horizon - 1 /\ Durations \subseteq Nat
    /\ \A c \in Cycles : c[1] \in {"repeat", "week", "month"}
    /\ \A c \in Cycles : c[1] = "repeat" => c[2] \in Nat \ {0}

\* A restriction that the code does not make: it takes a period of any number of
\* milliseconds.  One that is no multiple of the precision, inserted late, may be cut
\* to the current tick: where the lowest digit of that is zero the event goes to
\* time_wheel_[0], which step() never goes through.  And it gets shorter by being cut.
\* Every property below is one of timers whose periods are multiples.
ASSUME PeriodAssumption ==
    \A c \in Cycles : c[1] = "repeat" => c[2] % Precision = 0

Paused == -1

VARIABLES
    tick,      \* tickcount_: the next tick to execute
    until,     \* froce of the step() that runs, -1 when none does
    slot,      \* the list that step_list() goes through, <<>> when it does not run
    at,        \* iter: a position in it
    calling,   \* the event whose callback runs
    event,     \* the event objects
    wheel,     \* time_wheel_: a list of handles per bucket
    called     \* history: the events called at this tick

vars == <<tick, until, slot, at, calling, event, wheel, called>>

\* An event: time_, over_, type_ and data_; phase, where the period of a repeated one
\* starts, is history.
Blank == [state |-> "new", time |-> 0, over |-> 0, cycle |-> <<>>, phase |-> 0]
Dead == [Blank EXCEPT !.state = "dead"]

Slots == {s \in Levels \X (0..Horizon - 1) : s[2] < Radix[s[1]]}

Init ==
    /\ tick \in Clocks
    /\ until = -1 /\ slot = <<>> /\ at = 1
    /\ calling = None
    /\ event = [e \in Events |-> Blank]
    /\ wheel = [s \in Slots |-> <<>>]
    /\ called = {}

-----------------------------------------------------------------------------
(* adjust_cycle_next()                                                     *)

WeekDay(t) == (t \div Day) % Week

MonthDay(t) ==
    LET d == (t \div Day) % (2 * Month - 1)
    IN  IF d < Month THEN d + 1 ELSE d - Month + 1

\* The first day among those that are so many days from t, if any.
DayFrom(t, days) ==
    IF days = {} THEN t ELSE t + Day * (CHOOSE n \in days : \A m \in days : n <= m)

\* A start that has passed moves to a day from now: the fraction of the days since
\* is not cut off.
NextDay(start, now) == IF start <= now THEN now + Day ELSE start

\* Mutant: a repeated event that is late goes on from now.
AdjustFromNow(cycle, start, now) ==
    IF cycle[1] = "repeat" /\ start <= now THEN now + cycle[2] \div Precision
    ELSE NextDay(start, now)

Adjust(cycle, start, now) ==
    LET type == cycle[1]  data == cycle[2]  set == NextDay(start, now)
    IN  CASE type = "repeat" ->
               IF start > now THEN start
               ELSE (start * Precision + (((now - start) * Precision + data) \div data) * data)
                        \div Precision
          [] type = "week" ->
               DayFrom(set, {n \in 0..Week - 1 : (WeekDay(set) + n) % Week \in data})
          [] type = "month" ->
               DayFrom(set, {n \in 0..Month - 1 : ((MonthDay(set) - 1 + n) % Month) + 1 \in data})

-----------------------------------------------------------------------------
(* insert_once()                                                           *)

Digit(t, l) == (t \div Span[l]) % Radix[l]

\* Mutant: the bucket of the lowest digit that differs.
BucketLowest(t) ==
    LET differ == {l \in Levels : Digit(t, l) # Digit(tick, l)}
        level == IF differ = {} THEN 1 ELSE CHOOSE l \in differ : \A k \in differ : l <= k
    IN  <<level, Digit(t, level)>>

\* The bucket of time t: the highest digit in which it differs from the tick.
Bucket(t) ==
    LET differ == {l \in Levels : Digit(t, l) # Digit(tick, l)}
        level == IF differ = {} THEN 1 ELSE CHOOSE l \in differ : \A k \in differ : l >= k
    IN  <<level, Digit(t, level)>>

\* Mutant: over_ is not looked at.
InsertOncePast(e, r, start, adjust) ==
    LET next == IF adjust THEN Adjust(r.cycle, start, tick) ELSE start
    IN  IF r.time = Paused
        THEN event' = [event EXCEPT ![e] = r] /\ UNCHANGED wheel
        ELSE /\ event' = [event EXCEPT ![e] = [r EXCEPT !.time = next]]
             /\ wheel' = [wheel EXCEPT ![Bucket(next)] = Append(@, e)]

\* insert_once() of e, from now on the event r: nothing if it is paused; past over_
\* the event is deleted.
InsertOnce(e, r, start, adjust) ==
    LET next == IF adjust THEN Adjust(r.cycle, start, tick) ELSE start
    IN  IF r.time = Paused
        THEN event' = [event EXCEPT ![e] = r] /\ UNCHANGED wheel
        ELSE IF next <= r.over
        THEN /\ event' = [event EXCEPT ![e] = [r EXCEPT !.time = next]]
             /\ wheel' = [wheel EXCEPT ![Bucket(next)] = Append(@, e)]
        ELSE event' = [event EXCEPT ![e] = Dead] /\ UNCHANGED wheel

-----------------------------------------------------------------------------
(* The application: outside step(), or in a callback                       *)

Application == until = -1 \/ calling # None

Live(e) == event[e].state = "live"

\* Where a period starts, as far as it tells times apart.
Phase(cycle, start) == IF cycle[1] = "repeat" THEN (start * Precision) % cycle[2] ELSE 0

\* The next event object; which one it is makes no difference.
New == CHOOSE e \in {x \in Events : event[x].state = "new"} : TRUE

Entries == {p \in Slots \X (1..MaxEntries) : p[2] <= Len(wheel[p[1]])}

Insert(e) ==
    /\ Application /\ event[e].state = "new" /\ e = New
    /\ \E start \in Starts, d \in Durations, c \in Cycles :
          InsertOnce(e, [Blank EXCEPT !.state = "live", !.phase = Phase(c, start), !.cycle = c,
                           !.over = IF start + d < Horizon THEN start + d ELSE Horizon - 1],
                     start, TRUE)
    /\ UNCHANGED <<tick, until, slot, at, calling, called>>

\* remove(): the entry of the wheel stays behind.
Remove(e) ==
    /\ Application /\ Live(e)
    /\ event' = [event EXCEPT ![e] = Dead]
    /\ UNCHANGED <<tick, until, slot, at, calling, wheel, called>>

Pause(e) ==
    /\ Application /\ Live(e)
    /\ event' = [event EXCEPT ![e].time = Paused]
    /\ UNCHANGED <<tick, until, slot, at, calling, wheel, called>>

\* resume(): the delay is taken for a time.  A paused event stays as it is; one that
\* is not gets a second entry.
Resume(e) ==
    /\ Application /\ Live(e)
    /\ Cardinality(Entries) < MaxEntries
    /\ \E delay \in Starts :
          InsertOnce(e, [event[e] EXCEPT !.phase = Phase(event[e].cycle, delay)], delay, TRUE)
    /\ UNCHANGED <<tick, until, slot, at, calling, called>>

-----------------------------------------------------------------------------
(* step() and step_list()                                                  *)

StepCall ==
    /\ until = -1
    /\ until' \in Clocks
    /\ UNCHANGED <<tick, slot, at, calling, event, wheel, called>>

\* The list of a tick: that of its lowest digit that is not zero.
Visit(t) ==
    LET digits == {l \in Levels : Digit(t, l) # 0}
    IN  IF digits = {} THEN <<>>
        ELSE LET l == CHOOSE l \in digits : \A k \in digits : l <= k IN <<l, Digit(t, l)>>

StepTick ==
    /\ until # -1 /\ slot = <<>> /\ tick <= until
    /\ slot' = Visit(tick) /\ at' = 1
    /\ tick' = IF Visit(tick) = <<>> THEN tick + 1 ELSE tick
    /\ UNCHANGED <<until, calling, event, wheel, called>>

StepReturn ==
    /\ until # -1 /\ slot = <<>> /\ tick > until
    /\ until' = -1
    /\ UNCHANGED <<tick, slot, at, calling, event, wheel, called>>

Stepping == slot # <<>> /\ calling = None

Entry == wheel[slot][at]

ListCall ==
    /\ Stepping /\ at <= Len(wheel[slot])
    /\ Live(Entry) /\ event[Entry].time = tick
    /\ calling' = Entry
    /\ called' = called \cup {Entry}
    /\ UNCHANGED <<tick, until, slot, at, event, wheel>>

\* Mutant: what is not due is dropped with the list.
ListCascadeDrops ==
    /\ Stepping /\ at <= Len(wheel[slot])
    /\ ~(Live(Entry) /\ event[Entry].time = tick)
    /\ at' = at + 1
    /\ UNCHANGED <<tick, until, slot, calling, event, wheel, called>>

\* Mutant: the loop goes on past an entry only if its event lives.
ListCascadeStuck ==
    /\ Stepping /\ at <= Len(wheel[slot])
    /\ ~(Live(Entry) /\ event[Entry].time = tick)
    /\ IF Live(Entry)
       THEN InsertOnce(Entry, event[Entry], event[Entry].time, FALSE) /\ at' = at + 1
       ELSE UNCHANGED <<event, wheel, at>>
    /\ UNCHANGED <<tick, until, slot, calling, called>>

\* An entry that is not due goes to a lower level, that of a dead event nowhere.
ListCascade ==
    /\ Stepping /\ at <= Len(wheel[slot])
    /\ ~(Live(Entry) /\ event[Entry].time = tick)
    /\ IF Live(Entry) THEN InsertOnce(Entry, event[Entry], event[Entry].time, FALSE)
       ELSE UNCHANGED <<event, wheel>>
    /\ at' = at + 1
    /\ UNCHANGED <<tick, until, slot, calling, called>>

\* Mutant: the callback's event goes back to the wheel unadjusted.
CallbackReturnKeeps ==
    /\ calling # None
    /\ IF Live(calling) THEN InsertOnce(calling, event[calling], event[calling].time, FALSE)
       ELSE UNCHANGED <<event, wheel>>
    /\ calling' = None /\ at' = at + 1
    /\ UNCHANGED <<tick, until, slot, called>>

CallbackReturn ==
    /\ calling # None
    /\ IF Live(calling) THEN InsertOnce(calling, event[calling], event[calling].time, TRUE)
       ELSE UNCHANGED <<event, wheel>>
    /\ calling' = None /\ at' = at + 1
    /\ UNCHANGED <<tick, until, slot, called>>

ListDone ==
    /\ Stepping /\ at > Len(wheel[slot])
    /\ wheel' = [wheel EXCEPT ![slot] = <<>>]
    /\ slot' = <<>> /\ at' = 1
    /\ tick' = tick + 1 /\ called' = {}
    /\ UNCHANGED <<until, calling, event>>

Step == StepTick \/ StepReturn \/ ListCall \/ ListCascade \/ CallbackReturn \/ ListDone

Next == StepCall \/ Step \/ \E e \in Events : Insert(e) \/ Remove(e) \/ Pause(e) \/ Resume(e)

Spec == Init /\ [][Next]_vars

\* step() runs to its end, and callbacks return.
FairSpec == Spec /\ WF_vars(Step)
-----------------------------------------------------------------------------
(* Properties                                                              *)

EventType ==
    [state : {"new", "live", "dead"}, time : Paused..Horizon - 1, over : 0..Horizon - 1,
     cycle : Cycles \cup {<<>>}, phase : Nat]

\* Every variable has its type; a live event is due by its end at the latest, and
\* only the event whose callback runs may have died on the way.
TypeOK ==
    /\ tick \in 0..Horizon
    /\ until \in Clocks \cup {-1}
    /\ slot \in Slots \cup {<<>>}
    /\ at \in Nat
    /\ calling \in Events \cup {None}
    /\ event \in [Events -> EventType]
    /\ wheel \in [Slots -> Seq(Events)]
    /\ called \subseteq Events
    /\ calling # None => slot # <<>> /\ at <= Len(wheel[slot]) /\ Entry = calling
    /\ \A e \in Events : Live(e) => event[e].time <= event[e].over

Waiting(e) == Live(e) /\ event[e].time # Paused

\* The wheel holds every event in a bucket that step() goes through at the tick the
\* event is due, or at an earlier one: whatever level it was put on, and from
\* whichever callback, no event whose period is a multiple of the precision is passed
\* by.
Placed ==
    slot = <<>> =>
        \A e \in Events : Waiting(e) =>
            \E t \in tick..event[e].time :
                Visit(t) # <<>> /\ \E i \in 1..Len(wheel[Visit(t)]) : wheel[Visit(t)][i] = e

\* An event keeps to its cycle, however late step() or insert() comes: a repeated
\* one whose period is a multiple of the precision stays in phase with its start, a
\* weekly one that has days falls on them.  (Another period does drift, and a monthly
\* event may fall on other days.)
CycleKept ==
    \A e \in Events : Waiting(e) =>
        LET type == event[e].cycle[1]  data == event[e].cycle[2]
        IN  /\ type = "repeat" => Phase(event[e].cycle, event[e].time) = event[e].phase
            /\ type = "week" /\ data \cap (0..Week - 1) # {} => WeekDay(event[e].time) \in data

\* No event is called twice at a tick, though resume() gives it a second entry.
CalledOnce == [][calling = None /\ calling' # None => calling' \notin called]_vars

\* step() comes back: it does not meet again, at the same tick, what it called.
StepReturns == until # -1 ~> until = -1

\* The wheel is invisible: it implements the schedule (for periods as above).
Schedule ==
    INSTANCE TimerSchedule WITH
        now <- tick,
        due <- [e \in Events |-> IF Waiting(e) THEN event[e].time ELSE None]

KeepsSchedule == Schedule!Spec
=============================================================================
