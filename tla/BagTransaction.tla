--------------------------- MODULE BagTransaction ---------------------------
(***************************************************************************)
(* A transaction on a bag (src/src/core/XBag.h, XBag.cpp): each operation  *)
(* changes the slots at once and logs what it did; Commit() drops the log, *)
(* Cancel() undoes it from its end.  One thread, one transaction, two bags.*)
(*                                                                         *)
(* Undo() goes on while the sequence number of the command it holds is its *)
(* own, which it always is, and so undoes one command unless that changed  *)
(* nothing: then it pops whatever the log holds, and beyond.               *)
(***************************************************************************)
EXTENDS Naturals, Sequences, SequencesExt

CONSTANTS
    Goods,      \* goods objects
    None,       \* INVALID_OBJECT_ID
    Own, Other, \* the bag of the transaction and another one
    Capacity,   \* slots of a bag
    Overlap,    \* GetOverlapNum(): how many of a kind a slot holds
    MaxLog      \* model bound: commands of a transaction

VARIABLES
    slots,   \* mSlots of both bags
    log,     \* mSlotCommands
    mode,    \* "open", "cancelling", "committed" or "crashed"
    before   \* history: the slots when the transaction began

vars == <<slots, log, mode, before>>

Slot == 1..Capacity
Empty == [goods |-> None, count |-> 0]
Content == {Empty} \cup [goods : Goods, count : 1..Overlap]

Init ==
    /\ slots \in [{Own, Other} -> [Slot -> Content]]
    /\ log = <<>> /\ mode = "open" /\ before = slots

-----------------------------------------------------------------------------
(* XSlot                                                                   *)

Smaller(a, b) == IF a <= b THEN a ELSE b

\* putGoods(): how many fit.  It never sets the goods of the slot.
Fits(s, g, n) ==
    IF g = None \/ (s.count # 0 /\ s.goods # g) THEN 0 ELSE Smaller(n, Overlap - s.count)

PutGoods(s, g, n) == [s EXCEPT !.count = s.count + Fits(s, g, n)]

\* delGoods(): a slot that has exactly enough keeps its goods, with a count of 0.
DelGoods(s, n) == IF s.count >= n THEN [s EXCEPT !.count = s.count - n] ELSE Empty

-----------------------------------------------------------------------------
(* XBagTrans.  w is what an operation works on: the slots and the log, and *)
(* how many goods are left to be put or deleted.                           *)

Command(bag, i, old, new) == [bag |-> bag, slot |-> i, before |-> old, after |-> new]

\* s is the new content of slot i of the bag b, logged as that of the bag named.
Logged(w, b, i, s, named) ==
    [w EXCEPT !.slots[b][i] = s, !.log = Append(w.log, Command(named, i, w.slots[b][i], s))]

PutAt(w, i, g) ==
    LET s == w.slots[Own][i]
        full == s.goods # None /\ s.count >= Overlap
    IN  IF w.left = 0 \/ (s.goods # g /\ s # Empty) \/ full THEN w
        ELSE [Logged(w, Own, i, PutGoods(s, g, w.left), Own)
                 EXCEPT !.left = w.left - Fits(s, g, w.left)]

DelAt(w, i, g) ==
    LET s == w.slots[Own][i]
    IN  IF w.left = 0 \/ s.goods # g THEN w
        ELSE [Logged(w, Own, i, DelGoods(s, w.left), Own)
                 EXCEPT !.left = w.left - Smaller(w.left, s.count)]

Do(w) ==
    /\ slots' = w.slots /\ log' = w.log
    /\ UNCHANGED <<mode, before>>

Open(n) == mode = "open" /\ Len(log) + n <= MaxLog

Work(n) == [slots |-> slots, log |-> log, left |-> n]

\* Put() and Del() go through the slots in turn.  What they did stays done when not
\* all could be put or deleted.
Put(g, n, start) ==
    /\ Open(Capacity)
    /\ Do(FoldLeft(LAMBDA w, i : PutAt(w, i, g), Work(n), [k \in 1..Capacity - start + 1 |-> start + k - 1]))

Del(g, n, start) ==
    /\ Open(Capacity)
    /\ Do(FoldLeft(LAMBDA w, i : DelAt(w, i, g), Work(n), [k \in 1..Capacity - start + 1 |-> start + k - 1]))

\* Swap(): two slots of the own bag; the second command names the target.
Swap(i, j, target) ==
    /\ Open(2) /\ i # j
    /\ LET a == slots[Own][i]  b == slots[Own][j]
       IN  Do(Logged(Logged(Work(0), Own, i, b, Own), Own, j, a, target))

\* MoveTo(): without a target it is the own bag, but the second command names none.
\* What a slot could not take all of is undone where it came from only.
MoveTo(target, to, from, n) ==
    LET bag == IF target = None THEN Own ELSE target
        taken == Logged(Work(0), Own, from, DelGoods(slots[Own][from], n), Own)
        left == taken.slots[Own][from]
        goal == taken.slots[bag][to]
        nTake == Smaller(n, slots[Own][from].count)
        put == [goal EXCEPT !.count = goal.count + Fits(goal, left.goods, nTake)]
    IN  /\ Open(2)
        /\ slots[Own][from].goods = slots[bag][to].goods \/ slots[bag][to] = Empty
        /\ IF Fits(goal, left.goods, nTake) = nTake
           THEN Do(Logged(taken, bag, to, put, target))
           ELSE /\ slots' = [taken.slots EXCEPT ![bag][to] = put, ![Own][from] = slots[Own][from]]
                /\ UNCHANGED <<log, mode, before>>

Commit ==
    /\ mode = "open"
    /\ mode' = IF \E k \in 1..Len(log) : log[k].bag = None THEN "crashed" ELSE "committed"
    /\ log' = <<>>
    /\ UNCHANGED <<slots, before>>

Cancel ==
    /\ mode = "open" /\ log # <<>>
    /\ mode' = "cancelling"
    /\ UNCHANGED <<slots, log, before>>

\* Cancel() calls it until the log is empty; what it returns is ignored.
Undo ==
    /\ mode = "cancelling" /\ log # <<>>
    /\ LET c == Last(log)
       IN  /\ c.bag # None /\ slots[c.bag][c.slot] = c.after
           /\ slots' = [slots EXCEPT ![c.bag][c.slot] = c.before]
           /\ mode' = IF c.before = c.after THEN "crashed" ELSE mode
    /\ log' = Front(log)
    /\ UNCHANGED before

Next ==
    \/ \E n \in 1..Overlap, i, j \in Slot, t \in {None, Own, Other} :
          \/ \E g \in Goods : Put(g, n, i) \/ Del(g, n, i)
          \/ Swap(i, j, t)
          \/ MoveTo(t, j, i, n)
    \/ Commit \/ Cancel \/ Undo

Spec == Init /\ [][Next]_vars
-----------------------------------------------------------------------------
(* Properties                                                              *)

\* A transaction whose log is empty again, and that was not committed, left no trace:
\* what a failed or cancelled operation did is rolled back.
RollbackRestores == log = <<>> /\ mode \in {"open", "cancelling"} => slots = before
=============================================================================
