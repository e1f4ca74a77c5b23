---------------------------- MODULE HandleTable ----------------------------
(***************************************************************************)
(* auto_handle_pool (src/src/common/auto_handle.h): the table that gives   *)
(* every pooled object a handle {chunk, position, round, check} and turns  *)
(* a handle back into the object, or into nothing when the handle is       *)
(* stale.  One thread uses it; a step is one turn of a loop of             *)
(* new_handle().                                                           *)
(*                                                                         *)
(* An object is represented by the handle it carries.  round counts in     *)
(* full: the 16 bits of mCurrentRound are a multiple of the bits a handle  *)
(* keeps of it.                                                            *)
(***************************************************************************)
EXTENDS Integers, FiniteSets

CONSTANTS
    Slots,       \* XGC_COUNTOF(chunk::ptr), 2^pow_pos
    MaxChunks,   \* 2^pow_chk
    FirstChunks, \* chunks the constructor allocates
    Rounds,      \* 2^pow_rnd
    None,        \* no object, no handle
    MaxHandles   \* model bound: no allocation begins once so many were made

Indices == 0..MaxChunks - 1
Positions == 0..Slots - 1
Handles == [chunk : Indices, position : Positions, round : 0..Rounds - 1, check : Nat]

ASSUME TableAssumption ==
    /\ Slots \in Nat \ {0}
    /\ MaxChunks \in Nat
    /\ FirstChunks \in 1..MaxChunks
    /\ Rounds \in Nat \ {0}
    /\ MaxHandles \in Nat
    /\ None \notin Handles

VARIABLES
    count,    \* mChunkCount: the chunks are 0..count - 1
    cursor,   \* cursor of each chunk
    check,    \* check of each chunk
    alloca,   \* alloca of each chunk
    ptr,      \* ptr of each chunk
    current,  \* index of mCurrentChunk
    at,       \* index of pChunk
    round,    \* mCurrentRound
    total,    \* mTotalHandle
    pc,       \* where new_handle() stands
    made,     \* allocations so far
    used,     \* the round in which each slot was last given out, -1 for never
    kept      \* a handle that somebody keeps, from the round it was made in

chunks == <<count, cursor, check, alloca, ptr, used>>
vars == <<chunks, current, at, round, total, pc, made, kept>>

Labels == {"idle", "walk", "scan", "failed"}

\* 0x0b & n
Check(n) == (n % 4) + 8 * ((n \div 8) % 2)

Init ==
    /\ count = FirstChunks
    /\ cursor = [c \in Indices |-> 0]
    /\ check = [c \in Indices |-> 1]
    /\ alloca = [c \in Indices |-> 0]
    /\ ptr = [c \in Indices |-> [p \in Positions |-> None]]
    /\ current = 0 /\ at = 0
    /\ round = 0
    /\ total = 0
    /\ pc = "idle"
    /\ made = 0
    /\ used = [c \in Indices |-> [p \in Positions |-> -1]]
    /\ kept = None

-----------------------------------------------------------------------------
(* new_handle()                                                            *)

\* Mutant: a chunk that is left keeps its cursor.
NewLeaves ==
    /\ pc = "idle" /\ made < MaxHandles
    /\ made' = made + 1
    /\ at' = current
    /\ pc' = IF cursor[current] >= Slots THEN "walk" ELSE "scan"
    /\ UNCHANGED <<count, cursor, check, alloca, ptr, current, round, total, used, kept>>

New ==
    /\ pc = "idle" /\ made < MaxHandles
    /\ made' = made + 1
    /\ at' = current
    /\ IF cursor[current] >= Slots
       THEN pc' = "walk" /\ cursor' = [cursor EXCEPT ![current] = 0]
       ELSE pc' = "scan" /\ UNCHANGED cursor
    /\ UNCHANGED <<count, check, alloca, ptr, current, round, total, used, kept>>

\* Mutant: the walk does not count the rounds.
WalkUncounted ==
    LET next == IF (at + 1) % MaxChunks < count THEN (at + 1) % MaxChunks ELSE 0
    IN  /\ pc = "walk"
        /\ IF next = current
           THEN /\ pc' = IF count < MaxChunks THEN "scan" ELSE "failed"
                /\ at' = IF count < MaxChunks THEN count ELSE at
                /\ count' = IF count < MaxChunks THEN count + 1 ELSE count
           ELSE /\ pc' = IF alloca[next] >= Slots THEN "walk" ELSE "scan"
                /\ at' = next
                /\ UNCHANGED count
        /\ UNCHANGED <<round, cursor, check, alloca, ptr, current, total, made, used, kept>>

\* On to the next chunk, a new one if they are all full; a table that has no
\* room for it ends the program.
Walk ==
    LET next == IF (at + 1) % MaxChunks < count THEN (at + 1) % MaxChunks ELSE 0
    IN  /\ pc = "walk"
        /\ round' = IF next = 0 THEN round + 1 ELSE round
        /\ IF next = current
           THEN /\ pc' = IF count < MaxChunks THEN "scan" ELSE "failed"
                /\ at' = IF count < MaxChunks THEN count ELSE at
                /\ count' = IF count < MaxChunks THEN count + 1 ELSE count
           ELSE /\ pc' = IF alloca[next] >= Slots THEN "walk" ELSE "scan"
                /\ at' = next
                /\ UNCHANGED count
        /\ UNCHANGED <<cursor, check, alloca, ptr, current, total, made, used, kept>>

\* Mutant: the search begins again in the chunk whose end it reached.
ScanStays ==
    /\ pc = "scan"
    /\ ptr[at][cursor[at]] # None
    /\ cursor' = [cursor EXCEPT ![at] = (cursor[at] + 1) % Slots]
    /\ UNCHANGED <<count, check, alloca, ptr, current, at, round, total, pc, made, used, kept>>

ScanTaken ==
    /\ pc = "scan"
    /\ ptr[at][cursor[at]] # None
    /\ LET end == cursor[at] + 1 >= Slots
       IN  /\ cursor' = [cursor EXCEPT ![at] = IF end THEN 0 ELSE cursor[at] + 1]
           /\ pc' = IF end THEN "walk" ELSE "scan"
    /\ UNCHANGED <<count, check, alloca, ptr, current, at, round, total, made, used, kept>>

\* The slot is given out; whoever made the object may keep a copy of its handle.
ScanFree ==
    /\ pc = "scan"
    /\ ptr[at][cursor[at]] = None
    /\ LET handle == [chunk |-> at, position |-> cursor[at],
                      round |-> round % Rounds, check |-> Check(check[at])]
       IN  /\ ptr' = [ptr EXCEPT ![at][cursor[at]] = handle]
           /\ \/ kept' = kept
              \/ kept = None /\ kept' = [handle |-> handle, born |-> round, alive |-> TRUE]
    /\ used' = [used EXCEPT ![at][cursor[at]] = round]
    /\ check' = [check EXCEPT ![at] = check[at] + 1]
    /\ alloca' = [alloca EXCEPT ![at] = alloca[at] + 1]
    /\ cursor' = [cursor EXCEPT ![at] = cursor[at] + 1]
    /\ total' = total + 1
    /\ current' = at
    /\ pc' = "idle"
    /\ UNCHANGED <<count, at, round, made>>

-----------------------------------------------------------------------------
(* exchange() and del_handle()                                             *)

Exchange(handle) ==
    IF handle.chunk < count /\ ptr[handle.chunk][handle.position] = handle
    THEN handle ELSE None

\* Mutant: the chunk keeps counting the object.
DeleteUncounted(c, p) ==
    /\ pc = "idle"
    /\ ptr[c][p] # None
    /\ kept' = IF kept # None /\ kept.handle.chunk = c /\ kept.handle.position = p
               THEN [kept EXCEPT !.alive = FALSE] ELSE kept
    /\ ptr' = [ptr EXCEPT ![c][p] = None]
    /\ total' = total - 1
    /\ UNCHANGED <<count, cursor, check, alloca, current, at, round, pc, made, used>>

Delete(c, p) ==
    /\ pc = "idle"
    /\ ptr[c][p] # None
    /\ kept' = IF kept # None /\ kept.handle.chunk = c /\ kept.handle.position = p
               THEN [kept EXCEPT !.alive = FALSE] ELSE kept
    /\ ptr' = [ptr EXCEPT ![c][p] = None]
    /\ alloca' = [alloca EXCEPT ![c] = alloca[c] - 1]
    /\ total' = total - 1
    /\ UNCHANGED <<count, cursor, check, current, at, round, pc, made, used>>

-----------------------------------------------------------------------------
Allocate == Walk \/ ScanTaken \/ ScanFree

Next == New \/ Allocate \/ \E c \in Indices, p \in Positions : Delete(c, p)

Spec == Init /\ [][Next]_vars

\* new_handle() runs on; nobody has to allocate or to delete.
FairSpec == Spec /\ WF_vars(Allocate)
-----------------------------------------------------------------------------
(* Properties                                                              *)

Types ==
    /\ count \in FirstChunks..MaxChunks
    /\ cursor \in [Indices -> 0..Slots]
    /\ check \in [Indices -> Nat]
    /\ alloca \in [Indices -> Int]
    /\ ptr \in [Indices -> [Positions -> Handles \cup {None}]]
    /\ current \in 0..count - 1
    /\ at \in 0..count - 1
    /\ round \in Nat
    /\ total \in Int
    /\ pc \in Labels
    /\ made \in Nat
    /\ used \in [Indices -> [Positions -> Int]]
    /\ kept = None \/ kept \in [handle : Handles, born : Nat, alive : BOOLEAN]

\* Every variable has its type, and the cursor of a chunk that is searched, or
\* that the next search may begin in, is a position of it: only the current chunk
\* ever holds the position behind its last slot, and never while it is searched.
TypeOK ==
    /\ Types
    /\ \A c \in Indices : cursor[c] = Slots => pc = "idle" /\ c = current

Taken(c) == {p \in Positions : ptr[c][p] # None}

\* alloca is what new_handle() believes about a chunk before it searches it: it
\* is the number of its objects, whatever was allocated and deleted.
AllocaExact == \A c \in Indices : alloca[c] = Cardinality(Taken(c))

\* A handle that somebody kept resolves to its object while that lives, and from
\* then on to nothing, not to the object that has the slot now, for as long as
\* fewer rounds have passed than the round of a handle can count.
KeptResolves ==
    kept # None =>
        /\ kept.alive => Exchange(kept.handle) = kept.handle
        /\ ~kept.alive /\ round - kept.born < Rounds => Exchange(kept.handle) = None

\* new_handle() returns, or ends the program when every chunk is full: neither
\* the search of a chunk nor the walk over the chunks goes on for ever.
NewReturns == pc \in {"walk", "scan"} ~> pc \in {"idle", "failed"}
=============================================================================
