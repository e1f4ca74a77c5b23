------------------------- MODULE HandleTableProofs -------------------------
(***************************************************************************)
(* Proofs about HandleTable, for any number of chunks, slots and rounds:   *)
(* a kept handle never resolves to an object other than its own before the *)
(* round of a handle comes round.                                          *)
(***************************************************************************)
EXTENDS HandleTable, FiniteSetTheorems, TLAPS

CursorInv ==
    /\ \A c \in Indices : cursor[c] = Slots => pc = "idle" /\ c = current
    /\ pc = "idle" => at = current

\* The search goes over the slots once a round: what it has not passed yet was
\* last given out in an earlier round.
LapInv ==
    /\ \A c \in Indices, p \in Positions : used[c][p] <= round
    /\ \A c \in Indices, p \in Positions :
          c > at \/ (c = at /\ p >= cursor[at] /\ pc \in {"idle", "scan"})
              => used[c][p] < round

\* An object carries the place it is in and the round it was made in.
PlaceInv ==
    \A c \in Indices, p \in Positions :
        ptr[c][p] # None => /\ ptr[c][p].chunk = c /\ ptr[c][p].position = p
                            /\ ptr[c][p].round = used[c][p] % Rounds

\* Whoever has the slot of a stale handle got it in a later round.
KeptInv ==
    kept # None =>
        LET h == kept.handle
        IN  /\ h.round = kept.born % Rounds
            /\ h.chunk < count
            /\ kept.born <= used[h.chunk][h.position]
            /\ IF kept.alive THEN ptr[h.chunk][h.position] = h
               ELSE ptr[h.chunk][h.position] # None => kept.born < used[h.chunk][h.position]

TableInv == Types /\ CursorInv /\ LapInv /\ PlaceInv /\ KeptInv

\* Two rounds that a handle cannot tell apart are Rounds apart.
LEMMA RoundsDiffer ==
    ASSUME NEW a \in Nat, NEW b \in Nat, NEW r \in Nat \ {0},
           a < b, b - a < r
    PROVE  a % r # b % r
<1>1. PICK qa \in Int : a = r * qa + (a % r)
  <2>1. a \div r \in Int /\ r > 0
    BY SMT
  <2>2. a = r * (a \div r) + (a % r)
    BY <2>1, SMT
  <2> QED
    BY <2>1, <2>2
<1>2. PICK qb \in Int : b = r * qb + (b % r)
  <2>1. b \div r \in Int /\ r > 0
    BY SMT
  <2>2. b = r * (b \div r) + (b % r)
    BY <2>1, SMT
  <2> QED
    BY <2>1, <2>2
<1> SUFFICES ASSUME a % r = b % r PROVE FALSE
  OBVIOUS
<1>3. b - a = r * (qb - qa)
  <2>1. (a % r) \in Int
    BY SMT
  <2>2. r * (qb - qa) = r * qb - r * qa
    BY SMT
  <2> QED
    BY <1>1, <1>2, <2>1, <2>2, SMT
<1>4. qb - qa <= 0 => r * (qb - qa) <= 0
  BY SMT
<1>5. qb - qa >= 1 => r * (qb - qa) >= r
  BY SMT
<1> QED
  BY <1>3, <1>4, <1>5

\* The walk goes to the next chunk or back to the first.
LEMMA NextChunk ==
    ASSUME NEW a \in Nat, NEW n \in Nat, NEW m \in Nat \ {0}, a < n, n <= m
    PROVE  (a + 1) % m < n => (a + 1) % m = a + 1 \/ (a + 1) % m = 0
<1>1. CASE a + 1 < m
  BY <1>1, SMT
<1>2. CASE a + 1 = m
  BY <1>2, SMT
<1> QED
  BY <1>1, <1>2

\* The sizes are positive numbers.
LEMMA ConstantFacts ==
    /\ Slots \in Nat /\ Slots > 0 /\ MaxChunks \in Nat /\ MaxChunks > 0
    /\ FirstChunks \in Nat /\ FirstChunks > 0 /\ FirstChunks <= MaxChunks
    /\ Rounds \in Nat /\ Rounds > 0
    /\ 0 \in Indices /\ 0 \in Positions
BY TableAssumption DEF Indices, Positions

\* The table is constructed empty, with every slot unused.
LEMMA InitTable == Init => TableInv
<1> SUFFICES ASSUME Init PROVE TableInv
  OBVIOUS
<1> USE ConstantFacts DEF Init
<1>1. Types
  BY TableAssumption DEF Types, Labels
<1>2. CursorInv /\ LapInv
  BY DEF CursorInv, LapInv
<1>3. PlaceInv /\ KeptInv
  BY DEF PlaceInv, KeptInv
<1> QED
  BY <1>1, <1>2, <1>3 DEF TableInv

\* An allocation begins at the current chunk.
LEMMA NewStep == TableInv /\ New => TableInv'
<1> SUFFICES ASSUME TableInv, New PROVE TableInv'
  OBVIOUS
<1> USE ConstantFacts DEF TableInv
<1>1. /\ UNCHANGED <<count, check, alloca, ptr, current, round, total, used, kept>>
      /\ pc = "idle" /\ at' = current /\ at = current /\ made' = made + 1
      /\ current \in Indices /\ count \in Nat /\ count <= MaxChunks
  BY DEF New, CursorInv, Types, Indices
<1>2. CASE cursor[current] >= Slots
  <2>1. pc' = "walk" /\ cursor' = [cursor EXCEPT ![current] = 0]
    BY <1>2 DEF New
  <2>2. Types'
    BY <1>1, <2>1 DEF Types, Labels
  <2>3. CursorInv' /\ LapInv' /\ PlaceInv' /\ KeptInv'
    BY <1>1, <2>1 DEF CursorInv, LapInv, PlaceInv, KeptInv, Types
  <2> QED
    BY <2>2, <2>3
<1>3. CASE ~(cursor[current] >= Slots)
  <2>1. pc' = "scan" /\ cursor' = cursor
    BY <1>3 DEF New
  <2>2. Types'
    BY <1>1, <2>1 DEF Types, Labels
  <2>3. CursorInv'
    BY <1>1, <1>3, <2>1 DEF CursorInv, Types
  <2>4. LapInv' /\ PlaceInv' /\ KeptInv'
    BY <1>1, <2>1 DEF LapInv, PlaceInv, KeptInv, Types
  <2> QED
    BY <2>2, <2>3, <2>4
<1> QED
  BY <1>2, <1>3

\* Walking on, the search comes to chunks it has not seen in this round, or to the
\* first chunk in the next round.
LEMMA WalkStep == TableInv /\ Walk => TableInv'
<1> SUFFICES ASSUME TableInv, Walk PROVE TableInv'
  OBVIOUS
<1> USE ConstantFacts DEF TableInv
<1> DEFINE next == IF (at + 1) % MaxChunks < count THEN (at + 1) % MaxChunks ELSE 0
<1>1. /\ pc = "walk"
      /\ round' = IF next = 0 THEN round + 1 ELSE round
      /\ IF next = current
         THEN /\ pc' = IF count < MaxChunks THEN "scan" ELSE "failed"
              /\ at' = IF count < MaxChunks THEN count ELSE at
              /\ count' = IF count < MaxChunks THEN count + 1 ELSE count
         ELSE /\ pc' = IF alloca[next] >= Slots THEN "walk" ELSE "scan"
              /\ at' = next
              /\ UNCHANGED count
      /\ UNCHANGED <<cursor, check, alloca, ptr, current, total, made, used, kept>>
  BY DEF Walk
<1>2. /\ at \in Nat /\ count \in Nat /\ at < count /\ count <= MaxChunks
      /\ current \in Nat /\ current < count /\ round \in Nat /\ FirstChunks <= count
  BY DEF Types
<1>3. next = 0 \/ (next = at + 1 /\ next < count)
  <2>1. (at + 1) % MaxChunks < count => (at + 1) % MaxChunks = at + 1 \/ (at + 1) % MaxChunks = 0
    BY <1>2, NextChunk
  <2> QED
    BY <2>1
<1> HIDE DEF next
<1>4. \/ pc' = "failed" /\ at' = at /\ count' = count
      \/ pc' \in {"walk", "scan"} /\ (at' > at \/ round' = round + 1)
  BY <1>1, <1>2, <1>3
<1>5. /\ at' \in Nat /\ at' < count' /\ count' \in Nat /\ count' <= MaxChunks /\ count <= count'
      /\ round' \in Nat /\ round <= round'
  BY <1>1, <1>2, <1>3
<1>6. Types'
  BY <1>1, <1>2, <1>4, <1>5 DEF Types, Labels
<1>7. CursorInv'
  BY <1>1, <1>4 DEF CursorInv
<1>8. LapInv'
  <2>1. ASSUME NEW c \in Indices, NEW p \in Positions PROVE used[c][p] <= round'
    <3>1. used[c][p] <= round /\ used[c][p] \in Int
      BY DEF LapInv, Types
    <3> QED
      BY <1>2, <1>5, <3>1
  <2>2. ASSUME NEW c \in Indices, NEW p \in Positions,
               c > at' \/ (c = at' /\ p >= cursor'[at'] /\ pc' \in {"idle", "scan"})
        PROVE  used[c][p] < round'
    <3>1. used[c][p] <= round /\ used[c][p] \in Int /\ c \in Int
      BY DEF LapInv, Types, Indices
    <3>2. CASE round' = round + 1
      BY <1>2, <3>1, <3>2
    <3>3. CASE c > at
      BY <3>1, <3>3, <1>2, <1>5 DEF LapInv
    <3> QED
      BY <2>2, <3>2, <3>3, <1>2, <1>4, <1>5, <3>1
  <2> QED
    BY <1>1, <2>1, <2>2 DEF LapInv
<1>9. PlaceInv' /\ KeptInv'
  <2>1. PlaceInv'
    BY <1>1 DEF PlaceInv
  <2>2. ASSUME kept # None PROVE kept.handle.chunk \in Nat /\ kept.handle.chunk < count
    BY <2>2 DEF KeptInv, Types, Handles, Indices
  <2>3. KeptInv'
    BY <1>1, <1>2, <1>5, <2>2 DEF KeptInv
  <2> QED
    BY <2>1, <2>3
<1> QED
  BY <1>6, <1>7, <1>8, <1>9

\* The search passes a slot that is taken.
LEMMA TakenStep == TableInv /\ ScanTaken => TableInv'
<1> SUFFICES ASSUME TableInv, ScanTaken PROVE TableInv'
  OBVIOUS
<1> USE ConstantFacts DEF TableInv
<1>1. /\ UNCHANGED <<count, check, alloca, ptr, current, at, round, total, made, used, kept>>
      /\ pc = "scan" /\ at \in Indices /\ cursor[at] \in 0..Slots - 1
  BY DEF ScanTaken, Types, CursorInv, Indices
<1>2. CASE cursor[at] + 1 >= Slots
  <2>1. pc' = "walk" /\ cursor' = [cursor EXCEPT ![at] = 0]
    BY <1>2 DEF ScanTaken
  <2>2. Types'
    BY <1>1, <2>1 DEF Types, Labels
  <2>3. CursorInv' /\ LapInv' /\ PlaceInv' /\ KeptInv'
    BY <1>1, <2>1 DEF CursorInv, LapInv, PlaceInv, KeptInv, Types
  <2> QED
    BY <2>2, <2>3
<1>3. CASE ~(cursor[at] + 1 >= Slots)
  <2>1. pc' = "scan" /\ cursor' = [cursor EXCEPT ![at] = cursor[at] + 1]
    BY <1>3 DEF ScanTaken
  <2>2. Types'
    BY <1>1, <1>3, <2>1 DEF Types, Labels
  <2>3. CursorInv'
    BY <1>1, <1>3, <2>1 DEF CursorInv, Types
  <2>4. LapInv'
    <3>1. /\ cursor'[at] = cursor[at] + 1 /\ cursor[at] \in Int
          /\ \A p \in Positions : p >= cursor[at] + 1 => p >= cursor[at]
      BY <1>1, <2>1 DEF Types, Positions
    <3> QED
      BY <1>1, <2>1, <3>1 DEF LapInv
  <2>5. PlaceInv' /\ KeptInv'
    BY <1>1 DEF PlaceInv, KeptInv
  <2> QED
    BY <2>2, <2>3, <2>4, <2>5
<1> QED
  BY <1>2, <1>3

\* The handle that new_handle() makes, and where it goes.
Made == [chunk |-> at, position |-> cursor[at],
         round |-> round % Rounds, check |-> Check(check[at])]

\* Where the free slot is that new_handle() gives out.
LEMMA FreeFacts ==
    ASSUME TableInv, ScanFree
    PROVE  /\ at \in Indices /\ at \in Nat /\ at < count
           /\ cursor[at] \in Positions /\ ptr[at][cursor[at]] = None
           /\ Made \in Handles
           /\ ptr' = [ptr EXCEPT ![at][cursor[at]] = Made]
<1> USE ConstantFacts DEF TableInv
<1>1. at \in Indices /\ at \in Nat /\ at < count
  BY DEF Types, Indices
<1>2. cursor[at] \in 0..Slots /\ cursor[at] # Slots
  BY <1>1 DEF Types, CursorInv, ScanFree
<1>3. Made \in Handles
  <2>1. round \in Nat
    BY DEF Types
  <2>2. round % Rounds \in 0..Rounds - 1
    BY <2>1, SMT
  <2>3. check[at] \in Nat
    BY <1>1 DEF Types
  <2>4. Check(check[at]) \in Nat
    BY <2>3, SMT DEF Check
  <2>5. cursor[at] \in Positions
    BY <1>2 DEF Positions
  <2> QED
    BY <1>1, <2>2, <2>4, <2>5 DEF Handles, Made
<1> QED
  BY <1>1, <1>2, <1>3 DEF ScanFree, Made, Positions

\* A slot that is given out was last given out in an earlier round.
LEMMA FreeStep == TableInv /\ ScanFree => TableInv'
<1> SUFFICES ASSUME TableInv, ScanFree PROVE TableInv'
  OBVIOUS
<1> USE ConstantFacts DEF TableInv
<1> DEFINE q == cursor[at]
           handle == Made
<1>1. /\ pc = "scan" /\ pc' = "idle" /\ current' = at
      /\ at \in Indices /\ at \in Nat /\ at < count /\ q \in Positions /\ ptr[at][q] = None
      /\ UNCHANGED <<count, at, round, made>>
      /\ ptr' = [ptr EXCEPT ![at][q] = handle]
      /\ used' = [used EXCEPT ![at][q] = round]
      /\ check' = [check EXCEPT ![at] = check[at] + 1]
      /\ alloca' = [alloca EXCEPT ![at] = alloca[at] + 1]
      /\ cursor' = [cursor EXCEPT ![at] = q + 1]
      /\ total' = total + 1
      /\ \/ kept' = kept
         \/ kept = None /\ kept' = [handle |-> handle, born |-> round, alive |-> TRUE]
  BY FreeFacts DEF ScanFree, Made
<1>2. round \in Nat /\ count \in Nat
  BY DEF Types
<1>3. handle \in Handles
  BY FreeFacts
<1>4. handle.chunk = at /\ handle.position = q /\ handle.round = round % Rounds
  BY DEF Made
<1> HIDE DEF handle
<1>5. used[at][q] < round
  BY <1>1 DEF LapInv, Positions
<1>6. Types'
  <2>1. ptr' \in [Indices -> [Positions -> Handles \cup {None}]]
    BY <1>1, <1>3 DEF Types
  <2>2. used' \in [Indices -> [Positions -> Int]]
    BY <1>1, <1>2 DEF Types
  <2>3. kept' = None \/ kept' \in [handle : Handles, born : Nat, alive : BOOLEAN]
    <3>1. kept = None \/ kept \in [handle : Handles, born : Nat, alive : BOOLEAN]
      BY DEF Types
    <3>2. CASE kept' = [handle |-> handle, born |-> round, alive |-> TRUE]
      BY <1>2, <1>3, <3>2
    <3> QED
      BY <1>1, <3>1, <3>2
  <2>4. check' \in [Indices -> Nat] /\ alloca' \in [Indices -> Int] /\ total' \in Int
    BY <1>1 DEF Types
  <2>5. cursor' \in [Indices -> 0..Slots]
    <3>1. q + 1 \in 0..Slots
      <4>1. q \in 0..Slots - 1
        BY <1>1 DEF Positions
      <4> QED
        BY <4>1
    <3>2. cursor \in [Indices -> 0..Slots]
      BY DEF Types
    <3> HIDE DEF q
    <3> QED
      BY <1>1, <3>1, <3>2
  <2> QED
    BY <1>1, <2>1, <2>2, <2>3, <2>4, <2>5 DEF Types, Labels
<1>7. CursorInv'
  BY <1>1 DEF CursorInv, Types
<1>8. \A c \in Indices, p \in Positions :
          /\ used'[c][p] = IF c = at /\ p = q THEN round ELSE used[c][p]
          /\ ptr'[c][p] = IF c = at /\ p = q THEN handle ELSE ptr[c][p]
  BY <1>1 DEF Types
<1>9. LapInv'
  <2>1. \A c \in Indices, p \in Positions : used'[c][p] <= round'
    BY <1>1, <1>2, <1>8 DEF LapInv
  <2>2. ASSUME NEW c \in Indices, NEW p \in Positions,
               c > at \/ (c = at /\ p >= cursor'[at])
        PROVE  used'[c][p] < round
    <3>1. cursor'[at] = q + 1
      BY <1>1 DEF Types
    <3>2. c \in Int /\ p \in Int /\ q \in Int
      BY <1>1 DEF Indices, Positions
    <3>3. ~(c = at /\ p = q)
      BY <1>1, <2>2, <3>1, <3>2
    <3>4. c > at \/ (c = at /\ p >= q)
      BY <2>2, <3>1, <3>2
    <3> QED
      BY <1>1, <1>8, <3>3, <3>4 DEF LapInv
  <2> QED
    BY <1>1, <2>1, <2>2 DEF LapInv
<1>10. PlaceInv'
  BY <1>1, <1>4, <1>8 DEF PlaceInv
<1>11. KeptInv'
  <2>1. CASE kept' = kept /\ kept # None
    <3> DEFINE h == kept.handle
    <3>1. /\ h \in Handles /\ h.chunk \in Indices /\ h.position \in Positions
          /\ kept.born \in Nat
          /\ h.round = kept.born % Rounds /\ h.chunk < count
          /\ kept.born <= used[h.chunk][h.position]
          /\ kept.alive => ptr[h.chunk][h.position] = h
          /\ ~kept.alive /\ ptr[h.chunk][h.position] # None
                => kept.born < used[h.chunk][h.position]
      BY <2>1 DEF KeptInv, Types, Handles
    <3>2. None \notin Handles
      BY TableAssumption
    <3>3. CASE h.chunk = at /\ h.position = q
      <4>1. ~kept.alive
        BY <1>1, <3>1, <3>2, <3>3
      <4>2. used'[h.chunk][h.position] = round /\ kept.born < round /\ kept.born <= round
        <5>1. used[at][q] \in Int
          BY <1>1 DEF Types
        <5> QED
          BY <1>2, <1>5, <1>8, <3>1, <3>3, <5>1
      <4> QED
        BY <1>1, <2>1, <3>1, <4>1, <4>2 DEF KeptInv
    <3>4. CASE ~(h.chunk = at /\ h.position = q)
      BY <1>1, <1>8, <2>1, <3>1, <3>4 DEF KeptInv
    <3> QED
      BY <3>3, <3>4
  <2>2. CASE kept' = None
    BY <2>2 DEF KeptInv
  <2>3. CASE kept' = [handle |-> handle, born |-> round, alive |-> TRUE]
    <3>1. kept'.handle = handle /\ kept'.born = round /\ kept'.alive
      BY <2>3
    <3> QED
      BY <1>1, <1>2, <1>4, <1>8, <3>1 DEF KeptInv
  <2> QED
    BY <1>1, <2>1, <2>2, <2>3
<1> QED
  BY <1>6, <1>7, <1>9, <1>10, <1>11

\* A handle whose object is deleted is stale: its slot is empty.
LEMMA DeleteStep ==
    ASSUME TableInv, NEW c \in Indices, NEW p \in Positions, Delete(c, p)
    PROVE  TableInv'
<1> USE ConstantFacts DEF TableInv
<1>1. /\ pc = "idle"
      /\ UNCHANGED <<count, cursor, check, current, at, round, pc, made, used>>
      /\ ptr' = [ptr EXCEPT ![c][p] = None]
      /\ alloca' = [alloca EXCEPT ![c] = alloca[c] - 1] /\ total' = total - 1
      /\ kept' = IF kept # None /\ kept.handle.chunk = c /\ kept.handle.position = p
                 THEN [kept EXCEPT !.alive = FALSE] ELSE kept
  BY DEF Delete
<1>2. \A d \in Indices, q \in Positions :
          ptr'[d][q] = IF d = c /\ q = p THEN None ELSE ptr[d][q]
  BY <1>1 DEF Types
<1>3. Types'
  <2>1. ptr' \in [Indices -> [Positions -> Handles \cup {None}]]
    BY <1>1 DEF Types
  <2>2. kept' = None \/ kept' \in [handle : Handles, born : Nat, alive : BOOLEAN]
    BY <1>1 DEF Types
  <2>3. alloca' \in [Indices -> Int] /\ total' \in Int
    BY <1>1 DEF Types
  <2> QED
    BY <1>1, <2>1, <2>2, <2>3 DEF Types
<1>4. CursorInv' /\ LapInv'
  BY <1>1 DEF CursorInv, LapInv
<1>5. PlaceInv'
  BY <1>1, <1>2 DEF PlaceInv
<1>6. KeptInv'
  <2> SUFFICES ASSUME kept' # None PROVE KeptInv'
    BY DEF KeptInv
  <2>1. kept # None
    BY <1>1
  <2> DEFINE h == kept.handle
  <2>2. /\ h \in Handles /\ h.chunk \in Indices /\ h.position \in Positions
        /\ kept \in [handle : Handles, born : Nat, alive : BOOLEAN]
        /\ h.round = kept.born % Rounds /\ h.chunk < count
        /\ kept.born <= used[h.chunk][h.position]
        /\ kept.alive => ptr[h.chunk][h.position] = h
        /\ ~kept.alive /\ ptr[h.chunk][h.position] # None
              => kept.born < used[h.chunk][h.position]
    BY <2>1 DEF KeptInv, Types, Handles
  <2>3. CASE h.chunk = c /\ h.position = p
    <3>1. kept'.handle = h /\ kept'.born = kept.born /\ ~kept'.alive
      BY <1>1, <2>1, <2>2, <2>3
    <3>2. ptr'[h.chunk][h.position] = None
      BY <1>2, <2>2, <2>3
    <3> QED
      BY <1>1, <2>2, <3>1, <3>2 DEF KeptInv
  <2>4. CASE ~(h.chunk = c /\ h.position = p)
    <3>1. kept' = kept /\ ptr'[h.chunk][h.position] = ptr[h.chunk][h.position]
      BY <1>1, <1>2, <2>2, <2>4
    <3> QED
      BY <1>1, <2>2, <3>1 DEF KeptInv
  <2> QED
    BY <2>3, <2>4
<1> QED
  BY <1>3, <1>4, <1>5, <1>6

\* Every step of the table keeps the invariant: one lemma per action.
LEMMA TableStep == TableInv /\ [Next]_vars => TableInv'
<1> SUFFICES ASSUME TableInv, [Next]_vars PROVE TableInv'
  OBVIOUS
<1>1. CASE UNCHANGED vars
  BY <1>1 DEF vars, chunks, TableInv, Types, CursorInv, LapInv, PlaceInv, KeptInv
<1> QED
  BY <1>1, NewStep, WalkStep, TakenStep, FreeStep, DeleteStep DEF Next, Allocate

\* The invariant of the handle table holds.
LEMMA TableInvHolds == Spec => []TableInv
BY InitTable, TableStep, PTL DEF Spec

\* Types, and a cursor that is a position wherever a search may begin.
THEOREM TypeOKHolds == Spec => []TypeOK
<1>1. TableInv => TypeOK
  BY DEF TableInv, TypeOK, CursorInv
<1> QED
  BY <1>1, TableInvHolds, PTL

\* A stale handle resolves to nothing until as many rounds have passed as a handle
\* can tell apart, whatever was allocated and deleted meanwhile.
THEOREM KeptResolvesHolds == Spec => []KeptResolves
<1>1. TableInv => KeptResolves
  <2> SUFFICES ASSUME TableInv, kept # None PROVE KeptResolves
    BY DEF KeptResolves
  <2> USE ConstantFacts DEF TableInv
  <2> DEFINE h == kept.handle
             u == used[h.chunk][h.position]
  <2>1. /\ h \in Handles /\ h.chunk \in Indices /\ h.position \in Positions
        /\ kept.born \in Nat /\ round \in Nat /\ u \in Int
        /\ h.round = kept.born % Rounds /\ h.chunk < count
        /\ kept.born <= u /\ u <= round
        /\ kept.alive => ptr[h.chunk][h.position] = h
        /\ ~kept.alive /\ ptr[h.chunk][h.position] # None => kept.born < u
    BY DEF KeptInv, LapInv, Types, Handles
  <2>2. ptr[h.chunk][h.position] # None => ptr[h.chunk][h.position].round = u % Rounds
    BY <2>1 DEF PlaceInv
  <2> HIDE DEF u
  <2>3. kept.alive => Exchange(h) = h
    BY <2>1 DEF Exchange
  <2>4. ASSUME ~kept.alive, round - kept.born < Rounds PROVE Exchange(h) = None
    <3> SUFFICES ASSUME ptr[h.chunk][h.position] = h PROVE FALSE
      BY DEF Exchange
    <3>1. h # None
      BY <2>1, TableAssumption
    <3>2. kept.born < u /\ u - kept.born < Rounds /\ u \in Nat /\ Rounds \in Nat \ {0}
      BY <2>1, <2>4, <3>1
    <3>3. kept.born % Rounds # u % Rounds
      BY <2>1, <3>2, RoundsDiffer
    <3> QED
      BY <2>1, <2>2, <3>1, <3>3
  <2> QED
    BY <2>3, <2>4 DEF KeptResolves
<1> QED
  BY <1>1, TableInvHolds, PTL

-----------------------------------------------------------------------------
\* The count of a chunk changes with what is in it.
LEMMA AllocaStep ==
    TableInv /\ AllocaExact /\ [Next]_vars => AllocaExact'
<1> SUFFICES ASSUME TableInv, AllocaExact, [Next]_vars PROVE AllocaExact'
  OBVIOUS
<1> USE ConstantFacts DEF TableInv
<1>1. \A c \in Indices : IsFiniteSet(Taken(c))
  <2>1. IsFiniteSet(Positions)
    BY FS_Interval DEF Positions
  <2> QED
    BY <2>1, FS_Subset DEF Taken
<1>2. CASE UNCHANGED <<ptr, alloca>>
  BY <1>2 DEF AllocaExact, Taken
<1>3. ASSUME ScanFree PROVE AllocaExact'
  <2>1. /\ at \in Indices /\ cursor[at] \in Positions /\ ptr[at][cursor[at]] = None
        /\ alloca' = [alloca EXCEPT ![at] = alloca[at] + 1]
    BY <1>3, FreeFacts DEF ScanFree
  <2>2. ptr' = [ptr EXCEPT ![at][cursor[at]] = Made] /\ Made # None
    BY <1>3, FreeFacts, TableAssumption
  <2>3. \A c \in Indices, p \in Positions :
            ptr'[c][p] = IF c = at /\ p = cursor[at] THEN Made ELSE ptr[c][p]
    BY <2>1, <2>2 DEF Types
  <2>4. Taken(at)' = Taken(at) \cup {cursor[at]} /\ cursor[at] \notin Taken(at)
    <3>1. at' = at
      BY <1>3 DEF ScanFree
    <3>2. Taken(at)' = {p \in Positions : ptr'[at][p] # None}
      BY <3>1 DEF Taken
    <3> QED
      BY <2>1, <2>2, <2>3, <3>2 DEF Taken
  <2>5. \A c \in Indices \ {at} : Taken(c)' = Taken(c)
    BY <2>1, <2>3 DEF Taken
  <2>6. Cardinality(Taken(at)') = Cardinality(Taken(at)) + 1
    BY <1>1, <2>1, <2>4, FS_AddElement
  <2>7. ASSUME NEW c \in Indices PROVE alloca'[c] = Cardinality(Taken(c)')
    <3>1. CASE c = at
      <4>1. Taken(c)' = Taken(at)' /\ alloca'[c] = alloca[at] + 1
        <5>1. at' = at
          BY <1>3 DEF ScanFree
        <5> QED
          BY <2>1, <3>1, <5>1 DEF Taken, Types
      <4> QED
        BY <2>1, <2>6, <4>1 DEF AllocaExact
    <3>2. CASE c # at
      BY <2>1, <2>5, <3>2 DEF AllocaExact, Types
    <3> QED
      BY <3>1, <3>2
  <2> QED
    BY <2>7 DEF AllocaExact
<1>4. ASSUME NEW c \in Indices, NEW p \in Positions, Delete(c, p) PROVE AllocaExact'
  <2>1. /\ ptr' = [ptr EXCEPT ![c][p] = None] /\ ptr[c][p] # None
        /\ alloca' = [alloca EXCEPT ![c] = alloca[c] - 1]
    BY <1>4 DEF Delete
  <2>2. Taken(c)' = Taken(c) \ {p} /\ p \in Taken(c)
    BY <2>1 DEF Taken, Types
  <2>3. \A d \in Indices \ {c} : Taken(d)' = Taken(d)
    BY <2>1 DEF Taken, Types
  <2>4. Cardinality(Taken(c)') = Cardinality(Taken(c)) - 1
    BY <1>1, <2>2, FS_RemoveElement
  <2> QED
    BY <2>1, <2>3, <2>4 DEF AllocaExact, Types
<1> QED
  BY <1>2, <1>3, <1>4
     DEF Next, Allocate, New, Walk, ScanTaken, vars, chunks

\* alloca is exact for any number of chunks and slots.
THEOREM AllocaExactHolds == Spec => []AllocaExact
<1>1. Init => AllocaExact
  <2> SUFFICES ASSUME Init PROVE AllocaExact
    OBVIOUS
  <2>1. \A c \in Indices : Taken(c) = {}
    BY DEF Init, Taken
  <2> QED
    BY <2>1, FS_EmptySet DEF Init, AllocaExact
<1> QED
  BY <1>1, AllocaStep, TableInvHolds, PTL DEF Spec
=============================================================================
