--------------------------- MODULE NetLinksProofs ---------------------------
(***************************************************************************)
(* Proofs about NetLinks, for any sockets, handles, threads, accepts and   *)
(* options of a dial.                                                      *)
(***************************************************************************)
EXTENDS NetLinks, FiniteSetTheorems, SequenceTheorems, TLAPS

\* CloseAll() has begun, or is done.
Swept == logic = "sweeping" \/ status = 4

\* The count is exact, accepts are those of server sockets, and none is left when
\* CloseAll() begins.
AcceptInv ==
    /\ CountExact
    /\ \A s \in Sockets : accept[s] # "none" => sock[s].kind = "server"
    /\ status \in {4, 5} => logic = "idle"
    /\ logic = "starting" => status = 1
    /\ logic \in {"stopping", "sweeping"} <=> status = 2
    /\ Swept => \A s \in Sockets : accept[s] = "none"

\* One timer or handler of it at a time, none of them when the socket is open.
Sole(r) ==
    /\ r.timer # "off" => r.due = {}
    /\ r.due # {"timeout", "retry"}
    /\ r.st # 0 => r.timer = "off" /\ r.due = {}

\* A dial that is not repeated waits for its timeout as long as nothing was said.
DialOK(r) ==
    /\ ~(r.opt.again /\ r.stray) => Sole(r)
    /\ ~r.opt.again =>
          /\ r.timer # "retry" /\ "retry" \notin r.due
          /\ r.told <= 1
          /\ r.timer = "timeout" \/ "timeout" \in r.due => r.told = 0

\* A socket that was not dialled never dials.
NoDial(r) == r.conn = 0 /\ r.due = {} /\ r.timer = "off" /\ ~r.opt.passive

SocketOK(r) ==
    /\ r.op > 0 => r.st # 0
    /\ r.kind = "unused" => r = Fresh
    /\ r.kind \in {"server", "lost"} => NoDial(r)
    /\ r.kind = "dialled" => DialOK(r)
    /\ r.kind = "lost" => r.st = 0 /\ r.told = 0

LocalInv == \A s \in Sockets : SocketOK(sock[s])

\* A socket in the table, or in LinkDown(), is in use and knows its handle.
BaseInv ==
    /\ \A h \in Handles : table[h] # None =>
          sock[table[h]].handle = h /\ sock[table[h]].kind # "unused"
    /\ \A t \in Threads : down[t] # Out =>
          sock[down[t].sock].handle # None /\ sock[down[t].sock].kind # "unused"

\* A handle is free, or in the table, or on its way back with one thread; so is a socket.
PoolInv ==
    /\ \A i, j \in 1..Len(free) : free[i] = free[j] => i = j
    /\ \A i \in 1..Len(free) : table[free[i]] = None /\ Returning(free[i]) = {}
    /\ \A h \in Handles : table[h] = None /\ Returning(h) = {} =>
          \E i \in 1..Len(free) : free[i] = h
    /\ \A h \in Handles, t \in Threads : t \in Returning(h) =>
          table[h] = None /\ Returning(h) = {t}
    /\ \A t, u \in Threads, s \in Sockets : Clearing(t, s) =>
          table[sock[s].handle] = s /\ (Clearing(u, s) => u = t)

Leaving(s) == \E t \in Threads : Clearing(t, s)

\* The socket can be reached by its handle, or never had one.
Held(s) == sock[s].handle = None \/ Up(s)

Dead(r) == r.st = 0 /\ r.op = 0 /\ r.timer = "off" /\ r.due = {}

\* What gives its handle back is closed for good.
GoneInv ==
    \A s \in Sockets : ~sock[s].stray /\ (Leaving(s) \/ ~Held(s)) =>
        Dead(sock[s]) /\ accept[s] # "waits"

\* A socket that waits for a peer is as it was made.
WaitInv ==
    \A s \in Sockets : accept[s] = "waits" =>
        sock[s].st = 0 /\ sock[s].told = 0 /\ ~sock[s].stray

Pending(h, s) == \E i \in 1..Len(events) : events[i] = <<h, s>>

\* An EVENT_PENDING is of a socket of the server that has been accepted, the only one.
EventInv ==
    /\ \A h \in Handles \cup {None}, s \in Sockets : Pending(h, s) =>
          sock[s].kind = "server" /\ sock[s].handle = h /\ accept[s] # "waits"
    /\ \A i, j \in 1..Len(events) : events[i][2] = events[j][2] => i = j

Waiting(h, s) ==
    /\ table[h] = s /\ ~Leaving(s)
    /\ sock[s].st = 1 /\ sock[s].op = 0 /\ sock[s].told = 0

\* No socket of the server is found by the handle, but for one that CloseAll() closes.
NoServer(h) ==
    \/ table[h] = None
    \/ sock[table[h]].kind # "server"
    \/ logic = "sweeping" /\ Clearing(Logic, table[h])

\* The event finds its own socket as it left it, until CloseAll(): from then on it
\* finds none, or one that was dialled.
PendingInv ==
    \A h \in Handles, s \in Sockets : Pending(h, s) => Waiting(h, s) \/ (Swept /\ NoServer(h))

\* CloseAll() has looked at the handle.
Looked(h) == (logic = "sweeping" /\ h \notin sweep) \/ status = 4

\* A server socket that it left in the table has its read outstanding, or is about to
\* give its handle back.
SweepInv ==
    \A h \in Handles : Looked(h) /\ table[h] # None /\ sock[table[h]].kind = "server" =>
        sock[table[h]].op > 0 \/ Leaving(table[h])

LinksInv ==
    /\ Types /\ AcceptInv /\ LocalInv /\ BaseInv /\ EventInv
    /\ ~twice => PoolInv /\ GoneInv /\ WaitInv /\ PendingInv /\ SweepInv

-----------------------------------------------------------------------------
(* The socket objects                                                      *)

\* What a socket is made as.
LEMMA FreshFacts ==
    /\ Fresh \in SocketType /\ Fresh.kind = "unused" /\ Fresh.handle = None
    /\ Fresh.st = 0 /\ Fresh.op = 0 /\ Fresh.conn = 0 /\ Fresh.timer = "off"
    /\ Fresh.due = {} /\ Fresh.told = 0 /\ ~Fresh.stray
    /\ ~Fresh.opt.again /\ ~Fresh.opt.passive
BY DEF Fresh, SocketType

\* What a cancelled timer leaves of a socket.
LEMMA CancelFacts ==
    ASSUME NEW r \in SocketType
    PROVE  /\ Cancel(r) \in SocketType
           /\ Cancel(r).kind = r.kind /\ Cancel(r).handle = r.handle
           /\ Cancel(r).st = r.st /\ Cancel(r).op = r.op /\ Cancel(r).open = r.open
           /\ Cancel(r).conn = r.conn /\ Cancel(r).told = r.told
           /\ Cancel(r).opt = r.opt /\ Cancel(r).timer = "off"
           /\ Cancel(r).stray = (r.stray \/ r.timer = "retry")
           /\ Cancel(r).due = IF r.timer = "retry" THEN r.due \cup {"retry"} ELSE r.due
BY DEF Cancel, SocketType

\* What another dial makes of it.
LEMMA DialFacts ==
    ASSUME NEW r \in SocketType
    PROVE  /\ Dial(r) \in SocketType
           /\ Dial(r).kind = r.kind /\ Dial(r).handle = r.handle
           /\ Dial(r).st = r.st /\ Dial(r).op = r.op
           /\ Dial(r).conn = r.conn + 1 /\ Dial(r).told = 0 /\ Dial(r).opt = r.opt
           /\ Dial(r).timer = IF r.opt.timeout THEN "timeout" ELSE r.timer
           /\ Dial(r).stray = (r.stray \/ (r.opt.timeout /\ r.timer = "retry"))
           /\ Dial(r).due = IF r.opt.timeout /\ r.timer = "retry"
                            THEN r.due \cup {"retry"} ELSE r.due
<1> DEFINE c == Cancel(r)
           t == IF r.opt.timeout THEN [c EXCEPT !.timer = "timeout"] ELSE r
<1>1. /\ c \in SocketType /\ c.kind = r.kind /\ c.handle = r.handle /\ c.st = r.st /\ c.op = r.op
      /\ c.conn = r.conn /\ c.opt = r.opt /\ c.stray = (r.stray \/ r.timer = "retry")
      /\ c.due = IF r.timer = "retry" THEN r.due \cup {"retry"} ELSE r.due
  BY CancelFacts
<1>2. Dial(r) = [t EXCEPT !.conn = r.conn + 1, !.open = TRUE, !.told = 0]
  BY DEF Dial
<1> HIDE DEF c
<1>3. /\ t \in SocketType /\ t.kind = r.kind /\ t.handle = r.handle /\ t.st = r.st /\ t.op = r.op
      /\ t.opt = r.opt /\ t.timer = IF r.opt.timeout THEN "timeout" ELSE r.timer
      /\ t.stray = (r.stray \/ (r.opt.timeout /\ r.timer = "retry"))
      /\ t.due = IF r.opt.timeout /\ r.timer = "retry" THEN r.due \cup {"retry"} ELSE r.due
  <2>1. CASE r.opt.timeout
    BY <1>1, <2>1 DEF SocketType
  <2>2. CASE ~r.opt.timeout
    BY <2>2 DEF SocketType
  <2> QED
    BY <2>1, <2>2
<1> HIDE DEF t
<1>4. r.conn + 1 \in Nat
  BY DEF SocketType
<1> DEFINE m == [t EXCEPT !.conn = r.conn + 1]
           k == [m EXCEPT !.open = TRUE]
<1>5. /\ m \in SocketType /\ m.kind = t.kind /\ m.handle = t.handle /\ m.st = t.st
      /\ m.op = t.op /\ m.conn = r.conn + 1 /\ m.opt = t.opt /\ m.timer = t.timer
      /\ m.stray = t.stray /\ m.due = t.due
  BY <1>3, <1>4 DEF SocketType
<1>6. Dial(r) = [k EXCEPT !.told = 0]
  BY <1>2
<1> HIDE DEF m
<1>7. /\ k \in SocketType /\ k.kind = m.kind /\ k.handle = m.handle /\ k.st = m.st
      /\ k.op = m.op /\ k.conn = m.conn /\ k.opt = m.opt /\ k.timer = m.timer
      /\ k.stray = m.stray /\ k.due = m.due
  BY <1>5 DEF SocketType
<1> HIDE DEF k
<1>8. /\ Dial(r) \in SocketType /\ Dial(r).kind = k.kind /\ Dial(r).handle = k.handle
      /\ Dial(r).st = k.st /\ Dial(r).op = k.op /\ Dial(r).conn = k.conn /\ Dial(r).told = 0
      /\ Dial(r).opt = k.opt /\ Dial(r).timer = k.timer /\ Dial(r).stray = k.stray
      /\ Dial(r).due = k.due
  BY <1>6, <1>7 DEF SocketType
<1> QED
  BY <1>3, <1>5, <1>7, <1>8

\* What close() makes of it.
LEMMA ShutFacts ==
    ASSUME NEW r \in SocketType, NEW passive \in BOOLEAN
    PROVE  LET c == Shut(r, passive)
           IN  /\ c \in SocketType
               /\ c.kind = r.kind /\ c.handle = r.handle /\ c.op = r.op /\ c.conn = r.conn
               /\ c.told = r.told /\ c.opt.again = r.opt.again
               /\ c.opt.timeout = r.opt.timeout
               /\ c.opt.passive = (r.opt.passive /\ passive)
               /\ c.st = IF r.op = 0 \/ r.st = 0 THEN 0 ELSE 2
               /\ c.timer = IF r.st = 1 THEN "off" ELSE r.timer
               /\ c.stray = (r.stray \/ (r.st = 1 /\ r.timer = "retry"))
               /\ c.due = IF r.st = 1 /\ r.timer = "retry" THEN r.due \cup {"retry"} ELSE r.due
<1> DEFINE o == [r EXCEPT !.opt.passive = r.opt.passive /\ passive]
           n == Cancel(o)
           m == [n EXCEPT !.st = 2]
           d == [m EXCEPT !.open = FALSE]
           c == IF r.st = 1 THEN d ELSE o
           e == [c EXCEPT !.st = 0]
<1>1. /\ o \in SocketType /\ o.kind = r.kind /\ o.handle = r.handle /\ o.op = r.op
      /\ o.conn = r.conn /\ o.told = r.told /\ o.st = r.st /\ o.stray = r.stray
      /\ o.timer = r.timer /\ o.due = r.due
  BY DEF SocketType
<1>2. /\ o.opt.again = r.opt.again /\ o.opt.timeout = r.opt.timeout
      /\ o.opt.passive = (r.opt.passive /\ passive)
      /\ r.stray \in BOOLEAN
  BY DEF SocketType
<1>3. Shut(r, passive) = IF c.st = 2 /\ c.op = 0 THEN e ELSE c
  BY DEF Shut
<1> HIDE DEF o
<1>4. /\ n \in SocketType /\ n.kind = o.kind /\ n.handle = o.handle /\ n.op = o.op
      /\ n.conn = o.conn /\ n.told = o.told /\ n.opt = o.opt /\ n.timer = "off"
      /\ n.stray = (o.stray \/ o.timer = "retry")
      /\ n.due = IF o.timer = "retry" THEN o.due \cup {"retry"} ELSE o.due
  BY <1>1, CancelFacts
<1> HIDE DEF n
<1>5. /\ d \in SocketType /\ d.kind = n.kind /\ d.handle = n.handle /\ d.op = n.op
      /\ d.conn = n.conn /\ d.told = n.told /\ d.opt = n.opt /\ d.timer = n.timer
      /\ d.stray = n.stray /\ d.due = n.due /\ d.st = 2
  <2>1. /\ m \in SocketType /\ m.kind = n.kind /\ m.handle = n.handle /\ m.op = n.op
        /\ m.conn = n.conn /\ m.told = n.told /\ m.opt = n.opt /\ m.timer = n.timer
        /\ m.stray = n.stray /\ m.due = n.due /\ m.st = 2
    BY <1>4 DEF SocketType
  <2> HIDE DEF m
  <2> QED
    BY <2>1 DEF SocketType
<1> HIDE DEF d
<1>6. /\ c \in SocketType /\ c.kind = r.kind /\ c.handle = r.handle /\ c.op = r.op
      /\ c.conn = r.conn /\ c.told = r.told /\ c.opt = o.opt
      /\ c.st = IF r.st = 1 THEN 2 ELSE r.st
      /\ c.timer = IF r.st = 1 THEN "off" ELSE r.timer
      /\ c.stray = (r.stray \/ (r.st = 1 /\ r.timer = "retry"))
      /\ c.due = IF r.st = 1 /\ r.timer = "retry" THEN r.due \cup {"retry"} ELSE r.due
  <2>1. CASE r.st = 1
    <3>1. c = d
      BY <2>1
    <3> HIDE DEF c
    <3> QED
      BY <1>1, <1>4, <1>5, <2>1, <3>1
  <2>2. CASE r.st # 1
    <3>1. c = o
      BY <2>2
    <3> HIDE DEF c
    <3> QED
      BY <1>1, <1>2, <2>2, <3>1
  <2> QED
    BY <2>1, <2>2
<1> HIDE DEF c
<1>7. /\ e \in SocketType /\ e.kind = c.kind /\ e.handle = c.handle /\ e.op = c.op
      /\ e.conn = c.conn /\ e.told = c.told /\ e.opt = c.opt /\ e.st = 0
      /\ e.timer = c.timer /\ e.stray = c.stray /\ e.due = c.due
  BY <1>6 DEF SocketType
<1> HIDE DEF e
<1>8. r.op \in Nat /\ r.st \in {0, 1, 2}
  BY DEF SocketType
<1> QED
  BY <1>2, <1>3, <1>6, <1>7, <1>8

-----------------------------------------------------------------------------
(* Steps of one socket                                                     *)

\* No handle and no socket is None.
LEMMA NoneFacts == None \notin Handles /\ None \notin Sockets
BY LinksAssumption DEF Handles

\* The socket s becomes q, and the thread t may enter LinkDown() for it.
Step(t, s, q) ==
    /\ sock' = [sock EXCEPT ![s] = q] /\ UNCHANGED pool
    /\ q.kind = sock[s].kind /\ q.handle = sock[s].handle /\ q.kind # "unused"
    /\ UNCHANGED linkdown \/ (down[t] = Out /\ LinkDown(t, s))

\* A thread outside LinkDown() is about to do nothing.
LEMMA OutFacts ==
    /\ Out.at = "out"
    /\ \A s \in Sockets : Out # [sock |-> s, at |-> "clear"] /\ Out # [sock |-> s, at |-> "push"]
    /\ \A s, u \in Sockets, a, b \in {"clear", "push"} :
          [sock |-> s, at |-> a] = [sock |-> u, at |-> b] => s = u /\ a = b
<1>1. \A s \in Sockets, a \in {"clear", "push"} :
         [sock |-> s, at |-> a].at = a /\ [sock |-> s, at |-> a].sock = s
  OBVIOUS
<1>2. Out.at = "out"
  BY DEF Out
<1> QED
  BY <1>1, <1>2

\* Where a thread may stand.
LEMMA DownFacts ==
    ASSUME Types, NEW t \in Threads
    PROVE  \/ down[t] = Out
           \/ \E s \in Sockets : Clearing(t, s) /\ down[t].at = "clear" /\ down[t].sock = s
           \/ \E s \in Sockets : /\ down[t] = [sock |-> s, at |-> "push"]
                                 /\ down[t].at = "push" /\ down[t].sock = s
<1>1. down[t] \in {Out} \cup [sock : Sockets, at : {"clear", "push"}]
  BY DEF Types
<1>2. CASE down[t] \in [sock : Sockets, at : {"clear", "push"}]
  <2>1. /\ down[t].sock \in Sockets /\ down[t].at \in {"clear", "push"}
        /\ down[t] = [sock |-> down[t].sock, at |-> down[t].at]
    BY <1>2
  <2> QED
    BY <2>1 DEF Clearing
<1> QED
  BY <1>1, <1>2

\* What a step of one socket leaves alone: the other sockets, who holds which handle,
\* and the threads that are in LinkDown().
LEMMA Moved ==
    ASSUME Types, BaseInv, NEW t \in Threads, NEW s \in Sockets, NEW q \in SocketType,
           Step(t, s, q)
    PROVE  /\ free' = free /\ table' = table
           /\ sock' \in [Sockets -> SocketType] /\ sock'[s] = q
           /\ \A u \in Sockets : u # s => sock'[u] = sock[u]
           /\ \A u \in Sockets : sock'[u].kind = sock[u].kind /\ sock'[u].handle = sock[u].handle
           /\ down' \in [Threads -> {Out} \cup [sock : Sockets, at : {"clear", "push"}]]
           /\ twice' \in BOOLEAN /\ crashed' \in BOOLEAN /\ (twice => twice')
           /\ \A u \in Threads : down'[u] = down[u] \/ (u = t /\ down[u] = Out /\ Clearing(u, s)')
           /\ \A u \in Threads, x \in Sockets : Clearing(u, x) => Clearing(u, x)'
           /\ \A x \in Sockets : x # s => (Leaving(x)' <=> Leaving(x))
           /\ \A x \in Sockets : Leaving(x) => Leaving(x)'
           /\ \A x \in Sockets : Held(x)' <=> Held(x)
           /\ BaseInv'
<1>1. sock \in [Sockets -> SocketType]
  BY DEF Types
<1>2. free' = free /\ table' = table
  BY DEF Step, pool
<1>3. /\ sock' \in [Sockets -> SocketType] /\ sock'[s] = q
      /\ \A u \in Sockets : u # s => sock'[u] = sock[u]
  BY <1>1 DEF Step
<1>4. \A u \in Sockets : sock'[u].kind = sock[u].kind /\ sock'[u].handle = sock[u].handle
  BY <1>3 DEF Step
<1>5. /\ down' \in [Threads -> {Out} \cup [sock : Sockets, at : {"clear", "push"}]]
      /\ twice' \in BOOLEAN /\ crashed' \in BOOLEAN /\ (twice => twice')
      /\ \A u \in Threads :
            down'[u] = down[u] \/ /\ u = t /\ down[u] = Out /\ Clearing(u, s)'
                                  /\ sock[s].handle # None
  <2>1. CASE UNCHANGED linkdown
    BY <2>1 DEF linkdown, Types
  <2>2. CASE down[t] = Out /\ LinkDown(t, s)
    <3> DEFINE h == sock[s].handle
               d == [sock |-> s, at |-> "clear"]
    <3>1. CASE h # None /\ table[h] = s
      <4>1. down' = [down EXCEPT ![t] = d] /\ crashed' = crashed
        BY <2>2, <3>1 DEF LinkDown
      <4>7. twice' = (twice \/ \E u \in Threads : Clearing(u, s))
        BY <2>2, <3>1, Zenon DEF LinkDown
      <4>2. d \in [sock : Sockets, at : {"clear", "push"}]
        OBVIOUS
      <4>3. \A u \in Threads : down'[u] = IF u = t THEN d ELSE down[u]
        BY <4>1 DEF Types
      <4>4. Clearing(t, s)'
        BY <4>3 DEF Clearing
      <4>5. down' \in [Threads -> {Out} \cup [sock : Sockets, at : {"clear", "push"}]]
        BY <4>1, <4>2 DEF Types
      <4>6. twice' \in BOOLEAN /\ crashed' \in BOOLEAN /\ (twice => twice')
        BY <4>1, <4>7 DEF Types
      <4> HIDE DEF d
      <4> QED
        BY <2>2, <3>1, <4>3, <4>4, <4>5, <4>6
    <3>2. CASE ~(h # None /\ table[h] = s)
      <4>1. down' = down /\ twice' = twice
        BY <2>2, <3>2 DEF LinkDown
      <4>2. crashed' = (h = None)
        BY <2>2, <3>2, Zenon DEF LinkDown
      <4> QED
        BY <4>1, <4>2 DEF Types
    <3> QED
      BY <3>1, <3>2
  <2> QED
    BY <2>1, <2>2 DEF Step
<1>6. \A u \in Threads, x \in Sockets : Clearing(u, x) => Clearing(u, x)'
  BY <1>5, OutFacts DEF Clearing
<1>7. \A u \in Threads, x \in Sockets : x # s /\ Clearing(u, x)' => Clearing(u, x)
  BY <1>5, OutFacts DEF Clearing
<1>8. \A x \in Sockets : Held(x)' <=> Held(x)
  BY <1>2, <1>4 DEF Held, Up
<1>9. BaseInv'
  <2>1. \A h \in Handles : table'[h] # None =>
           sock'[table'[h]].handle = h /\ sock'[table'[h]].kind # "unused"
    BY <1>2, <1>4 DEF BaseInv, Types
  <2>2. ASSUME NEW u \in Threads, down'[u] # Out
        PROVE  sock'[down'[u].sock].handle # None /\ sock'[down'[u].sock].kind # "unused"
    <3>1. CASE down'[u] = down[u]
      <4>1. down[u].sock \in Sockets
        BY <2>2, <3>1, DownFacts
      <4> QED
        BY <1>4, <2>2, <3>1, <4>1 DEF BaseInv
    <3>2. CASE down'[u] # down[u]
      <4>1. Clearing(u, s)' /\ sock[s].handle # None
        BY <1>5, <3>2
      <4>2. down'[u].sock = s
        BY <4>1 DEF Clearing
      <4> QED
        BY <1>3, <4>1, <4>2 DEF Step
    <3> QED
      BY <3>1, <3>2
  <2> QED
    BY <2>1, <2>2 DEF BaseInv
<1>10. \A x \in Sockets : x # s => (Leaving(x)' <=> Leaving(x))
  BY <1>6, <1>7 DEF Leaving
<1>11. \A x \in Sockets : Leaving(x) => Leaving(x)'
  BY <1>6 DEF Leaving
<1> QED
  BY <1>2, <1>3, <1>4, <1>5, <1>6, <1>8, <1>9, <1>10, <1>11

\* As long as no handle is put back twice, such a step leaves the pool in order: the
\* handle that a thread begins to put back is its socket's.
LEMMA MovedPool ==
    ASSUME Types, BaseInv, PoolInv, ~twice', NEW t \in Threads, NEW s \in Sockets,
           NEW q \in SocketType, Step(t, s, q)
    PROVE  PoolInv'
<1>1. /\ free' = free /\ table' = table
      /\ \A u \in Sockets : sock'[u].kind = sock[u].kind /\ sock'[u].handle = sock[u].handle
      /\ \A u \in Threads : down'[u] = down[u] \/ (u = t /\ down[u] = Out /\ Clearing(u, s)')
  BY Moved
<1>2. \A h \in Handles : Returning(h)' = Returning(h)
  <2> SUFFICES ASSUME NEW h \in Handles, NEW u \in Threads
               PROVE  u \in Returning(h)' <=> u \in Returning(h)
    BY DEF Returning
  <2>1. CASE down'[u] = down[u]
    <3>1. down[u].at = "push" => down[u].sock \in Sockets
      BY DownFacts, OutFacts
    <3> QED
      BY <1>1, <2>1, <3>1 DEF Returning
  <2>2. CASE down'[u] # down[u]
    <3>1. down[u].at = "out" /\ down'[u].at = "clear"
      BY <1>1, <2>2, OutFacts DEF Clearing
    <3> QED
      BY <3>1 DEF Returning
  <2> QED
    BY <2>1, <2>2
<1>3. \A i \in 1..Len(free) : free[i] \in Handles
  BY ElementOfSeq DEF Types
<1>4. ASSUME NEW a \in Threads, NEW b \in Threads, NEW x \in Sockets, Clearing(a, x)'
      PROVE  table'[sock'[x].handle] = x /\ (Clearing(b, x)' => b = a)
  <2>1. CASE Clearing(a, x) /\ Clearing(b, x)
    BY <1>1, <2>1 DEF PoolInv
  <2>2. CASE Clearing(a, x) /\ ~Clearing(b, x)
    <3>1. table'[sock'[x].handle] = x
      BY <1>1, <2>2 DEF PoolInv
    <3>2. ASSUME Clearing(b, x)' PROVE FALSE
      <4>1. b = t /\ down[b] = Out /\ x = s /\ down'[b] # down[b]
        BY <1>1, <2>2, <3>2, OutFacts DEF Clearing
      <4>2. LinkDown(t, s) /\ ~(UNCHANGED linkdown)
        BY <4>1 DEF Step, linkdown
      <4>3. twice'
        BY <2>2, <4>1, <4>2 DEF LinkDown
      <4> QED
        BY <4>3
    <3> QED
      BY <3>1, <3>2
  <2>3. CASE ~Clearing(a, x)
    <3>1. a = t /\ down[a] = Out /\ x = s /\ down'[a] # down[a]
      BY <1>1, <1>4, <2>3, OutFacts DEF Clearing
    <3>2. LinkDown(t, s) /\ ~(UNCHANGED linkdown)
      BY <3>1 DEF Step, linkdown
    <3>3. table[sock[s].handle] = s /\ ~\E u \in Threads : Clearing(u, s)
      BY <3>1, <3>2 DEF LinkDown
    <3>4. Clearing(b, x)' => b = a
      BY <1>1, <3>1, <3>3 DEF Clearing
    <3> QED
      BY <1>1, <3>1, <3>3, <3>4
  <2> QED
    BY <2>1, <2>2, <2>3
<1>5. /\ \A i, j \in 1..Len(free') : free'[i] = free'[j] => i = j
      /\ \A i \in 1..Len(free') : table'[free'[i]] = None /\ Returning(free[i])' = {}
      /\ \A h \in Handles : table'[h] = None /\ Returning(h)' = {} =>
            \E i \in 1..Len(free') : free'[i] = h
      /\ \A h \in Handles, u \in Threads : u \in Returning(h)' =>
            table'[h] = None /\ Returning(h)' = {u}
  BY <1>1, <1>2, <1>3 DEF PoolInv
<1> QED
  BY <1>4, <1>5 DEF PoolInv

\* What gives its handle back is closed, if that holds of the socket of the step.
LEMMA GoneStep ==
    ASSUME Types, BaseInv, GoneInv, NEW t \in Threads, NEW s \in Sockets,
           NEW q \in SocketType, Step(t, s, q),
           \A u \in Sockets : u # s => accept'[u] = accept[u],
           ~q.stray /\ (Leaving(s)' \/ ~Held(s)) => Dead(q) /\ accept'[s] # "waits"
    PROVE  GoneInv'
<1> SUFFICES ASSUME NEW u \in Sockets, ~sock'[u].stray, Leaving(u)' \/ ~(Held(u)')
             PROVE  Dead(sock'[u]) /\ accept'[u] # "waits"
  BY DEF GoneInv, Dead
<1>1. CASE u = s
  BY <1>1, Moved
<1>2. CASE u # s
  <2>1. sock'[u] = sock[u] /\ (Leaving(u) \/ ~Held(u))
    BY <1>2, Moved
  <2> QED
    BY <1>2, <2>1 DEF GoneInv
<1> QED
  BY <1>1, <1>2

\* An event finds what it may find, if it does so when the socket of the step is the one
\* that it found waiting.
LEMMA PendingStep ==
    ASSUME Types, BaseInv, PendingInv, NEW t \in Threads, NEW s \in Sockets,
           NEW q \in SocketType, Step(t, s, q),
           \A h \in Handles, u \in Sockets : Pending(h, u)' => Pending(h, u),
           UNCHANGED <<logic, status>>,
           \A h \in Handles : Pending(h, s)' /\ Waiting(h, s) => Swept /\ NoServer(h)'
    PROVE  PendingInv'
<1> SUFFICES ASSUME NEW h \in Handles, NEW u \in Sockets, Pending(h, u)'
             PROVE  Waiting(h, u)' \/ (Swept' /\ NoServer(h)')
  BY DEF PendingInv
<1>1. Pending(h, u) /\ (Swept' <=> Swept) /\ logic' = logic
  BY DEF Swept
<1>2. CASE Waiting(h, u)
  <2>1. CASE u = s
    BY <1>1, <1>2, <2>1
  <2>2. CASE u # s
    BY <1>2, <2>2, Moved DEF Waiting
  <2> QED
    BY <2>1, <2>2
<1>3. CASE Swept /\ NoServer(h)
  <2>1. table'[h] = table[h] /\ table[h] \in Sockets \cup {None}
    BY Moved DEF Types
  <2>2. \A x \in Sockets : sock'[x].kind = sock[x].kind
    BY Moved
  <2>3. Logic \in Threads
    BY DEF Threads
  <2>4. \A x \in Sockets : Clearing(Logic, x) => Clearing(Logic, x)'
    BY <2>3, Moved
  <2> QED
    BY <1>1, <1>3, <2>1, <2>2, <2>4 DEF NoServer
<1> QED
  BY <1>1, <1>2, <1>3 DEF PendingInv

\* What CloseAll() has looked at reads or leaves, if the socket of the step does.
LEMMA SweepStep ==
    ASSUME Types, BaseInv, SweepInv, NEW t \in Threads, NEW s \in Sockets,
           NEW q \in SocketType, Step(t, s, q),
           \A h \in Handles : table[h] # s /\ Looked(h)' => Looked(h),
           \A h \in Handles : table[h] = s /\ Looked(h)' /\ q.kind = "server" =>
              q.op > 0 \/ Leaving(s)'
    PROVE  SweepInv'
<1> SUFFICES ASSUME NEW h \in Handles, Looked(h)', table'[h] # None,
                    sock'[table'[h]].kind = "server"
             PROVE  sock'[table'[h]].op > 0 \/ Leaving(table[h])'
  BY Moved DEF SweepInv, Leaving, Clearing
<1>1. table'[h] = table[h] /\ table[h] \in Sockets
  BY Moved DEF Types
<1>2. CASE table[h] = s
  BY <1>1, <1>2, Moved
<1>3. CASE table[h] # s
  <2>1. /\ sock'[table[h]] = sock[table[h]]
        /\ Leaving(table[h]) => \E u \in Threads : Clearing(u, table[h])'
    BY <1>1, <1>3, Moved DEF Leaving
  <2>2. sock[table[h]].op > 0 \/ Leaving(table[h])
    BY <1>1, <1>3, <2>1 DEF SweepInv
  <2> QED
    BY <1>1, <2>1, <2>2 DEF Leaving, Clearing
<1> QED
  BY <1>2, <1>3

\* No event is added, and at most the first is taken.
Fewer == events' = events \/ (events # <<>> /\ events' = Tail(events))

\* What remains pending was, and is the event of a socket of its own.
LEMMA FewerFacts ==
    ASSUME Types, EventInv, Fewer
    PROVE  /\ events' \in Seq((Handles \cup {None}) \X Sockets)
           /\ \A h \in Handles \cup {None}, u \in Sockets : Pending(h, u)' => Pending(h, u)
           /\ \A i, j \in 1..Len(events') : events'[i][2] = events'[j][2] => i = j
           /\ events # <<>> /\ events' = Tail(events) =>
                 \E h \in Handles \cup {None}, u \in Sockets :
                    /\ Head(events) = <<h, u>> /\ Pending(h, u)
                    /\ \A g \in Handles \cup {None} : ~(Pending(g, u)')
<1>1. events \in Seq((Handles \cup {None}) \X Sockets)
  BY DEF Types
<1>2. CASE ~(events # <<>> /\ events' = Tail(events))
  BY <1>1, <1>2 DEF Pending, EventInv, Fewer
<1>3. CASE events # <<>> /\ events' = Tail(events)
  <2>1. /\ events' \in Seq((Handles \cup {None}) \X Sockets) /\ Len(events) \in Nat \ {0}
        /\ Len(events') = Len(events) - 1 /\ \A i \in 1..Len(events') : events'[i] = events[i + 1]
        /\ Head(events) = events[1] /\ Head(events) \in (Handles \cup {None}) \X Sockets
    BY <1>1, <1>3, HeadTailProperties, LenProperties, EmptySeq
  <2>2. \A i \in 1..Len(events') : i + 1 \in 1..Len(events) /\ i + 1 # 1
    BY <2>1
  <2>3. \A h \in Handles \cup {None}, u \in Sockets : Pending(h, u)' => Pending(h, u)
    BY <2>1, <2>2 DEF Pending
  <2>4. \A i, j \in 1..Len(events') : events'[i][2] = events'[j][2] => i = j
    <3> SUFFICES ASSUME NEW i \in 1..Len(events'), NEW j \in 1..Len(events'),
                        events'[i][2] = events'[j][2]
                 PROVE  i = j
      OBVIOUS
    <3>1. events[i + 1][2] = events[j + 1][2]
      BY <2>1
    <3>2. i + 1 = j + 1
      BY <2>2, <3>1 DEF EventInv
    <3> QED
      BY <2>1, <3>2
  <2>5. PICK h \in Handles \cup {None}, u \in Sockets : Head(events) = <<h, u>>
    BY <2>1
  <2>6. 1 \in 1..Len(events) /\ events[1] = <<h, u>>
    BY <2>1, <2>5
  <2>7. Pending(h, u)
    BY <2>6 DEF Pending
  <2>8. ASSUME NEW g \in Handles \cup {None}, Pending(g, u)' PROVE FALSE
    <3>1. PICK i \in 1..Len(events') : events'[i] = <<g, u>>
      BY <2>8 DEF Pending
    <3>2. events[i + 1] = <<g, u>>
      BY <2>1, <3>1
    <3>3. events[i + 1][2] = events[1][2]
      BY <2>6, <3>2
    <3> QED
      BY <2>2, <2>6, <3>3 DEF EventInv
  <2> QED
    BY <2>1, <2>3, <2>4, <2>5, <2>7, <2>8
<1> QED
  BY <1>2, <1>3 DEF Fewer

\* A step of the socket s keeps the invariant, if what becomes of s itself does.
LEMMA Handled ==
    ASSUME LinksInv, NEW t \in Threads, NEW s \in Sockets, NEW q \in SocketType,
           Step(t, s, q), SocketOK(q),
           NEW a \in {"none", "waits", "post", "link", "leave"},
           accept' = [accept EXCEPT ![s] = a], a = "none" <=> accept[s] = "none",
           a = "waits" => accept[s] = "waits",
           UNCHANGED <<status, count, failed, logic, want>>, Fewer, sweep' \subseteq Handles,
           ~twice' /\ a = "waits" => q.st = 0 /\ q.told = 0 /\ ~q.stray,
           ~twice' /\ ~q.stray /\ (Leaving(s)' \/ ~Held(s)) => Dead(q) /\ a # "waits",
           \A h \in Handles : ~twice' /\ Waiting(h, s) /\ Pending(h, s)' => Swept /\ NoServer(h)',
           \A h \in Handles : table[h] # s /\ Looked(h)' => Looked(h),
           \A h \in Handles : ~twice' /\ table[h] = s /\ Looked(h)' /\ q.kind = "server" =>
              q.op > 0 \/ Leaving(s)'
    PROVE  LinksInv'
<1>1. /\ free' = free /\ table' = table
      /\ sock' \in [Sockets -> SocketType] /\ sock'[s] = q
      /\ \A u \in Sockets : u # s => sock'[u] = sock[u]
      /\ \A u \in Sockets : sock'[u].kind = sock[u].kind /\ sock'[u].handle = sock[u].handle
      /\ down' \in [Threads -> {Out} \cup [sock : Sockets, at : {"clear", "push"}]]
      /\ twice' \in BOOLEAN /\ crashed' \in BOOLEAN /\ (twice => twice')
      /\ BaseInv'
  BY Moved DEF LinksInv
<1>2. /\ accept' \in [Sockets -> {"none", "waits", "post", "link", "leave"}] /\ accept'[s] = a
      /\ \A u \in Sockets : u # s => accept'[u] = accept[u]
  BY DEF LinksInv, Types
<1>3. /\ events' \in Seq((Handles \cup {None}) \X Sockets)
      /\ \A h \in Handles \cup {None}, u \in Sockets : Pending(h, u)' => Pending(h, u)
      /\ \A i, j \in 1..Len(events') : events'[i][2] = events'[j][2] => i = j
  BY FewerFacts DEF LinksInv
<1>4. Types'
  BY <1>1, <1>2, <1>3 DEF LinksInv, Types
<1>5. AcceptInv'
  <2>1. {u \in Sockets : accept'[u] # "none"} = {u \in Sockets : accept[u] # "none"}
    BY <1>2
  <2>2. CountExact'
    BY <2>1 DEF LinksInv, AcceptInv, CountExact
  <2>3. \A u \in Sockets : accept'[u] # "none" => sock'[u].kind = "server"
    BY <1>1, <1>2 DEF LinksInv, AcceptInv
  <2>4. Swept' => \A u \in Sockets : accept'[u] = "none"
    BY <1>2 DEF LinksInv, AcceptInv, Swept
  <2> QED
    BY <2>2, <2>3, <2>4 DEF LinksInv, AcceptInv
<1>6. LocalInv'
  <2> SUFFICES ASSUME NEW u \in Sockets PROVE SocketOK(sock'[u])
    BY DEF LocalInv, SocketOK, NoDial, DialOK, Sole
  <2> QED
    BY <1>1 DEF LinksInv, LocalInv
<1>7. EventInv'
  <2>1. ASSUME NEW h \in Handles \cup {None}, NEW u \in Sockets, Pending(h, u)'
        PROVE  sock'[u].kind = "server" /\ sock'[u].handle = h /\ accept'[u] # "waits"
    <3>1. sock[u].kind = "server" /\ sock[u].handle = h /\ accept[u] # "waits"
      BY <1>3, <2>1 DEF LinksInv, EventInv
    <3> QED
      BY <1>1, <1>2, <3>1
  <2> QED
    BY <1>3, <2>1 DEF EventInv
<1>8. ASSUME ~twice' PROVE PoolInv' /\ GoneInv' /\ WaitInv' /\ PendingInv' /\ SweepInv'
  <2>1. Types /\ BaseInv /\ PoolInv /\ GoneInv /\ WaitInv /\ PendingInv /\ SweepInv
    BY <1>1, <1>8 DEF LinksInv
  <2>2. PoolInv'
    BY <1>8, <2>1, MovedPool
  <2>3. GoneInv'
    BY <1>2, <1>8, <2>1, GoneStep
  <2>4. PendingInv'
    BY <1>3, <1>8, <2>1, PendingStep
  <2>5. SweepInv'
    BY <1>8, <2>1, SweepStep
  <2>6. WaitInv'
    BY <1>1, <1>2, <1>8, <2>1 DEF WaitInv
  <2> QED
    BY <2>2, <2>3, <2>4, <2>5, <2>6
<1> QED
  BY <1>1, <1>4, <1>5, <1>6, <1>7, <1>8 DEF LinksInv

-----------------------------------------------------------------------------
(* close()                                                                 *)

\* What close() makes of the socket s that has come to be r: it waits for the reads,
\* dials again, or closes for good and gives the handle back.
Closed(t, s, r, passive, q) ==
    /\ Step(t, s, q) /\ SocketOK(q)
    /\ r.stray => q.stray
    /\ r.op > 0 => q.op > 0 /\ UNCHANGED linkdown
    /\ r.op = 0 /\ r.opt.passive /\ passive => UNCHANGED linkdown
    /\ r.op = 0 /\ ~(r.opt.passive /\ passive) =>
          /\ LinkDown(t, s) /\ q.st = 0 /\ q.op = 0
          /\ ~q.stray /\ (r.st = 0 => r.timer = "off" /\ r.due = {}) =>
                q.timer = "off" /\ q.due = {}

\* close() leaves a socket as Closed says.
LEMMA CloseFacts ==
    ASSUME Types, NEW t \in Threads, down[t] = Out, NEW s \in Sockets, NEW r \in SocketType,
           NEW passive \in BOOLEAN, r.kind = sock[s].kind, r.handle = sock[s].handle,
           r.kind \in {"server", "dialled"}, SocketOK(r), passive => r.st # 0,
           Close(t, s, r, passive)
    PROVE  \E q \in SocketType : Closed(t, s, r, passive, q)
<1> DEFINE c == Shut(r, passive)
           d == Dial(c)
           done == c.st = 0 /\ c.op = 0
           q == IF done /\ c.opt.passive THEN d ELSE c
<1>1. /\ c \in SocketType
      /\ c.kind = r.kind /\ c.handle = r.handle /\ c.op = r.op /\ c.conn = r.conn
      /\ c.told = r.told /\ c.opt.again = r.opt.again
      /\ c.opt.passive = (r.opt.passive /\ passive)
      /\ c.st = IF r.op = 0 \/ r.st = 0 THEN 0 ELSE 2
      /\ c.timer = IF r.st = 1 THEN "off" ELSE r.timer
      /\ c.stray = (r.stray \/ (r.st = 1 /\ r.timer = "retry"))
      /\ c.due = IF r.st = 1 /\ r.timer = "retry" THEN r.due \cup {"retry"} ELSE r.due
  BY ShutFacts
<1>2. /\ d \in SocketType /\ d.kind = c.kind /\ d.handle = c.handle /\ d.st = c.st
      /\ d.op = c.op /\ d.told = 0 /\ d.opt = c.opt
      /\ d.timer = IF c.opt.timeout THEN "timeout" ELSE c.timer
      /\ d.stray = (c.stray \/ (c.opt.timeout /\ c.timer = "retry"))
      /\ d.due = IF c.opt.timeout /\ c.timer = "retry" THEN c.due \cup {"retry"} ELSE c.due
  BY <1>1, DialFacts
<1>3. /\ sock' = [sock EXCEPT ![s] = q] /\ UNCHANGED pool
      /\ IF done /\ ~c.opt.passive THEN LinkDown(t, s) ELSE UNCHANGED linkdown
  BY DEF Close
<1>4. /\ r.op \in Nat /\ r.st \in {0, 1, 2} /\ r.stray \in BOOLEAN /\ r.opt.passive \in BOOLEAN
      /\ c.opt.passive \in BOOLEAN /\ r.told \in Nat
      /\ r.timer \in {"off", "timeout", "retry"} /\ r.due \subseteq {"timeout", "retry"}
  BY <1>1 DEF SocketType
<1>5. (done <=> r.op = 0) /\ (r.op > 0 => r.st # 0 /\ c.st = 2)
  BY <1>1, <1>4 DEF SocketOK
<1> HIDE DEF c, d, done
<1>6. CASE r.kind = "server"
  <2>1. NoDial(r) /\ ~r.opt.passive
    BY <1>6 DEF SocketOK, NoDial
  <2>2. q = c /\ NoDial(c)
    BY <1>1, <1>4, <2>1 DEF NoDial
  <2>3. SocketOK(c)
    BY <1>1, <1>4, <1>5, <1>6, <2>2 DEF SocketOK
  <2> HIDE DEF q
  <2>4. c.timer = "off" /\ c.due = {} /\ ~c.opt.passive
    BY <2>2 DEF NoDial
  <2>5. Step(t, s, q)
    BY <1>1, <1>3, <1>6, <2>2 DEF Step
  <2> QED
    BY <1>1, <1>3, <1>4, <1>5, <2>1, <2>2, <2>3, <2>4, <2>5 DEF Closed
<1>7. CASE r.kind = "dialled"
  <2>1. DialOK(r)
    BY <1>7 DEF SocketOK
  <2>2. CASE done /\ c.opt.passive
    <3>1. q = d /\ r.st # 0 /\ passive
      BY <1>1, <1>4, <2>2
    <3> HIDE DEF q
    <3>2. ~(q.opt.again /\ q.stray) => Sole(q)
      <4> SUFFICES ASSUME ~(q.opt.again /\ q.stray) PROVE Sole(q)
        OBVIOUS
      <4>1. Sole(r)
        BY <1>1, <1>2, <1>4, <2>1, <3>1 DEF DialOK
      <4>2. r.timer = "off" /\ r.due = {}
        BY <3>1, <4>1 DEF Sole
      <4>3. q.due = {} /\ q.st = 0
        BY <1>1, <1>2, <1>5, <2>2, <3>1, <4>2
      <4> QED
        BY <1>1, <1>2, <1>5, <2>2, <3>1, <4>2, <4>3 DEF Sole
    <3>3. ~q.opt.again => /\ q.timer # "retry" /\ "retry" \notin q.due /\ q.told = 0
      BY <1>1, <1>2, <1>4, <2>1, <3>1 DEF DialOK
    <3>4. SocketOK(q)
      BY <1>1, <1>2, <1>5, <1>7, <2>2, <3>1, <3>2, <3>3 DEF SocketOK, DialOK
    <3>5. Step(t, s, q) /\ UNCHANGED linkdown
      BY <1>1, <1>2, <1>3, <1>7, <2>2, <3>1 DEF Step
    <3> QED
      BY <1>1, <1>2, <1>4, <1>5, <2>2, <3>1, <3>4, <3>5 DEF Closed
  <2>3. CASE ~(done /\ c.opt.passive)
    <3>1. q = c
      BY <2>3
    <3> HIDE DEF q
    <3>2. ~(q.opt.again /\ q.stray) => Sole(q)
      BY <1>1, <1>4, <2>1, <3>1 DEF DialOK, Sole
    <3>3. ~q.opt.again => /\ q.timer # "retry" /\ "retry" \notin q.due /\ q.told <= 1
                          /\ q.timer = "timeout" \/ "timeout" \in q.due => q.told = 0
      BY <1>1, <1>4, <2>1, <3>1 DEF DialOK
    <3>4. SocketOK(q)
      BY <1>1, <1>4, <1>5, <1>7, <3>1, <3>2, <3>3 DEF SocketOK, DialOK
    <3>5. Step(t, s, q)
      BY <1>1, <1>3, <1>7, <3>1 DEF Step
    <3>6. ASSUME ~q.stray, r.st = 0 => r.timer = "off" /\ r.due = {}
          PROVE  q.timer = "off" /\ q.due = {}
      BY <1>1, <1>4, <2>1, <3>1, <3>6 DEF DialOK, Sole
    <3>7. /\ r.op > 0 => q.op > 0 /\ UNCHANGED linkdown
          /\ r.op = 0 /\ ~(r.opt.passive /\ passive) => LinkDown(t, s) /\ q.st = 0 /\ q.op = 0
          /\ ~(r.op = 0 /\ r.opt.passive /\ passive)
      BY <1>1, <1>3, <1>4, <1>5, <2>3, <3>1
    <3> QED
      BY <1>1, <1>4, <3>1, <3>4, <3>5, <3>6, <3>7 DEF Closed
  <2> QED
    BY <2>2, <2>3
<1> QED
  BY <1>6, <1>7

\* A socket that is in the table passes the test of LinkDown().
LEMMA Enters ==
    ASSUME Types, BaseInv, NEW t \in Threads, NEW s \in Sockets, NEW h \in Handles,
           table[h] = s, LinkDown(t, s)
    PROVE  Clearing(t, s)'
<1>1. s # None /\ h # None
  BY NoneFacts
<1>2. sock[s].handle = h
  BY <1>1 DEF BaseInv
<1>3. down' = [down EXCEPT ![t] = [sock |-> s, at |-> "clear"]]
  BY <1>1, <1>2 DEF LinkDown
<1> QED
  BY <1>3 DEF Clearing, Types

\* The steps that close the socket s keep the invariant, when s still has its handle or
\* has been closed before.
LEMMA CloseStep ==
    ASSUME LinksInv, NEW t \in Threads, down[t] = Out, NEW s \in Sockets, NEW r \in SocketType,
           NEW passive \in BOOLEAN, r.kind = sock[s].kind, r.handle = sock[s].handle,
           r.kind \in {"server", "dialled"}, SocketOK(r), passive => r.st # 0,
           Close(t, s, r, passive),
           NEW a \in {"none", "waits", "post", "link", "leave"},
           accept' = [accept EXCEPT ![s] = a], a = "none" <=> accept[s] = "none",
           a = "waits" => accept[s] = "waits",
           UNCHANGED <<status, count, failed, logic, want>>, Fewer, sweep' \subseteq Handles,
           ~twice => a # "waits",
           ~twice /\ ~r.stray => (Held(s) /\ ~Leaving(s)) \/ Dead(r),
           r.op = 0 /\ ~r.stray /\ r.st = 0 => r.timer = "off" /\ r.due = {},
           \A h \in Handles : ~twice /\ Waiting(h, s) /\ Pending(h, s)' =>
              logic = "sweeping" /\ t = Logic /\ r.op = 0,
           \A h \in Handles : table[h] # s /\ Looked(h)' => Looked(h)
    PROVE  LinksInv'
<1>1. Types /\ BaseInv
  BY DEF LinksInv
<1>2. PICK q \in SocketType : Closed(t, s, r, passive, q)
  BY <1>1, CloseFacts
<1>3. /\ Step(t, s, q) /\ SocketOK(q) /\ r.op \in Nat /\ q.kind = sock[s].kind
      /\ sock[s].kind = "server" => ~r.opt.passive
  BY <1>2 DEF Closed, Step, SocketOK, NoDial, SocketType
<1>4. twice => twice'
  BY <1>1, <1>3, Moved
<1>5. ASSUME ~twice', ~q.stray, Leaving(s)' \/ ~Held(s)
      PROVE  Dead(q) /\ a # "waits"
  <2>1. ~r.stray /\ ((Held(s) /\ ~Leaving(s)) \/ Dead(r))
    BY <1>2, <1>4, <1>5 DEF Closed
  <2>2. CASE Held(s) /\ ~Leaving(s)
    <3>1. ~(UNCHANGED linkdown)
      BY <1>5, <2>2 DEF linkdown, Leaving, Clearing
    <3>2. r.op = 0 /\ ~(r.opt.passive /\ passive)
      BY <1>2, <1>3, <3>1 DEF Closed
    <3> QED
      BY <1>2, <1>4, <1>5, <2>1, <3>2 DEF Closed, Dead
  <2>3. CASE Dead(r)
    <3>1. r.op = 0 /\ ~(r.opt.passive /\ passive) /\ r.timer = "off" /\ r.due = {}
      BY <2>3 DEF Dead
    <3> QED
      BY <1>2, <1>4, <1>5, <2>1, <3>1 DEF Closed, Dead
  <2> QED
    BY <2>1, <2>2, <2>3
<1>6. ASSUME NEW h \in Handles, sock[s].kind = "server", r.op = 0, table[h] = s
      PROVE  Clearing(t, s)'
  <2>1. LinkDown(t, s)
    BY <1>2, <1>3, <1>6 DEF Closed
  <2> QED
    BY <1>1, <1>6, <2>1, Enters
<1>7. ASSUME NEW h \in Handles, ~twice', Waiting(h, s), Pending(h, s)'
      PROVE  Swept /\ NoServer(h)'
  <2>1. logic = "sweeping" /\ t = Logic /\ r.op = 0 /\ table[h] = s
    BY <1>4, <1>7 DEF Waiting
  <2>2. sock[s].kind = "server"
    BY ZenonT(60), <1>7, FewerFacts DEF LinksInv, EventInv
  <2>3. Clearing(Logic, s)'
    BY <1>6, <2>1, <2>2
  <2>4. table'[h] = s
    BY <1>3, <2>1 DEF Step, pool
  <2> QED
    BY <2>1, <2>3, <2>4 DEF Swept, NoServer, Clearing
<1>8. ASSUME NEW h \in Handles, ~twice', table[h] = s, Looked(h)', q.kind = "server"
      PROVE  q.op > 0 \/ Leaving(s)'
  <2>1. CASE r.op > 0
    BY <1>2, <2>1 DEF Closed
  <2>2. CASE r.op = 0
    BY <1>3, <1>6, <1>8, <2>2 DEF Leaving
  <2> QED
    BY <1>3, <2>1, <2>2
<1>9. ~twice' /\ a = "waits" => q.st = 0 /\ q.told = 0 /\ ~q.stray
  BY <1>4
<1>10. ~twice' /\ ~q.stray /\ (Leaving(s)' \/ ~Held(s)) => Dead(q) /\ a # "waits"
  BY <1>5
<1>11. \A h \in Handles : ~twice' /\ Waiting(h, s) /\ Pending(h, s)' => Swept /\ NoServer(h)'
  BY <1>7
<1>12. \A h \in Handles : ~twice' /\ table[h] = s /\ Looked(h)' /\ q.kind = "server" =>
          q.op > 0 \/ Leaving(s)'
  BY <1>8
<1> QED
  BY ZenonT(60), <1>3, <1>9, <1>10, <1>11, <1>12, Handled

-----------------------------------------------------------------------------
(* Handlers of a connection                                                *)

\* A step that leaves the server, the events and CloseAll() alone.
Aside == UNCHANGED <<server, events, logic, want, sweep>>

\* What such a step leaves as it was.
LEMMA AsideFacts ==
    ASSUME Types, Aside, NEW s \in Sockets
    PROVE  /\ UNCHANGED <<status, count, failed, logic, want>> /\ Fewer /\ sweep' \subseteq Handles
           /\ accept' = [accept EXCEPT ![s] = accept[s]] /\ accept' = accept
           /\ accept[s] \in {"none", "waits", "post", "link", "leave"}
           /\ \A h \in Handles : Looked(h)' <=> Looked(h)
           /\ \A h \in Handles : Pending(h, s)' <=> Pending(h, s)
<1>1. /\ status' = status /\ count' = count /\ failed' = failed /\ logic' = logic
      /\ want' = want /\ accept' = accept /\ sweep' = sweep /\ events' = events
  BY DEF Aside, server
<1> QED
  BY <1>1 DEF Types, Fewer, Looked, Pending

\* What the handlers of a socket find.
LEMMA SocketFacts ==
    ASSUME LinksInv, NEW s \in Sockets
    PROVE  /\ sock[s] \in SocketType /\ SocketOK(sock[s])
           /\ sock[s].op \in Nat /\ sock[s].st \in {0, 1, 2} /\ sock[s].conn \in Nat
           /\ sock[s].told \in Nat /\ sock[s].stray \in BOOLEAN
           /\ sock[s].kind \in {"unused", "server", "dialled", "lost"}
           /\ sock[s].timer \in {"off", "timeout", "retry"}
           /\ sock[s].due \subseteq {"timeout", "retry"}
           /\ sock[s].kind = "unused" => /\ sock[s].st = 0 /\ sock[s].op = 0 /\ sock[s].conn = 0
                                         /\ sock[s].told = 0 /\ sock[s].due = {}
                                         /\ sock[s].timer = "off"
           /\ sock[s].kind = "dialled" => DialOK(sock[s]) /\ accept[s] = "none"
           /\ \A h \in Handles : Pending(h, s) => sock[s].kind = "server" /\ accept[s] # "waits"
           /\ ~twice /\ accept[s] = "waits" => sock[s].st = 0 /\ sock[s].told = 0 /\ ~sock[s].stray
           /\ ~twice /\ ~sock[s].stray /\ (Leaving(s) \/ ~Held(s)) =>
                 Dead(sock[s]) /\ accept[s] # "waits"
<1>1. sock[s] \in SocketType /\ SocketOK(sock[s])
  BY DEF LinksInv, Types, LocalInv
<1>2. /\ sock[s].kind = "dialled" => DialOK(sock[s]) /\ accept[s] = "none"
      /\ sock[s].kind = "unused" => sock[s] = Fresh
  BY <1>1 DEF SocketOK, LinksInv, AcceptInv
<1>3. /\ \A h \in Handles : Pending(h, s) => sock[s].kind = "server" /\ accept[s] # "waits"
      /\ ~twice /\ accept[s] = "waits" => sock[s].st = 0 /\ sock[s].told = 0 /\ ~sock[s].stray
      /\ ~twice /\ ~sock[s].stray /\ (Leaving(s) \/ ~Held(s)) =>
            Dead(sock[s]) /\ accept[s] # "waits"
  BY DEF LinksInv, EventInv, WaitInv, GoneInv
<1> QED
  BY <1>1, <1>2, <1>3, FreshFacts DEF SocketType

\* A handler of a connection that closes it.
LEMMA AsideClose ==
    ASSUME LinksInv, NEW t \in Threads, down[t] = Out, NEW s \in Sockets, NEW r \in SocketType,
           NEW passive \in BOOLEAN, r.kind = sock[s].kind, r.handle = sock[s].handle,
           r.kind \in {"server", "dialled"}, SocketOK(r), passive => r.st # 0,
           Close(t, s, r, passive), Aside,
           ~twice => accept[s] # "waits",
           ~twice /\ ~r.stray => Held(s) /\ ~Leaving(s),
           r.op = 0 /\ ~r.stray /\ r.st = 0 => r.timer = "off" /\ r.due = {},
           \A h \in Handles : ~(Waiting(h, s) /\ Pending(h, s))
    PROVE  LinksInv'
<1> DEFINE a == accept[s]
<1>1. Types
  BY DEF LinksInv
<1>2. /\ UNCHANGED <<status, count, failed, logic, want>> /\ Fewer /\ sweep' \subseteq Handles
      /\ accept' = [accept EXCEPT ![s] = a]
      /\ a \in {"none", "waits", "post", "link", "leave"}
  BY <1>1, AsideFacts
<1>3. \A h \in Handles : table[h] # s /\ Looked(h)' => Looked(h)
  BY <1>1, AsideFacts
<1>4. \A h \in Handles : ~twice /\ Waiting(h, s) /\ Pending(h, s)' =>
         logic = "sweeping" /\ t = Logic /\ r.op = 0
  BY <1>1, AsideFacts
<1>5. (a = "none" <=> accept[s] = "none") /\ (a = "waits" => accept[s] = "waits")
  OBVIOUS
<1>6. ~twice => a # "waits"
  OBVIOUS
<1> HIDE DEF a
<1> QED
  BY ZenonT(60), <1>2, <1>3, <1>4, <1>5, <1>6, CloseStep

\* The last read of a connection ends.
LEMMA ReadEndsStep ==
    ASSUME LinksInv, NEW t \in Threads, down[t] = Out, NEW s \in Sockets, ReadEnds(t, s)
    PROVE  LinksInv'
<1> DEFINE r == [sock[s] EXCEPT !.op = sock[s].op - 1]
<1>1. Types
  BY DEF LinksInv
<1>2. Close(t, s, r, TRUE) /\ Aside /\ sock[s].op > 0
  BY DEF ReadEnds, Aside
<1>3. /\ sock[s] \in SocketType /\ SocketOK(sock[s]) /\ sock[s].op - 1 \in Nat
      /\ sock[s].st # 0 /\ sock[s].kind \in {"server", "dialled"}
  BY <1>2, SocketFacts DEF SocketOK
<1>4. /\ r \in SocketType /\ r.kind = sock[s].kind /\ r.handle = sock[s].handle
      /\ r.st = sock[s].st /\ r.conn = sock[s].conn /\ r.timer = sock[s].timer
      /\ r.due = sock[s].due /\ r.told = sock[s].told /\ r.stray = sock[s].stray
      /\ r.opt = sock[s].opt
  BY <1>3 DEF SocketType
<1> HIDE DEF r
<1>5. SocketOK(r)
  BY <1>3, <1>4 DEF SocketOK, NoDial, DialOK, Sole
<1>6. ~twice => accept[s] # "waits"
  BY <1>3, SocketFacts
<1>7. ~twice /\ ~r.stray => Held(s) /\ ~Leaving(s)
  BY <1>3, <1>4, SocketFacts DEF Dead
<1>8. \A h \in Handles : ~(Waiting(h, s) /\ Pending(h, s))
  BY <1>2 DEF Waiting
<1>9. r.op = 0 /\ ~r.stray /\ r.st = 0 => r.timer = "off" /\ r.due = {}
  BY <1>3, <1>4
<1> QED
  BY <1>2, <1>3, <1>4, <1>5, <1>6, <1>7, <1>8, <1>9, AsideClose

\* The application closes a link.
LEMMA CloseLinkStep ==
    ASSUME LinksInv, down[Logic] = Out, NEW s \in Sockets, CloseLink(s)
    PROVE  LinksInv'
<1> DEFINE r == [sock[s] EXCEPT !.stray = sock[s].stray \/ sock[s].st = 0]
<1>1. Types /\ Logic \in Threads
  BY DEF LinksInv, Threads
<1>2. Close(Logic, s, r, FALSE) /\ Aside /\ (sock[s].kind = "dialled" \/ sock[s].told > 0)
  BY DEF CloseLink, Aside
<1>3. /\ sock[s] \in SocketType /\ SocketOK(sock[s]) /\ sock[s].kind \in {"server", "dialled"}
      /\ sock[s].stray \in BOOLEAN
  BY <1>2, SocketFacts DEF SocketOK
<1>4. /\ r \in SocketType /\ r.kind = sock[s].kind /\ r.handle = sock[s].handle
      /\ r.st = sock[s].st /\ r.op = sock[s].op /\ r.conn = sock[s].conn
      /\ r.timer = sock[s].timer /\ r.due = sock[s].due /\ r.told = sock[s].told
      /\ r.stray = (sock[s].stray \/ sock[s].st = 0) /\ r.opt = sock[s].opt
  BY <1>3 DEF SocketType
<1> HIDE DEF r
<1>5. SocketOK(r)
  BY <1>3, <1>4 DEF SocketOK, NoDial, DialOK, Sole
<1>6. ~twice => accept[s] # "waits"
  BY <1>2, SocketFacts
<1>7. ~twice /\ ~r.stray => Held(s) /\ ~Leaving(s)
  BY <1>3, <1>4, SocketFacts DEF Dead
<1>8. \A h \in Handles : ~(Waiting(h, s) /\ Pending(h, s))
  BY <1>2, SocketFacts DEF Waiting
<1>9. r.op = 0 /\ ~r.stray /\ r.st = 0 => r.timer = "off" /\ r.due = {}
  BY <1>4
<1> QED
  BY <1>1, <1>2, <1>3, <1>4, <1>5, <1>6, <1>7, <1>8, <1>9, AsideClose

\* The steps of a dial that give no handle back.
LEMMA DialStep ==
    ASSUME LinksInv, NEW t \in Threads, NEW s \in Sockets, sock[s].kind = "dialled",
           NEW q \in SocketType, sock' = [sock EXCEPT ![s] = q], UNCHANGED <<pool, linkdown>>,
           Aside, q.kind = "dialled", q.handle = sock[s].handle, SocketOK(q),
           ~twice /\ ~q.stray /\ (Leaving(s) \/ ~Held(s)) => Dead(q)
    PROVE  LinksInv'
<1>1. Types /\ Step(t, s, q)
  BY DEF LinksInv, Step
<1>2. accept[s] = "none" /\ \A h \in Handles : ~Pending(h, s)
  BY SocketFacts
<1>3. (Leaving(s)' <=> Leaving(s)) /\ twice' = twice
  BY DEF linkdown, Leaving, Clearing
<1>4. ~twice' /\ ~q.stray /\ (Leaving(s)' \/ ~Held(s)) => Dead(q)
  BY <1>3
<1> QED
  BY <1>1, <1>2, <1>4, AsideFacts, Handled

\* A completion that comes too late changes nothing but that it came.
LEMMA ConnectLateStep ==
    ASSUME LinksInv, NEW s \in Sockets, ConnectLate(s)
    PROVE  LinksInv'
<1> DEFINE q == [sock[s] EXCEPT !.conn = sock[s].conn - 1]
<1>1. /\ sock[s].conn > 0 /\ sock' = [sock EXCEPT ![s] = q] /\ UNCHANGED <<pool, linkdown>> /\ Aside
  BY DEF ConnectLate, Aside
<1>2. /\ sock[s] \in SocketType /\ SocketOK(sock[s]) /\ sock[s].kind = "dialled"
      /\ sock[s].conn - 1 \in Nat
  BY <1>1, SocketFacts DEF SocketOK, NoDial
<1>3. /\ q \in SocketType /\ q.kind = sock[s].kind /\ q.handle = sock[s].handle
      /\ q.st = sock[s].st /\ q.op = sock[s].op /\ q.timer = sock[s].timer
      /\ q.due = sock[s].due /\ q.told = sock[s].told /\ q.stray = sock[s].stray
      /\ q.opt = sock[s].opt
  BY <1>2 DEF SocketType
<1> HIDE DEF q
<1>4. SocketOK(q)
  BY <1>2, <1>3 DEF SocketOK, DialOK, Sole
<1>5. ~twice /\ ~q.stray /\ (Leaving(s) \/ ~Held(s)) => Dead(q)
  BY <1>3, SocketFacts DEF Dead
<1>6. Logic \in Threads
  BY DEF Threads
<1> QED
  BY <1>1, <1>2, <1>3, <1>4, <1>5, <1>6, DialStep

\* A timer runs out.
LEMMA TimerExpiresStep ==
    ASSUME LinksInv, NEW s \in Sockets, TimerExpires(s)
    PROVE  LinksInv'
<1> DEFINE m == [sock[s] EXCEPT !.timer = "off"]
           q == [m EXCEPT !.due = sock[s].due \cup {sock[s].timer}]
<1>1. /\ sock[s].timer \in {"timeout", "retry"} /\ sock' = [sock EXCEPT ![s] = q]
      /\ UNCHANGED <<pool, linkdown>> /\ Aside
  BY DEF TimerExpires, Aside
<1>2. sock[s] \in SocketType /\ SocketOK(sock[s]) /\ sock[s].kind = "dialled" /\ DialOK(sock[s])
  BY <1>1, SocketFacts DEF SocketOK, NoDial
<1>3. /\ m \in SocketType /\ m.kind = sock[s].kind /\ m.handle = sock[s].handle
      /\ m.st = sock[s].st /\ m.op = sock[s].op /\ m.timer = "off"
      /\ m.told = sock[s].told /\ m.stray = sock[s].stray /\ m.opt = sock[s].opt
  BY <1>2 DEF SocketType
<1>4. sock[s].due \cup {sock[s].timer} \subseteq {"timeout", "retry"}
  BY <1>1, SocketFacts
<1> HIDE DEF m
<1>5. /\ q \in SocketType /\ q.kind = m.kind /\ q.handle = m.handle /\ q.st = m.st
      /\ q.op = m.op /\ q.timer = m.timer /\ q.due = sock[s].due \cup {sock[s].timer}
      /\ q.told = m.told /\ q.stray = m.stray /\ q.opt = m.opt
  BY <1>3, <1>4 DEF SocketType
<1> HIDE DEF q
<1>6. ~(q.opt.again /\ q.stray) => Sole(q)
  BY <1>1, <1>2, <1>3, <1>5, SocketFacts DEF DialOK, Sole
<1>7. SocketOK(q)
  BY <1>1, <1>2, <1>3, <1>5, <1>6 DEF SocketOK, DialOK
<1>8. ~twice /\ ~q.stray /\ (Leaving(s) \/ ~Held(s)) => Dead(q)
  BY <1>1, <1>3, <1>5, SocketFacts DEF Dead
<1>9. Logic \in Threads
  BY DEF Threads
<1> QED
  BY <1>1, <1>2, <1>3, <1>5, <1>7, <1>8, <1>9, DialStep

\* What a socket is that takes a handler from those that are due.
LEMMA TakesDue ==
    ASSUME LinksInv, NEW s \in Sockets, NEW x \in {"timeout", "retry"}, x \in sock[s].due
    PROVE  LET r == [sock[s] EXCEPT !.due = sock[s].due \ {x}]
           IN  /\ r \in SocketType /\ sock[s].kind = "dialled" /\ r.kind = "dialled"
               /\ r.handle = sock[s].handle /\ r.st = sock[s].st /\ r.op = sock[s].op
               /\ r.conn = sock[s].conn /\ r.timer = sock[s].timer
               /\ r.told = sock[s].told /\ r.stray = sock[s].stray /\ r.opt = sock[s].opt
               /\ r.opt.again \in BOOLEAN /\ r.stray \in BOOLEAN
               /\ r.op > 0 => r.st # 0
               /\ ~(r.opt.again /\ r.stray) =>
                     r.timer = "off" /\ r.due = {} /\ r.st = 0 /\ r.op = 0
               /\ ~r.opt.again => x = "timeout" /\ r.told = 0
               /\ ~twice /\ ~r.stray => Held(s) /\ ~Leaving(s)
<1> DEFINE r == [sock[s] EXCEPT !.due = sock[s].due \ {x}]
<1>1. /\ sock[s] \in SocketType /\ SocketOK(sock[s]) /\ sock[s].kind = "dialled"
      /\ DialOK(sock[s]) /\ sock[s].due # {} /\ sock[s].due \subseteq {"timeout", "retry"}
      /\ sock[s].op \in Nat
  BY SocketFacts DEF SocketOK, NoDial
<1>2. sock[s].due \ {x} \subseteq {"timeout", "retry"}
  BY <1>1
<1>3. /\ r \in SocketType /\ r.kind = sock[s].kind /\ r.handle = sock[s].handle
      /\ r.st = sock[s].st /\ r.op = sock[s].op /\ r.conn = sock[s].conn
      /\ r.timer = sock[s].timer /\ r.due = sock[s].due \ {x}
      /\ r.told = sock[s].told /\ r.stray = sock[s].stray /\ r.opt = sock[s].opt
      /\ r.opt.again \in BOOLEAN /\ r.stray \in BOOLEAN
  BY <1>1, <1>2 DEF SocketType
<1> HIDE DEF r
<1>4. ~(r.opt.again /\ r.stray) => r.timer = "off" /\ r.due = {} /\ r.st = 0 /\ r.op = 0
  BY <1>1, <1>3 DEF DialOK, Sole, SocketOK
<1>5. ~r.opt.again => x = "timeout" /\ r.told = 0
  BY <1>1, <1>3 DEF DialOK
<1>6. ~twice /\ ~r.stray => Held(s) /\ ~Leaving(s)
  BY <1>1, <1>3, SocketFacts DEF Dead
<1>7. r.op > 0 => r.st # 0
  BY <1>1, <1>3 DEF SocketOK
<1> QED
  BY <1>1, <1>3, <1>4, <1>5, <1>6, <1>7 DEF r

\* Such a socket may dial again.
LEMMA Redial ==
    ASSUME LinksInv, NEW s \in Sockets, NEW x \in {"timeout", "retry"}, x \in sock[s].due,
           sock' = [sock EXCEPT ![s] = Dial([sock[s] EXCEPT !.due = sock[s].due \ {x}])],
           UNCHANGED <<pool, linkdown>>, Aside
    PROVE  LinksInv'
<1> DEFINE r == [sock[s] EXCEPT !.due = sock[s].due \ {x}]
           q == Dial(r)
<1>1. /\ r \in SocketType /\ sock[s].kind = "dialled" /\ r.kind = "dialled"
      /\ r.handle = sock[s].handle /\ r.stray \in BOOLEAN /\ r.opt.again \in BOOLEAN
      /\ r.op > 0 => r.st # 0
      /\ ~(r.opt.again /\ r.stray) => r.timer = "off" /\ r.due = {} /\ r.st = 0 /\ r.op = 0
      /\ ~r.opt.again => x = "timeout" /\ r.told = 0
      /\ ~twice /\ ~r.stray => Held(s) /\ ~Leaving(s)
  BY ZenonT(60), TakesDue
<1> HIDE DEF r
<1>2. /\ q \in SocketType /\ q.kind = r.kind /\ q.handle = r.handle /\ q.st = r.st
      /\ q.op = r.op /\ q.told = 0 /\ q.opt = r.opt
      /\ q.timer = IF r.opt.timeout THEN "timeout" ELSE r.timer
      /\ q.stray = (r.stray \/ (r.opt.timeout /\ r.timer = "retry"))
      /\ q.due = IF r.opt.timeout /\ r.timer = "retry" THEN r.due \cup {"retry"} ELSE r.due
  BY <1>1, DialFacts
<1>3. sock' = [sock EXCEPT ![s] = q]
  BY DEF r
<1> HIDE DEF q
<1>4. ~(q.opt.again /\ q.stray) => Sole(q)
  BY <1>1, <1>2 DEF Sole
<1>5. SocketOK(q)
  BY <1>1, <1>2, <1>4 DEF SocketOK, DialOK
<1>6. ~twice /\ ~q.stray /\ (Leaving(s) \/ ~Held(s)) => Dead(q)
  BY <1>1, <1>2
<1>7. Logic \in Threads
  BY DEF Threads
<1> QED
  BY <1>1, <1>2, <1>3, <1>5, <1>6, <1>7, DialStep

\* A retry dials again.
LEMMA RetryStep ==
    ASSUME LinksInv, NEW s \in Sockets, Retry(s)
    PROVE  LinksInv'
BY Redial DEF Retry, Aside

\* The session is told once more.
LEMMA TellFacts ==
    ASSUME NEW r \in SocketType
    PROVE  /\ Tell(r) \in SocketType /\ Tell(r).kind = r.kind /\ Tell(r).handle = r.handle
           /\ Tell(r).st = r.st /\ Tell(r).op = r.op /\ Tell(r).conn = r.conn
           /\ Tell(r).timer = r.timer /\ Tell(r).due = r.due /\ Tell(r).told = r.told + 1
           /\ Tell(r).stray = r.stray /\ Tell(r).opt = r.opt
<1>1. r.told + 1 \in Nat
  BY DEF SocketType
<1> QED
  BY <1>1 DEF Tell, SocketType

\* A dial runs into its timeout.
LEMMA TimeoutStep ==
    ASSUME LinksInv, NEW t \in Threads, down[t] = Out, NEW s \in Sockets, Timeout(t, s)
    PROVE  LinksInv'
<1> DEFINE r == [sock[s] EXCEPT !.due = sock[s].due \ {"timeout"}]
<1>1. /\ "timeout" \in sock[s].due /\ Aside
      /\ IF r.st # 0 \/ r.opt.again
         THEN /\ sock' = [sock EXCEPT ![s] = IF r.st # 0 THEN r ELSE Dial(r)]
              /\ UNCHANGED <<pool, linkdown>>
         ELSE Close(t, s, Tell(r), FALSE)
  BY DEF Timeout, Aside
<1>2. /\ r \in SocketType /\ sock[s].kind = "dialled" /\ r.kind = "dialled"
      /\ r.handle = sock[s].handle /\ r.stray \in BOOLEAN /\ r.opt.again \in BOOLEAN
      /\ r.op > 0 => r.st # 0
      /\ ~(r.opt.again /\ r.stray) => r.timer = "off" /\ r.due = {} /\ r.st = 0 /\ r.op = 0
      /\ ~r.opt.again => r.told = 0
      /\ ~twice /\ ~r.stray => Held(s) /\ ~Leaving(s)
  BY <1>1, TakesDue
<1>3. CASE r.st # 0
  <2>1. sock' = [sock EXCEPT ![s] = r] /\ UNCHANGED <<pool, linkdown>>
    BY <1>1, <1>3
  <2> HIDE DEF r
  <2>2. SocketOK(r)
    BY <1>2, <1>3 DEF SocketOK, DialOK
  <2>3. ~twice /\ ~r.stray /\ (Leaving(s) \/ ~Held(s)) => Dead(r)
    BY <1>2
  <2> QED
    BY <1>1, <1>2, <2>1, <2>2, <2>3, DialStep
<1>4. CASE r.st = 0 /\ r.opt.again
  <2>1. sock' = [sock EXCEPT ![s] = Dial(r)] /\ UNCHANGED <<pool, linkdown>>
    BY <1>1, <1>4
  <2> QED
    BY <1>1, <2>1, Redial
<1>5. CASE r.st = 0 /\ ~r.opt.again
  <2> DEFINE k == Tell(r)
  <2>1. Close(t, s, k, FALSE)
    BY <1>1, <1>5
  <2> HIDE DEF r
  <2>2. /\ k \in SocketType /\ k.kind = r.kind /\ k.handle = r.handle /\ k.st = r.st
        /\ k.op = r.op /\ k.timer = r.timer /\ k.due = r.due /\ k.told = r.told + 1
        /\ k.stray = r.stray /\ k.opt = r.opt
    BY <1>2, TellFacts
  <2> HIDE DEF k
  <2>3. SocketOK(k)
    BY <1>2, <1>5, <2>2 DEF SocketOK, DialOK, Sole
  <2>4. /\ accept[s] = "none" /\ \A h \in Handles : ~(Waiting(h, s) /\ Pending(h, s))
    BY <1>2, SocketFacts
  <2>5. k.timer = "off" /\ k.due = {} /\ (~twice /\ ~k.stray => Held(s) /\ ~Leaving(s))
    BY <1>2, <1>5, <2>2
  <2> QED
    BY <1>1, <1>2, <2>1, <2>2, <2>3, <2>4, <2>5, AsideClose
<1> QED
  BY <1>3, <1>4, <1>5

\* What accept() makes of a socket: it reads, or there is no memory and it is closed.
LEMMA OpenFacts ==
    ASSUME NEW r \in SocketType
    PROVE  LET n == [Tell(Cancel(r)) EXCEPT !.st = 1]
               o == [Tell(Cancel(r)) EXCEPT !.st = 1, !.op = r.op + 1]
           IN  /\ n \in SocketType /\ o \in SocketType
               /\ \A k \in {n, o} :
                     /\ k.kind = r.kind /\ k.handle = r.handle /\ k.st = 1 /\ k.conn = r.conn
                     /\ k.timer = "off" /\ k.told = r.told + 1 /\ k.opt = r.opt
                     /\ k.stray = (r.stray \/ r.timer = "retry")
                     /\ k.due = IF r.timer = "retry" THEN r.due \cup {"retry"} ELSE r.due
               /\ n.op = r.op /\ o.op = r.op + 1
<1> DEFINE c == Cancel(r)
           l == Tell(c)
           n == [l EXCEPT !.st = 1]
           o == [n EXCEPT !.op = r.op + 1]
<1>1. /\ c \in SocketType /\ c.kind = r.kind /\ c.handle = r.handle /\ c.op = r.op
      /\ c.conn = r.conn /\ c.told = r.told /\ c.opt = r.opt /\ c.timer = "off"
      /\ c.stray = (r.stray \/ r.timer = "retry")
      /\ c.due = IF r.timer = "retry" THEN r.due \cup {"retry"} ELSE r.due
  BY CancelFacts
<1> HIDE DEF c
<1>2. /\ l \in SocketType /\ l.kind = c.kind /\ l.handle = c.handle /\ l.op = c.op
      /\ l.conn = c.conn /\ l.told = c.told + 1 /\ l.opt = c.opt /\ l.timer = c.timer
      /\ l.stray = c.stray /\ l.due = c.due
  BY <1>1, TellFacts
<1> HIDE DEF l
<1>3. /\ n \in SocketType /\ n.kind = l.kind /\ n.handle = l.handle /\ n.op = l.op /\ n.st = 1
      /\ n.conn = l.conn /\ n.told = l.told /\ n.opt = l.opt /\ n.timer = l.timer
      /\ n.stray = l.stray /\ n.due = l.due
  BY <1>2 DEF SocketType
<1>4. r.op + 1 \in Nat
  BY DEF SocketType
<1> HIDE DEF n
<1>5. /\ o \in SocketType /\ o.kind = n.kind /\ o.handle = n.handle /\ o.op = r.op + 1
      /\ o.st = n.st /\ o.conn = n.conn /\ o.told = n.told /\ o.opt = n.opt
      /\ o.timer = n.timer /\ o.stray = n.stray /\ o.due = n.due
  BY <1>3, <1>4 DEF SocketType
<1> HIDE DEF o
<1> QED
  BY <1>1, <1>2, <1>3, <1>5 DEF c, l, n, o

\* What a completion finds that comes in time.
LEMMA InTime ==
    ASSUME LinksInv, NEW s \in Sockets, sock[s].conn > 0, ~Late(sock[s])
    PROVE  LET r == [sock[s] EXCEPT !.conn = sock[s].conn - 1]
           IN  /\ r \in SocketType /\ sock[s].kind = "dialled" /\ r.kind = "dialled"
               /\ r.handle = sock[s].handle /\ r.st = sock[s].st /\ r.op = sock[s].op
               /\ r.timer = sock[s].timer /\ r.due = sock[s].due
               /\ r.told = sock[s].told /\ r.stray = sock[s].stray /\ r.opt = sock[s].opt
               /\ r.op \in Nat
               /\ r.op > 0 => r.st # 0
               /\ r.opt.again \in BOOLEAN /\ r.stray \in BOOLEAN
               /\ r.timer \in {"timeout", "retry"}
               /\ ~(r.opt.again /\ r.stray) => r.due = {} /\ r.st = 0 /\ r.op = 0
               /\ ~r.opt.again => r.timer = "timeout" /\ r.told = 0
               /\ ~twice /\ ~r.stray => Held(s) /\ ~Leaving(s)
<1> DEFINE r == [sock[s] EXCEPT !.conn = sock[s].conn - 1]
<1>1. /\ sock[s] \in SocketType /\ SocketOK(sock[s]) /\ sock[s].kind = "dialled"
      /\ DialOK(sock[s]) /\ sock[s].timer \in {"timeout", "retry"}
      /\ sock[s].op \in Nat /\ sock[s].conn - 1 \in Nat
  BY SocketFacts DEF SocketOK, NoDial, Late
<1>2. /\ r \in SocketType /\ r.kind = sock[s].kind /\ r.handle = sock[s].handle
      /\ r.st = sock[s].st /\ r.op = sock[s].op
      /\ r.timer = sock[s].timer /\ r.due = sock[s].due
      /\ r.told = sock[s].told /\ r.stray = sock[s].stray /\ r.opt = sock[s].opt
      /\ r.opt.again \in BOOLEAN /\ r.stray \in BOOLEAN
  BY <1>1 DEF SocketType
<1> HIDE DEF r
<1>3. r.op > 0 => r.st # 0
  BY <1>1, <1>2 DEF SocketOK
<1>4. ~(r.opt.again /\ r.stray) => r.due = {} /\ r.st = 0 /\ r.op = 0
  BY <1>1, <1>2, <1>3 DEF DialOK, Sole
<1>5. ~r.opt.again => r.timer = "timeout" /\ r.told = 0
  BY <1>1, <1>2 DEF DialOK
<1>6. ~twice /\ ~r.stray => Held(s) /\ ~Leaving(s)
  BY <1>1, <1>2, SocketFacts DEF Dead
<1> QED
  BY <1>1, <1>2, <1>3, <1>4, <1>5, <1>6 DEF r

\* A completion that comes in time opens the connection.
LEMMA ConnectOkStep ==
    ASSUME LinksInv, NEW t \in Threads, down[t] = Out, NEW s \in Sockets, ConnectOk(t, s)
    PROVE  LinksInv'
<1> DEFINE r == [sock[s] EXCEPT !.conn = sock[s].conn - 1]
           n == [Tell(Cancel(r)) EXCEPT !.st = 1]
           o == [Tell(Cancel(r)) EXCEPT !.st = 1, !.op = r.op + 1]
<1>1. sock[s].conn > 0 /\ ~Late(sock[s]) /\ Accept(t, s, r) /\ Aside
  BY DEF ConnectOk, Aside
<1>2. /\ r \in SocketType /\ sock[s].kind = "dialled" /\ r.kind = "dialled"
      /\ r.handle = sock[s].handle /\ r.op \in Nat
      /\ r.opt.again \in BOOLEAN /\ r.stray \in BOOLEAN /\ r.timer \in {"timeout", "retry"}
      /\ ~(r.opt.again /\ r.stray) => r.due = {} /\ r.st = 0 /\ r.op = 0
      /\ ~r.opt.again => r.timer = "timeout" /\ r.told = 0
      /\ ~twice /\ ~r.stray => Held(s) /\ ~Leaving(s)
  BY <1>1, InTime
<1>3. \/ sock' = [sock EXCEPT ![s] = o] /\ UNCHANGED <<pool, linkdown>>
      \/ Close(t, s, n, FALSE)
  BY <1>1 DEF Accept
<1> HIDE DEF r
<1>4. /\ n \in SocketType /\ o \in SocketType
      /\ \A k \in {n, o} :
            /\ k.kind = r.kind /\ k.handle = r.handle /\ k.st = 1 /\ k.conn = r.conn
            /\ k.timer = "off" /\ k.told = r.told + 1 /\ k.opt = r.opt
            /\ k.stray = (r.stray \/ r.timer = "retry")
            /\ k.due = IF r.timer = "retry" THEN r.due \cup {"retry"} ELSE r.due
  BY <1>2, OpenFacts
<1> HIDE DEF n, o
<1>5. ASSUME NEW k \in {n, o} PROVE SocketOK(k)
  <2>1. /\ k.kind = r.kind /\ k.st = 1 /\ k.timer = "off" /\ k.told = r.told + 1
        /\ k.opt = r.opt /\ k.stray = (r.stray \/ r.timer = "retry")
        /\ k.due = IF r.timer = "retry" THEN r.due \cup {"retry"} ELSE r.due
    BY <1>4
  <2>2. ~(k.opt.again /\ k.stray) => Sole(k)
    BY <1>2, <2>1 DEF Sole
  <2> QED
    BY <1>2, <2>1, <2>2 DEF SocketOK, DialOK
<1>6. accept[s] = "none" /\ \A h \in Handles : ~(Waiting(h, s) /\ Pending(h, s))
  BY <1>2, SocketFacts
<1>7. CASE sock' = [sock EXCEPT ![s] = o] /\ UNCHANGED <<pool, linkdown>>
  <2>1. ~twice /\ ~o.stray /\ (Leaving(s) \/ ~Held(s)) => Dead(o)
    BY <1>2, <1>4
  <2> QED
    BY <1>1, <1>2, <1>4, <1>5, <1>7, <2>1, DialStep
<1>8. CASE Close(t, s, n, FALSE)
  <2>1. ~twice /\ ~n.stray => Held(s) /\ ~Leaving(s)
    BY <1>2, <1>4
  <2>2. /\ n.kind = sock[s].kind /\ n.handle = sock[s].handle /\ n.kind = "dialled" /\ n.st = 1
        /\ n \in SocketType /\ SocketOK(n)
    BY <1>2, <1>4, <1>5
  <2>3. ~twice => accept[s] # "waits"
    BY <1>6
  <2>4. n.op = 0 /\ ~n.stray /\ n.st = 0 => n.timer = "off" /\ n.due = {}
    BY <2>2
  <2> QED
    BY <1>1, <1>6, <1>8, <2>1, <2>2, <2>3, <2>4, AsideClose
<1> QED
  BY <1>3, <1>7, <1>8

\* A dial fails: it waits to be repeated, or is over.
LEMMA ConnectErrorStep ==
    ASSUME LinksInv, NEW t \in Threads, down[t] = Out, NEW s \in Sockets, ConnectError(t, s)
    PROVE  LinksInv'
<1> DEFINE c == Cancel(sock[s])
           d == [c EXCEPT !.conn = sock[s].conn - 1]
           k == Tell(d)
           w == [k EXCEPT !.timer = "retry"]
           r == [sock[s] EXCEPT !.conn = sock[s].conn - 1]
<1>1. /\ sock[s].conn > 0 /\ ~Late(sock[s]) /\ Aside
      /\ IF k.opt.again THEN sock' = [sock EXCEPT ![s] = w] /\ UNCHANGED <<pool, linkdown>>
                        ELSE Close(t, s, k, FALSE)
  BY DEF ConnectError, Aside
<1>2. /\ sock[s] \in SocketType /\ sock[s].kind = "dialled" /\ sock[s].conn - 1 \in Nat
      /\ sock[s].op \in Nat
      /\ sock[s].op > 0 => sock[s].st # 0
      /\ sock[s].opt.again \in BOOLEAN /\ sock[s].stray \in BOOLEAN
      /\ sock[s].timer \in {"timeout", "retry"}
      /\ ~(sock[s].opt.again /\ sock[s].stray) =>
            sock[s].due = {} /\ sock[s].st = 0 /\ sock[s].op = 0
      /\ ~sock[s].opt.again => sock[s].timer = "timeout" /\ sock[s].told = 0
      /\ ~twice /\ ~sock[s].stray => Held(s) /\ ~Leaving(s)
  <2>1. sock[s] \in SocketType /\ sock[s].conn - 1 \in Nat
    BY <1>1, SocketFacts
  <2>2. /\ sock[s].kind = "dialled" /\ r.st = sock[s].st /\ r.op = sock[s].op
        /\ r.timer = sock[s].timer /\ r.due = sock[s].due
        /\ r.told = sock[s].told /\ r.stray = sock[s].stray /\ r.opt = sock[s].opt
        /\ r.op \in Nat
        /\ r.op > 0 => r.st # 0
        /\ r.opt.again \in BOOLEAN /\ r.stray \in BOOLEAN
        /\ r.timer \in {"timeout", "retry"}
        /\ ~(r.opt.again /\ r.stray) => r.due = {} /\ r.st = 0 /\ r.op = 0
        /\ ~r.opt.again => r.timer = "timeout" /\ r.told = 0
        /\ ~twice /\ ~r.stray => Held(s) /\ ~Leaving(s)
    BY <1>1, InTime
  <2> HIDE DEF r
  <2> QED
    BY <2>1, <2>2
<1>3. /\ c \in SocketType /\ c.kind = sock[s].kind /\ c.handle = sock[s].handle
      /\ c.st = sock[s].st /\ c.op = sock[s].op /\ c.told = sock[s].told
      /\ c.opt = sock[s].opt /\ c.timer = "off"
      /\ c.stray = (sock[s].stray \/ sock[s].timer = "retry")
      /\ c.due = IF sock[s].timer = "retry" THEN sock[s].due \cup {"retry"} ELSE sock[s].due
  BY <1>2, CancelFacts
<1> HIDE DEF c
<1>4. /\ d \in SocketType /\ d.kind = c.kind /\ d.handle = c.handle /\ d.st = c.st /\ d.op = c.op
      /\ d.told = c.told /\ d.opt = c.opt /\ d.timer = c.timer /\ d.stray = c.stray /\ d.due = c.due
  BY <1>2, <1>3 DEF SocketType
<1> HIDE DEF d
<1>5. /\ k \in SocketType /\ k.kind = d.kind /\ k.handle = d.handle /\ k.st = d.st /\ k.op = d.op
      /\ k.told = d.told + 1 /\ k.opt = d.opt /\ k.timer = d.timer /\ k.stray = d.stray /\ k.due = d.due
  BY <1>4, TellFacts
<1> HIDE DEF k
<1>6. /\ w \in SocketType /\ w.kind = k.kind /\ w.handle = k.handle /\ w.st = k.st /\ w.op = k.op
      /\ w.told = k.told /\ w.opt = k.opt /\ w.timer = "retry" /\ w.stray = k.stray /\ w.due = k.due
  BY <1>5 DEF SocketType
<1> HIDE DEF w
<1>7. CASE k.opt.again
  <2>4. /\ w.st = sock[s].st /\ w.opt = sock[s].opt
        /\ w.stray = (sock[s].stray \/ sock[s].timer = "retry")
        /\ w.due = IF sock[s].timer = "retry" THEN sock[s].due \cup {"retry"} ELSE sock[s].due
    BY <1>3, <1>4, <1>5, <1>6
  <2>1. ~(w.opt.again /\ w.stray) => Sole(w)
    BY <1>2, <1>6, <2>4 DEF Sole
  <2>2. SocketOK(w)
    BY <1>2, <1>3, <1>4, <1>5, <1>6, <1>7, <2>1 DEF SocketOK, DialOK
  <2>3. ~twice /\ ~w.stray /\ (Leaving(s) \/ ~Held(s)) => Dead(w)
    BY <1>2, <1>3, <1>4, <1>5, <1>6
  <2> QED
    BY <1>1, <1>2, <1>3, <1>4, <1>5, <1>6, <1>7, <2>2, <2>3, DialStep
<1>8. CASE ~k.opt.again
  <2>1. SocketOK(k) /\ k.timer = "off" /\ k.due = {}
    BY <1>2, <1>3, <1>4, <1>5, <1>8 DEF SocketOK, DialOK, Sole
  <2>2. ~twice /\ ~k.stray => Held(s) /\ ~Leaving(s)
    BY <1>2, <1>3, <1>4, <1>5
  <2>3. accept[s] = "none" /\ \A h \in Handles : ~(Waiting(h, s) /\ Pending(h, s))
    BY <1>2, SocketFacts
  <2>4. k.kind = sock[s].kind /\ k.handle = sock[s].handle /\ k.kind = "dialled"
    BY <1>2, <1>3, <1>4, <1>5
  <2> QED
    BY <1>1, <1>5, <1>8, <2>1, <2>2, <2>3, <2>4, AsideClose
<1> QED
  BY <1>7, <1>8

-----------------------------------------------------------------------------
(* The server                                                              *)

\* A peer that is refused: its socket is closed.
LEMMA AcceptRefusedStep ==
    ASSUME LinksInv, NEW t \in Threads, down[t] = Out, NEW s \in Sockets, AcceptRefused(t, s)
    PROVE  LinksInv'
<1> DEFINE r == [sock[s] EXCEPT !.open = TRUE]
<1>1. /\ accept[s] = "waits" /\ Close(t, s, r, FALSE) /\ accept' = [accept EXCEPT ![s] = "post"]
      /\ UNCHANGED <<status, count, failed, events, logic, want, sweep>>
  BY DEF AcceptRefused
<1>2. /\ sock[s] \in SocketType /\ SocketOK(sock[s]) /\ sock[s].kind = "server"
      /\ \A h \in Handles : ~Pending(h, s)
      /\ ~twice /\ ~sock[s].stray => Held(s) /\ ~Leaving(s)
  BY <1>1, SocketFacts DEF LinksInv, AcceptInv
<1>3. /\ r \in SocketType /\ r.kind = sock[s].kind /\ r.handle = sock[s].handle
      /\ r.st = sock[s].st /\ r.op = sock[s].op /\ r.conn = sock[s].conn
      /\ r.timer = sock[s].timer /\ r.due = sock[s].due /\ r.told = sock[s].told
      /\ r.stray = sock[s].stray /\ r.opt = sock[s].opt
  BY <1>2 DEF SocketType
<1> HIDE DEF r
<1>4. SocketOK(r) /\ r.timer = "off" /\ r.due = {}
  BY <1>2, <1>3 DEF SocketOK, NoDial
<1>5. Fewer /\ sweep' \subseteq Handles
  BY <1>1 DEF Fewer, LinksInv, Types
<1>6. \A h \in Handles : Looked(h)' => Looked(h)
  BY <1>1 DEF Looked
<1>7. \A h \in Handles : ~(Pending(h, s)')
  BY <1>1, <1>2 DEF Pending
<1>8. UNCHANGED <<status, count, failed, logic, want>>
  BY <1>1
<1>9. ~twice /\ ~r.stray => (Held(s) /\ ~Leaving(s)) \/ Dead(r)
  BY <1>2, <1>3
<1> QED
  BY <1>1, <1>2, <1>3, <1>4, <1>5, <1>6, <1>7, <1>8, <1>9, CloseStep

\* Steps that touch no socket and no handle.
LEMMA Quiet ==
    ASSUME LinksInv, UNCHANGED <<pool, sock, down, twice>>, crashed' \in BOOLEAN,
           status' \in {1, 2, 4, 5}, count' \in Nat, failed' \in Nat,
           accept' \in [Sockets -> {"none", "waits", "post", "link", "leave"}],
           logic' \in {"idle", "starting", "stopping", "sweeping"},
           want' \in Accepts \cup {0}, sweep' \subseteq Handles,
           AcceptInv', Fewer, \A s \in Sockets : accept'[s] = "waits" => accept[s] = "waits",
           Swept => Swept', down[Logic] = Out \/ logic' = logic,
           \A h \in Handles : Looked(h)' /\ table[h] # None /\ sock[table[h]].kind = "server" =>
              Looked(h)
    PROVE  LinksInv'
<1>1. free' = free /\ table' = table /\ sock' = sock /\ down' = down /\ twice' = twice
  BY DEF pool
<1>2. /\ events' \in Seq((Handles \cup {None}) \X Sockets)
      /\ \A h \in Handles \cup {None}, u \in Sockets : Pending(h, u)' => Pending(h, u)
      /\ \A i, j \in 1..Len(events') : events'[i][2] = events'[j][2] => i = j
  BY FewerFacts DEF LinksInv
<1>3. Types'
  BY <1>1, <1>2 DEF LinksInv, Types
<1>4. LocalInv'
  BY <1>1 DEF LinksInv, LocalInv, SocketOK, NoDial, DialOK, Sole
<1>5. BaseInv'
  BY <1>1 DEF LinksInv, BaseInv
<1>6. EventInv'
  <2>1. ASSUME NEW h \in Handles \cup {None}, NEW u \in Sockets, Pending(h, u)'
        PROVE  sock'[u].kind = "server" /\ sock'[u].handle = h /\ accept'[u] # "waits"
    <3>1. sock[u].kind = "server" /\ sock[u].handle = h /\ accept[u] # "waits"
      BY <1>2, <2>1 DEF LinksInv, EventInv
    <3> QED
      BY <1>1, <3>1
  <2> QED
    BY <1>2, <2>1 DEF EventInv
<1>7. ASSUME ~twice' PROVE PoolInv' /\ GoneInv' /\ WaitInv' /\ PendingInv' /\ SweepInv'
  <2>1. PoolInv /\ GoneInv /\ WaitInv /\ PendingInv /\ SweepInv
    BY <1>1, <1>7 DEF LinksInv
  <2>2. /\ \A h \in Handles : Returning(h)' = Returning(h)
        /\ \A t \in Threads, s \in Sockets : Clearing(t, s)' <=> Clearing(t, s)
        /\ \A s \in Sockets : (Leaving(s)' <=> Leaving(s)) /\ (Held(s)' <=> Held(s))
    BY <1>1 DEF Returning, Clearing, Leaving, Held, Up
  <2>3. PoolInv'
    BY <1>1, <2>1 DEF PoolInv, Returning, Clearing
  <2>4. GoneInv' /\ WaitInv'
    BY <1>1, <2>1, <2>2 DEF GoneInv, WaitInv, Dead
  <2>5. PendingInv'
    <3> SUFFICES ASSUME NEW h \in Handles, NEW u \in Sockets, Pending(h, u)'
                 PROVE  Waiting(h, u)' \/ (Swept' /\ NoServer(h)')
      BY DEF PendingInv
    <3>1. Waiting(h, u) \/ (Swept /\ NoServer(h))
      BY <1>2, <2>1 DEF PendingInv
    <3>2. Waiting(h, u) => Waiting(h, u)'
      BY <1>1, <2>2 DEF Waiting
    <3>3. NoServer(h) => NoServer(h)'
      <4>1. down[Logic] = Out => ~Clearing(Logic, table[h])
        BY OutFacts DEF Clearing, Out
      <4> QED
        BY <1>1, <4>1 DEF NoServer, Clearing
    <3> QED
      BY <3>1, <3>2, <3>3
  <2>6. SweepInv'
    <3> SUFFICES ASSUME NEW h \in Handles, Looked(h)', table[h] # None,
                        sock[table[h]].kind = "server"
                 PROVE  sock[table[h]].op > 0 \/ Leaving(table[h])'
      BY <1>1 DEF SweepInv, Leaving, Clearing
    <3>1. table[h] \in Sockets
      BY DEF LinksInv, Types
    <3>2. sock[table[h]].op > 0 \/ Leaving(table[h])
      BY <2>1, <3>1 DEF SweepInv
    <3> QED
      BY <1>1, <3>2 DEF Leaving, Clearing
  <2> QED
    BY <2>3, <2>4, <2>5, <2>6
<1> QED
  BY <1>3, <1>4, <1>5, <1>6, <1>7 DEF LinksInv

\* A socket of the server that CloseAll() finds is closed.
LEMMA StopSweepStep ==
    ASSUME LinksInv, down[Logic] = Out, StopSweep
    PROVE  LinksInv'
<1>1. PICK h \in sweep :
         /\ sweep' = sweep \ {h}
         /\ IF table[h] # None /\ sock[table[h]].kind = "server"
            THEN Close(Logic, table[h], sock[table[h]], FALSE)
            ELSE UNCHANGED <<pool, sock, linkdown>>
  BY DEF StopSweep
<1>2. /\ logic = "sweeping" /\ Swept /\ UNCHANGED <<status, count, accept, failed, events, logic, want>>
  BY DEF StopSweep, Swept, server
<1>3. /\ Types /\ h \in Handles /\ sweep' \subseteq Handles /\ Fewer /\ Logic \in Threads
      /\ \A s \in Sockets : accept[s] = "none"
  BY <1>1, <1>2 DEF LinksInv, Types, AcceptInv, Fewer, Threads
<1>4. CASE table[h] # None /\ sock[table[h]].kind = "server"
  <2>9. PICK s \in Sockets : s = table[h]
    BY <1>3, <1>4 DEF Types
  <2>1. sock[s].kind = "server"
    BY <1>4, <2>9
  <2>2. Close(Logic, s, sock[s], FALSE)
    BY <1>1, <1>4, <2>9
  <2> DEFINE a == accept[s]
  <2>3. accept' = [accept EXCEPT ![s] = a] /\ a = "none" /\ a = accept[s]
    BY <1>2, <1>3, <2>9 DEF Types
  <2>4. \A g \in Handles : table[g] # s /\ Looked(g)' => Looked(g)
    BY <1>1, <1>2, <2>9 DEF Looked
  <2> HIDE DEF a
  <2>5. /\ sock[s] \in SocketType /\ SocketOK(sock[s])
        /\ ~twice /\ ~sock[s].stray => (Held(s) /\ ~Leaving(s)) \/ Dead(sock[s])
    BY <2>1, SocketFacts
  <2>6. sock[s].timer = "off" /\ sock[s].due = {}
    BY <2>1, <2>5 DEF SocketOK, NoDial
  <2>7. \A g \in Handles : ~twice /\ Waiting(g, s) /\ Pending(g, s)' =>
           logic = "sweeping" /\ Logic = Logic /\ sock[s].op = 0
    BY <1>2 DEF Waiting
  <2>8. UNCHANGED <<status, count, failed, logic, want>>
    BY <1>2
  <2> QED
    BY <1>3, <2>1, <2>2, <2>3, <2>4, <2>5, <2>6, <2>7, <2>8, CloseStep
<1>5. CASE ~(table[h] # None /\ sock[table[h]].kind = "server")
  <2>1. UNCHANGED <<pool, sock, down, twice>> /\ crashed' = crashed
    BY <1>1, <1>5 DEF linkdown
  <2>2. AcceptInv'
    BY <1>2, <2>1 DEF LinksInv, AcceptInv, CountExact, Swept
  <2>3. \A g \in Handles : Looked(g)' /\ table[g] # None /\ sock[table[g]].kind = "server" =>
           Looked(g)
    BY <1>1, <1>2, <1>5 DEF Looked
  <2>4. Swept' /\ (\A s \in Sockets : accept'[s] = "waits" => accept[s] = "waits")
    BY <1>2 DEF Swept
  <2>5. /\ crashed' \in BOOLEAN /\ status' \in {1, 2, 4, 5} /\ count' \in Nat /\ failed' \in Nat
        /\ accept' \in [Sockets -> {"none", "waits", "post", "link", "leave"}]
        /\ logic' \in {"idle", "starting", "stopping", "sweeping"} /\ want' \in Accepts \cup {0}
    BY <1>2, <1>3, <2>1 DEF Types
  <2> QED
    BY <1>3, <2>1, <2>2, <2>3, <2>4, <2>5, Quiet
<1> QED
  BY <1>4, <1>5

\* The events go on, and nothing else changes but that the process may be lost.
LEMMA EventDropped ==
    ASSUME LinksInv, Fewer, UNCHANGED <<pool, sock, down, twice, server, logic, want, sweep>>,
           crashed' \in BOOLEAN
    PROVE  LinksInv'
<1>1. /\ status' = status /\ count' = count /\ failed' = failed /\ accept' = accept
      /\ logic' = logic /\ want' = want /\ sweep' = sweep /\ sock' = sock
  BY DEF server
<1>2. /\ status' \in {1, 2, 4, 5} /\ count' \in Nat /\ failed' \in Nat
      /\ accept' \in [Sockets -> {"none", "waits", "post", "link", "leave"}]
      /\ logic' \in {"idle", "starting", "stopping", "sweeping"} /\ want' \in Accepts \cup {0}
      /\ sweep' \subseteq Handles
  BY <1>1 DEF LinksInv, Types
<1>3. AcceptInv'
  BY <1>1 DEF LinksInv, AcceptInv, CountExact, Swept
<1>4. /\ Swept => Swept'
      /\ \A h \in Handles : Looked(h)' => Looked(h)
      /\ \A s \in Sockets : accept'[s] = "waits" => accept[s] = "waits"
  BY <1>1 DEF Swept, Looked
<1> QED
  BY <1>1, <1>2, <1>3, <1>4, Quiet

\* The socket that EVENT_PENDING finds is closed or accepted.
LEMMA ExecPendingStep ==
    ASSUME LinksInv, down[Logic] = Out, ExecPending
    PROVE  LinksInv'
<1>1. /\ logic = "idle" /\ events # <<>> /\ events' = Tail(events) /\ Fewer
      /\ UNCHANGED <<status, count, accept, failed, logic, want, sweep>>
  BY DEF ExecPending, server, Fewer
<1>2. /\ Types /\ AcceptInv /\ BaseInv /\ EventInv /\ Logic \in Threads
      /\ ~twice => PendingInv
  BY DEF LinksInv, Threads
<1>3. PICK h \in Handles \cup {None}, x \in Sockets :
         /\ Head(events) = <<h, x>> /\ Pending(h, x)
         /\ \A g \in Handles \cup {None} : ~(Pending(g, x)')
  BY <1>1, <1>2, FewerFacts
<1>4. Head(events)[1] = h
  BY <1>3
<1> DEFINE found == IF h = None THEN None ELSE table[h]
<1>9. PICK s : s = found
  OBVIOUS
<1>5. IF s = None THEN UNCHANGED <<pool, sock, linkdown>>
      ELSE IF sock[s].kind # "server"
      THEN crashed' = TRUE /\ UNCHANGED <<pool, sock, down, twice>>
      ELSE Close(Logic, s, sock[s], FALSE) \/ Accept(Logic, s, sock[s])
  BY <1>4, <1>9 DEF ExecPending
<1>6. CASE s = None
  <2>1. UNCHANGED <<pool, sock, down, twice>> /\ crashed' \in BOOLEAN
    BY <1>2, <1>5, <1>6 DEF linkdown, Types
  <2> QED
    BY <1>1, <2>1, EventDropped DEF server
<1>7. CASE s # None /\ sock[s].kind # "server"
  <2>1. UNCHANGED <<pool, sock, down, twice>> /\ crashed' \in BOOLEAN
    BY <1>5, <1>7
  <2> QED
    BY <1>1, <2>1, EventDropped DEF server
<1>8. CASE s # None /\ sock[s].kind = "server"
  <2>1. h \in Handles /\ s = table[h] /\ s \in Sockets
    BY <1>2, <1>8, <1>9, NoneFacts DEF Types
  <2>2. Close(Logic, s, sock[s], FALSE) \/ Accept(Logic, s, sock[s])
    BY <1>5, <1>8
  <2> DEFINE a == accept[s]
  <2>3. /\ accept' = [accept EXCEPT ![s] = a] /\ a \in {"none", "waits", "post", "link", "leave"}
    BY <1>1, <1>2, <2>1 DEF Types
  <2>4. ASSUME ~twice
        PROVE  a # "waits" /\ Held(s) /\ ~Leaving(s) /\ \A g \in Handles : ~(Pending(g, s)')
    <3>1. Waiting(h, x) \/ NoServer(h)
      BY <1>2, <1>3, <2>1, <2>4 DEF PendingInv
    <3>2. Waiting(h, x) /\ x = s
      BY <1>1, <1>8, <2>1, <3>1 DEF NoServer, Waiting
    <3>3. sock[s].handle = h
      BY <1>2, <1>8, <2>1 DEF BaseInv
    <3>4. a # "waits" /\ \A g \in Handles : ~(Pending(g, s)')
      BY <1>2, <1>3, <3>2 DEF EventInv
    <3>5. Held(s) /\ ~Leaving(s)
      BY <2>1, <3>2, <3>3 DEF Held, Up, Waiting
    <3> QED
      BY <3>4, <3>5
  <2>5. sock[s] \in SocketType /\ SocketOK(sock[s]) /\ NoDial(sock[s]) /\ sock[s].op \in Nat
    BY <1>8, <2>1, SocketFacts DEF SocketOK
  <2>6. sweep' \subseteq Handles /\ \A g \in Handles : Looked(g)' => Looked(g)
    BY <1>1, <1>2 DEF Looked, Types
  <2>7. UNCHANGED <<status, count, failed, logic, want>>
    BY <1>1
  <2> HIDE DEF a
  <2>8. ASSUME NEW r \in SocketType, r.kind = "server", r.handle = sock[s].handle, SocketOK(r),
               Close(Logic, s, r, FALSE), a = accept[s]
        PROVE  LinksInv'
    <3>1. r.timer = "off" /\ r.due = {}
      BY <2>8 DEF SocketOK, NoDial
    <3>2. ~twice => a # "waits"
      BY <2>4
    <3>3. ~twice /\ ~r.stray => (Held(s) /\ ~Leaving(s)) \/ Dead(r)
      BY <2>4
    <3>4. \A g \in Handles : ~twice /\ Waiting(g, s) /\ Pending(g, s)' =>
             logic = "sweeping" /\ Logic = Logic /\ r.op = 0
      BY <2>4
    <3>5. /\ r.kind = sock[s].kind /\ r.kind \in {"server", "dialled"} /\ FALSE \in BOOLEAN
          /\ a = "none" <=> accept[s] = "none"
          /\ a = "waits" => accept[s] = "waits"
          /\ FALSE => r.st # 0
          /\ r.op = 0 /\ ~r.stray /\ r.st = 0 => r.timer = "off" /\ r.due = {}
      BY <1>8, <2>8, <3>1
    <3>6. Fewer /\ Logic \in Threads /\ s \in Sockets
      BY <1>1, <1>2, <2>1
    <3>7. \A g \in Handles : table[g] # s /\ Looked(g)' => Looked(g)
      BY <2>6
    <3> QED
      BY <2>3, <2>6, <2>7, <2>8, <3>2, <3>3, <3>4, <3>5, <3>6, <3>7, CloseStep
  <2>9. a = accept[s]
    BY DEF a
  <2>10. CASE Close(Logic, s, sock[s], FALSE)
    BY <1>8, <2>5, <2>8, <2>9, <2>10
  <2>11. CASE Accept(Logic, s, sock[s])
    <3> DEFINE n == [Tell(Cancel(sock[s])) EXCEPT !.st = 1]
               o == [Tell(Cancel(sock[s])) EXCEPT !.st = 1, !.op = sock[s].op + 1]
    <3>1. \/ sock' = [sock EXCEPT ![s] = o] /\ UNCHANGED <<pool, linkdown>>
          \/ Close(Logic, s, n, FALSE)
      BY <2>11 DEF Accept
    <3>2. /\ n \in SocketType /\ o \in SocketType
          /\ \A k \in {n, o} :
                /\ k.kind = sock[s].kind /\ k.handle = sock[s].handle /\ k.st = 1
                /\ k.conn = sock[s].conn /\ k.timer = "off" /\ k.opt = sock[s].opt
                /\ k.due = IF sock[s].timer = "retry" THEN sock[s].due \cup {"retry"}
                                                      ELSE sock[s].due
          /\ n.op = sock[s].op /\ o.op = sock[s].op + 1
      BY ZenonT(60), <2>5, OpenFacts
    <3> HIDE DEF n, o
    <3>3. ASSUME NEW k \in {n, o} PROVE SocketOK(k)
      BY <1>8, <2>5, <3>2 DEF SocketOK, NoDial
    <3>4. CASE Close(Logic, s, n, FALSE)
      <4>1. n \in SocketType /\ n.kind = "server" /\ n.handle = sock[s].handle /\ SocketOK(n)
        BY <1>8, <3>2, <3>3
      <4> QED
        BY <2>8, <2>9, <3>4, <4>1
    <3>5. CASE sock' = [sock EXCEPT ![s] = o] /\ UNCHANGED <<pool, linkdown>>
      <4>1. Step(Logic, s, o) /\ SocketOK(o) /\ o \in SocketType /\ o.op > 0
        BY <1>8, <2>5, <3>2, <3>3, <3>5 DEF Step
      <4>2. (Leaving(s)' <=> Leaving(s)) /\ twice' = twice
        BY <3>5 DEF linkdown, Leaving, Clearing
      <4>3. ~twice' => a # "waits" /\ ~(Leaving(s)' \/ ~Held(s))
        BY <2>4, <4>2
      <4>4. \A g \in Handles : ~twice' /\ Waiting(g, s) /\ Pending(g, s)' => Swept /\ NoServer(g)'
        BY <2>4, <4>2
      <4> QED
        BY ZenonT(60), <1>1, <1>2, <2>1, <2>3, <2>6, <2>7, <2>9, <4>1, <4>3, <4>4, Handled
    <3> QED
      BY <3>1, <3>4, <3>5
  <2> QED
    BY <2>2, <2>10, <2>11
<1> QED
  BY <1>6, <1>7, <1>8

\* A peer that is allowed: its socket is open and waits to be accepted.
LEMMA AcceptPendingStep ==
    ASSUME LinksInv, NEW s \in Sockets, AcceptPending(s)
    PROVE  LinksInv'
<1> DEFINE m == [sock[s] EXCEPT !.st = 1]
           q == [m EXCEPT !.open = TRUE]
<1>18. PICK h : h = sock[s].handle
  OBVIOUS
<1>1. /\ accept[s] = "waits" /\ sock' = [sock EXCEPT ![s] = q] /\ events' = Append(events, <<h, s>>)
      /\ accept' = [accept EXCEPT ![s] = "post"] /\ UNCHANGED <<pool, linkdown>>
      /\ UNCHANGED <<status, count, failed, logic, want, sweep>>
  BY <1>18 DEF AcceptPending
<1>2. /\ sock[s] \in SocketType /\ SocketOK(sock[s]) /\ sock[s].kind = "server"
      /\ sock[s].op \in Nat /\ \A g \in Handles : ~Pending(g, s)
      /\ ~twice => sock[s].st = 0 /\ sock[s].told = 0 /\ Held(s) /\ ~Leaving(s)
  BY <1>1, SocketFacts DEF LinksInv, AcceptInv
<1>3. /\ m \in SocketType /\ m.kind = sock[s].kind /\ m.handle = sock[s].handle /\ m.st = 1
      /\ m.op = sock[s].op /\ m.conn = sock[s].conn /\ m.timer = sock[s].timer
      /\ m.due = sock[s].due /\ m.told = sock[s].told /\ m.stray = sock[s].stray
      /\ m.opt = sock[s].opt
  BY <1>2 DEF SocketType
<1> HIDE DEF m
<1>4. /\ q \in SocketType /\ q.kind = sock[s].kind /\ q.handle = sock[s].handle /\ q.st = 1
      /\ q.op = sock[s].op /\ q.conn = sock[s].conn /\ q.timer = sock[s].timer
      /\ q.due = sock[s].due /\ q.told = sock[s].told /\ q.stray = sock[s].stray
      /\ q.opt = sock[s].opt
  BY <1>3 DEF SocketType
<1> HIDE DEF q
<1>5. SocketOK(q)
  BY <1>2, <1>4 DEF SocketOK, NoDial
<1>6. /\ Types /\ BaseInv /\ Logic \in Threads /\ Step(Logic, s, q)
  BY <1>1, <1>2, <1>4 DEF LinksInv, Threads, Step
<1>7. /\ free' = free /\ table' = table
      /\ sock' \in [Sockets -> SocketType] /\ sock'[s] = q
      /\ \A u \in Sockets : u # s => sock'[u] = sock[u]
      /\ \A u \in Sockets : sock'[u].kind = sock[u].kind /\ sock'[u].handle = sock[u].handle
      /\ BaseInv'
  BY <1>4, <1>6, Moved
<1>8. /\ down' = down /\ twice' = twice /\ crashed' = crashed
      /\ \A u \in Sockets : Leaving(u)' <=> Leaving(u)
  BY <1>1 DEF linkdown, Leaving, Clearing
<1>9. /\ accept' \in [Sockets -> {"none", "waits", "post", "link", "leave"}] /\ accept'[s] = "post"
      /\ \A u \in Sockets : u # s => accept'[u] = accept[u]
  BY <1>1, <1>6 DEF Types
<1>10. ~Swept /\ ~Swept'
  BY <1>1 DEF LinksInv, AcceptInv, Swept
<1>11. /\ events \in Seq((Handles \cup {None}) \X Sockets) /\ Len(events) \in Nat
       /\ events' \in Seq((Handles \cup {None}) \X Sockets) /\ Len(events') = Len(events) + 1
       /\ \A i \in 1..Len(events) : events'[i] = events[i]
       /\ events'[Len(events) + 1] = <<h, s>>
  <2>1. events \in Seq((Handles \cup {None}) \X Sockets)
    BY <1>6 DEF Types
  <2>2. <<h, s>> \in (Handles \cup {None}) \X Sockets
    BY <1>2, <1>18 DEF SocketType
  <2> QED
    BY <1>1, <2>1, <2>2, AppendProperties, LenProperties
<1>12. \A g \in Handles \cup {None}, u \in Sockets :
          Pending(g, u)' => Pending(g, u) \/ (g = h /\ u = s)
  <2> SUFFICES ASSUME NEW g \in Handles \cup {None}, NEW u \in Sockets,
                      NEW i \in 1..Len(events'), events'[i] = <<g, u>>
               PROVE  Pending(g, u) \/ (g = h /\ u = s)
    BY DEF Pending
  <2>1. CASE i = Len(events) + 1
    BY <1>11, <2>1
  <2>2. CASE i # Len(events) + 1
    <3>1. i \in 1..Len(events)
      BY <1>11, <2>2
    <3> QED
      BY <1>11, <3>1 DEF Pending
  <2> QED
    BY <2>1, <2>2
<1>13. Types'
  BY <1>1, <1>6, <1>7, <1>8, <1>9, <1>11 DEF Types
<1>14. AcceptInv'
  <2>1. {u \in Sockets : accept'[u] # "none"} = {u \in Sockets : accept[u] # "none"}
    BY <1>1, <1>9
  <2>2. CountExact'
    BY <1>1, <2>1 DEF LinksInv, AcceptInv, CountExact
  <2>3. \A u \in Sockets : accept'[u] # "none" => sock'[u].kind = "server"
    BY <1>2, <1>7, <1>9 DEF LinksInv, AcceptInv
  <2> QED
    BY <1>1, <1>10, <2>2, <2>3 DEF LinksInv, AcceptInv
<1>15. LocalInv'
  <2> SUFFICES ASSUME NEW u \in Sockets PROVE SocketOK(sock'[u])
    BY DEF LocalInv, SocketOK, NoDial, DialOK, Sole
  <2> QED
    BY <1>5, <1>7 DEF LinksInv, LocalInv
<1>16. EventInv'
  <2>1. ASSUME NEW g \in Handles \cup {None}, NEW u \in Sockets, Pending(g, u)'
        PROVE  sock'[u].kind = "server" /\ sock'[u].handle = g /\ accept'[u] # "waits"
    <3>1. CASE Pending(g, u)
      <4>1. sock[u].kind = "server" /\ sock[u].handle = g /\ accept[u] # "waits"
        BY <3>1 DEF LinksInv, EventInv
      <4> QED
        BY <1>7, <1>9, <4>1
    <3>2. CASE g = h /\ u = s
      BY <1>2, <1>7, <1>9, <1>18, <3>2
    <3> QED
      BY <1>12, <2>1, <3>1, <3>2
  <2>2. ASSUME NEW i \in 1..Len(events), events[i][2] = s PROVE FALSE
    <3>1. PICK g \in Handles \cup {None}, u \in Sockets : events[i] = <<g, u>>
      BY <1>11, ElementOfSeq
    <3>2. Pending(g, s)
      BY <2>2, <3>1 DEF Pending
    <3> QED
      BY <1>1, <3>2 DEF LinksInv, EventInv
  <2>3. ASSUME NEW i \in 1..Len(events'), NEW j \in 1..Len(events'), events'[i][2] = events'[j][2]
        PROVE  i = j
    <3>1. \A k \in 1..Len(events') : k \in 1..Len(events) \/ k = Len(events) + 1
      BY <1>11
    <3>2. CASE i \in 1..Len(events) /\ j \in 1..Len(events)
      BY <1>11, <2>3, <3>2 DEF LinksInv, EventInv
    <3>3. events'[Len(events) + 1][2] = s
      BY <1>11
    <3>4. CASE i = Len(events) + 1 /\ j \in 1..Len(events)
      BY <1>11, <2>2, <2>3, <3>3, <3>4
    <3>5. CASE j = Len(events) + 1 /\ i \in 1..Len(events)
      BY <1>11, <2>2, <2>3, <3>3, <3>5
    <3> QED
      BY <3>1, <3>2, <3>4, <3>5
  <2> QED
    BY <2>1, <2>3 DEF EventInv
<1>17. ASSUME ~twice' PROVE PoolInv' /\ GoneInv' /\ WaitInv' /\ PendingInv' /\ SweepInv'
  <2>1. PoolInv /\ GoneInv /\ WaitInv /\ PendingInv /\ ~twice
    BY <1>8, <1>17 DEF LinksInv
  <2>2. PoolInv'
    BY <1>4, <1>6, <1>17, <2>1, MovedPool
  <2>3. GoneInv'
    BY <1>2, <1>4, <1>6, <1>8, <1>9, <2>1, GoneStep
  <2>4. WaitInv'
    BY <1>7, <1>9, <2>1 DEF WaitInv
  <2>5. PendingInv'
    <3> SUFFICES ASSUME NEW g \in Handles, NEW u \in Sockets, Pending(g, u)'
                 PROVE  Waiting(g, u)'
      BY DEF PendingInv
    <3>1. CASE Pending(g, u)
      <4>1. Waiting(g, u) /\ u # s
        BY <1>2, <1>10, <2>1, <3>1 DEF PendingInv
      <4> QED
        BY <1>7, <1>8, <4>1 DEF Waiting
    <3>2. CASE g = h /\ u = s
      <4>1. table[h] = s
        BY <1>2, <1>18, <2>1, <3>2, NoneFacts DEF Held, Up
      <4>2. sock[s].op = 0
        BY <1>2, <2>1 DEF SocketOK
      <4>3. ~(Leaving(s)') /\ sock'[s] = q /\ q.st = 1 /\ q.op = 0 /\ q.told = 0
        BY <1>2, <1>4, <1>7, <1>8, <2>1, <4>2
      <4>4. table' = table
        BY <1>7
      <4> QED
        BY <3>2, <4>1, <4>3, <4>4 DEF Waiting
    <3> QED
      BY <1>12, <3>1, <3>2
  <2>6. SweepInv'
    BY <1>10 DEF SweepInv, Swept, Looked
  <2> QED
    BY <2>2, <2>3, <2>4, <2>5, <2>6
<1> QED
  BY <1>7, <1>13, <1>14, <1>15, <1>16, <1>17 DEF LinksInv

-----------------------------------------------------------------------------
(* Steps of the server                                                     *)

\* What the count counts.
Accepting == {s \in Sockets : accept[s] # "none"}

\* Sets of sockets can be counted.
LEMMA Counted ==
    ASSUME NEW S, S \subseteq Sockets
    PROVE  /\ IsFiniteSet(S) /\ Cardinality(S) \in Nat
           /\ \A x : Cardinality(S \cup {x}) = IF x \in S THEN Cardinality(S) ELSE Cardinality(S) + 1
           /\ \A x : Cardinality(S \ {x}) = IF x \in S THEN Cardinality(S) - 1 ELSE Cardinality(S)
<1>1. IsFiniteSet(S)
  BY FS_Subset, LinksAssumption
<1>2. Cardinality(S) \in Nat
  BY <1>1, FS_CardinalityType
<1>3. \A x : Cardinality(S \cup {x}) = IF x \in S THEN Cardinality(S) ELSE Cardinality(S) + 1
  BY <1>1, FS_AddElement
<1>4. \A x : Cardinality(S \ {x}) = IF x \in S THEN Cardinality(S) - 1 ELSE Cardinality(S)
  BY <1>1, FS_RemoveElement
<1> QED
  BY <1>1, <1>2, <1>3, <1>4

\* One handler of an accept goes on, or is through.
LEMMA AcceptStep ==
    ASSUME LinksInv, NEW s \in Sockets, accept[s] # "none",
           NEW v \in {"none", "post", "link", "leave"},
           accept' = [accept EXCEPT ![s] = v],
           UNCHANGED <<pool, sock, status, events, logic, want, sweep, linkdown>>,
           failed' \in Nat,
           count' = IF v = "none" THEN count - 1 ELSE count
    PROVE  LinksInv'
<1>1. /\ sock' = sock /\ status' = status /\ events' = events /\ logic' = logic
      /\ want' = want /\ sweep' = sweep /\ crashed' = crashed
      /\ UNCHANGED <<pool, sock, down, twice>>
  BY DEF linkdown
<1>2. accept \in [Sockets -> {"none", "waits", "post", "link", "leave"}] /\ Types
  BY DEF LinksInv, Types
<1>3. /\ accept' \in [Sockets -> {"none", "waits", "post", "link", "leave"}]
      /\ accept'[s] = v /\ \A t \in Sockets : t # s => accept'[t] = accept[t]
  BY <1>2
<1>4. count' = Cardinality(Accepting)' /\ count' \in Nat
  <2>1. s \in Accepting /\ Accepting \subseteq Sockets /\ Accepting' \subseteq Sockets
    BY DEF Accepting
  <2>2. count = Cardinality(Accepting)
    BY DEF LinksInv, AcceptInv, CountExact, Accepting
  <2>3. Cardinality(Accepting)' \in Nat
    BY <2>1, Counted
  <2>4. CASE v = "none"
    <3>1. Accepting' = Accepting \ {s}
      BY <1>3, <2>4 DEF Accepting
    <3> QED
      BY <2>1, <2>2, <2>3, <2>4, <3>1, Counted
  <2>5. CASE v # "none"
    <3>1. Accepting' = Accepting
      BY <1>3, <2>5 DEF Accepting
    <3> QED
      BY <2>2, <2>3, <2>5, <3>1
  <2> QED
    BY <2>4, <2>5
<1>5. ~Swept /\ ~Swept'
  BY <1>1 DEF LinksInv, AcceptInv, Swept
<1>6. AcceptInv'
  <2>1. \A t \in Sockets : accept'[t] # "none" => sock'[t].kind = "server"
    BY <1>1, <1>3 DEF LinksInv, AcceptInv
  <2>2. CountExact'
    BY <1>4 DEF CountExact, Accepting
  <2> QED
    BY <1>1, <1>5, <2>1, <2>2 DEF LinksInv, AcceptInv
<1>7. /\ crashed' \in BOOLEAN /\ status' \in {1, 2, 4, 5}
      /\ logic' \in {"idle", "starting", "stopping", "sweeping"}
      /\ want' \in Accepts \cup {0} /\ sweep' \subseteq Handles
  BY <1>1, <1>2 DEF Types
<1>8. \A t \in Sockets : accept'[t] = "waits" => accept[t] = "waits"
  BY <1>3
<1>9. Fewer /\ \A h \in Handles : Looked(h)' => Looked(h)
  BY <1>1 DEF Fewer, Looked
<1> QED
  BY <1>1, <1>3, <1>4, <1>5, <1>6, <1>7, <1>8, <1>9, Quiet

\* The end of an accept that has no successor keeps the invariant.
LEMMA HandlerSteps ==
    ASSUME LinksInv, NEW s \in Sockets, AcceptFailed(s) \/ PostCheck(s) \/ Leave(s)
    PROVE  LinksInv'
<1>1. failed \in Nat
  BY DEF LinksInv, Types
<1>2. CASE AcceptFailed(s)
  <2>1. /\ accept[s] # "none" /\ accept' = [accept EXCEPT ![s] = "leave"] /\ failed' \in Nat
        /\ UNCHANGED <<pool, sock, status, events, logic, want, sweep, linkdown>>
        /\ count' = count
    BY <1>1, <1>2 DEF AcceptFailed
  <2> QED
    BY <2>1, AcceptStep
<1>3. CASE PostCheck(s)
  <2>1. PICK v \in {"link", "leave"} :
           /\ accept[s] # "none" /\ accept' = [accept EXCEPT ![s] = v]
           /\ UNCHANGED <<pool, sock, status, events, logic, want, sweep, linkdown>>
           /\ count' = count /\ failed' = failed
    BY <1>3 DEF PostCheck
  <2> QED
    BY <1>1, <2>1, AcceptStep
<1>4. CASE Leave(s)
  <2>1. /\ accept[s] # "none" /\ accept' = [accept EXCEPT ![s] = "none"]
        /\ UNCHANGED <<pool, sock, status, events, logic, want, sweep, linkdown>>
        /\ count' = count - 1 /\ failed' = failed
    BY <1>4 DEF Leave
  <2> QED
    BY <1>1, <2>1, AcceptStep
<1> QED
  BY <1>2, <1>3, <1>4

\* The logic thread goes on with the server, and touches no socket.
LEMMA ControlStep ==
    ASSUME LinksInv, down[Logic] = Out,
           UNCHANGED <<pool, sock, count, accept, failed, events, linkdown>>,
           status' \in {1, 2, 4, 5}, logic' \in {"idle", "starting", "stopping", "sweeping"},
           want' \in Accepts \cup {0}, sweep' \subseteq Handles,
           AcceptInv', \A h \in Handles : Looked(h)' => Looked(h), Swept => Swept'
    PROVE  LinksInv'
<1>1. /\ UNCHANGED <<pool, sock, down, twice>>
      /\ crashed' = crashed /\ count' = count /\ failed' = failed /\ accept' = accept /\ Fewer
  BY DEF linkdown, Fewer
<1>2. /\ crashed' \in BOOLEAN /\ count' \in Nat /\ failed' \in Nat
      /\ accept' \in [Sockets -> {"none", "waits", "post", "link", "leave"}]
      /\ \A s \in Sockets : accept'[s] = "waits" => accept[s] = "waits"
  BY <1>1 DEF LinksInv, Types
<1> QED
  BY <1>1, <1>2, Quiet

\* StartServer() begins.
LEMMA StartServerStep ==
    ASSUME LinksInv, down[Logic] = Out, StartServer
    PROVE  LinksInv'
<1>1. /\ logic = "idle" /\ status = 5 /\ status' = 1 /\ logic' = "starting"
      /\ want' \in Accepts
      /\ UNCHANGED <<pool, sock, count, accept, failed, events, sweep, linkdown>>
  BY DEF StartServer
<1>2. ~Swept
  BY <1>1 DEF Swept
<1>3. AcceptInv'
  BY <1>1 DEF LinksInv, AcceptInv, CountExact, Swept
<1>4. \A h \in Handles : Looked(h)' => Looked(h)
  BY <1>1 DEF Looked
<1>5. sweep' \subseteq Handles
  BY <1>1 DEF LinksInv, Types
<1> QED
  BY <1>1, <1>2, <1>3, <1>4, <1>5, ControlStep

\* StartServer() has posted enough.
LEMMA StartedStep ==
    ASSUME LinksInv, down[Logic] = Out, StartPost, ~(count < want)
    PROVE  LinksInv'
<1>1. /\ logic = "starting" /\ logic' = "idle" /\ want' = 0 /\ status' = status
      /\ UNCHANGED <<pool, sock, count, accept, failed, events, sweep, linkdown>>
  BY DEF StartPost
<1>2. ~Swept /\ status = 1
  BY <1>1 DEF Swept, LinksInv, AcceptInv
<1>3. AcceptInv'
  BY <1>1, <1>2 DEF LinksInv, AcceptInv, CountExact, Swept
<1>4. \A h \in Handles : Looked(h)' => Looked(h)
  BY <1>1, <1>2 DEF Looked
<1>5. sweep' \subseteq Handles
  BY <1>1 DEF LinksInv, Types
<1> QED
  BY <1>1, <1>2, <1>3, <1>4, <1>5, ControlStep

\* CloseServer() begins.
LEMMA CloseServerStep ==
    ASSUME LinksInv, down[Logic] = Out, CloseServer
    PROVE  LinksInv'
<1>1. /\ logic = "idle" /\ status = 1 /\ status' = 2 /\ logic' = "stopping"
      /\ UNCHANGED <<pool, sock, count, accept, failed, events, want, sweep, linkdown>>
  BY DEF CloseServer
<1>2. ~Swept
  BY <1>1 DEF Swept
<1>3. AcceptInv'
  BY <1>1 DEF LinksInv, AcceptInv, CountExact, Swept
<1>4. \A h \in Handles : Looked(h)' => Looked(h)
  BY <1>1 DEF Looked
<1>5. sweep' \subseteq Handles /\ want' \in Accepts \cup {0}
  BY <1>1 DEF LinksInv, Types
<1> QED
  BY <1>1, <1>2, <1>3, <1>4, <1>5, ControlStep

\* The count has come to zero: no accept is left, and CloseAll() looks at every handle.
LEMMA StopWaitedStep ==
    ASSUME LinksInv, down[Logic] = Out, StopWaited
    PROVE  LinksInv'
<1>1. /\ logic = "stopping" /\ count = 0 /\ logic' = "sweeping" /\ sweep' = Handles
      /\ UNCHANGED <<pool, sock, status, count, accept, failed, events, want, linkdown>>
  BY DEF StopWaited, server
<1>2. status = 2 /\ ~Swept
  BY <1>1 DEF LinksInv, AcceptInv, Swept
<1>3. \A s \in Sockets : accept[s] = "none"
  <2>1. Accepting \subseteq Sockets /\ Cardinality(Accepting) = 0
    BY <1>1 DEF LinksInv, AcceptInv, CountExact, Accepting
  <2>2. Accepting = {}
    BY <2>1, Counted, FS_EmptySet
  <2> QED
    BY <2>2 DEF Accepting
<1>4. AcceptInv'
  BY <1>1, <1>2, <1>3 DEF LinksInv, AcceptInv, CountExact, Swept
<1>5. \A h \in Handles : Looked(h)' => Looked(h)
  BY <1>1, <1>2 DEF Looked
<1>6. want' \in Accepts \cup {0}
  BY <1>1 DEF LinksInv, Types
<1>7. status' \in {1, 2, 4, 5}
  BY <1>1, <1>2
<1> QED
  BY <1>1, <1>2, <1>4, <1>5, <1>6, <1>7, ControlStep

\* The server is deleted.
LEMMA StopDeleteStep ==
    ASSUME LinksInv, down[Logic] = Out, StopDelete
    PROVE  LinksInv'
<1>1. /\ logic = "sweeping" /\ sweep = {} /\ status' = 4 /\ logic' = "idle"
      /\ UNCHANGED <<pool, sock, count, accept, failed, events, want, sweep, linkdown>>
  BY DEF StopDelete
<1>2. Swept /\ Swept'
  BY <1>1 DEF Swept
<1>3. AcceptInv'
  BY <1>1, <1>2 DEF LinksInv, AcceptInv, CountExact
<1>4. \A h \in Handles : Looked(h)' => Looked(h)
  BY <1>1 DEF Looked
<1>5. sweep' \subseteq Handles /\ want' \in Accepts \cup {0}
  BY <1>1 DEF LinksInv, Types
<1> QED
  BY <1>1, <1>2, <1>3, <1>4, <1>5, ControlStep

-----------------------------------------------------------------------------
(* The rest of LinkDown()                                                  *)

\* A step of LinkDown() leaves the server, the sockets and the events alone.
LEMMA ReturnFacts ==
    ASSUME LinksInv, UNCHANGED <<sock, server, events, logic, want, sweep, twice, crashed>>
    PROVE  /\ AcceptInv' /\ LocalInv' /\ EventInv' /\ twice' = twice
           /\ \A h \in Handles : Looked(h)' <=> Looked(h)
           /\ \A h \in Handles \cup {None}, s \in Sockets : Pending(h, s)' <=> Pending(h, s)
           /\ UNCHANGED <<sock, status, count, accept, failed, events, logic, want, sweep,
                          twice, crashed>>
           /\ Swept' <=> Swept
<1>1. UNCHANGED <<sock, status, count, accept, failed, events, logic, want, sweep,
                  twice, crashed>>
  BY DEF server
<1>2. AcceptInv'
  BY <1>1 DEF LinksInv, AcceptInv, CountExact, Swept
<1>3. LocalInv'
  BY <1>1 DEF LinksInv, LocalInv, SocketOK, NoDial, DialOK, Sole
<1>5. \A h \in Handles \cup {None}, s \in Sockets : Pending(h, s)' <=> Pending(h, s)
  BY <1>1 DEF Pending
<1>4. EventInv'
  BY <1>1, <1>5 DEF LinksInv, EventInv
<1> QED
  BY <1>1, <1>2, <1>3, <1>4, <1>5 DEF Looked, Swept

\* The handle leaves the table and is on its way back.
LEMMA LinkClearStep ==
    ASSUME LinksInv, NEW t \in Threads, LinkClear(t)
    PROVE  LinksInv'
<1>1. /\ down[t].at = "clear" /\ down' = [down EXCEPT ![t].at = "push"]
      /\ table' = [table EXCEPT ![sock[down[t].sock].handle] = None] /\ free' = free
      /\ UNCHANGED <<sock, server, events, logic, want, sweep, twice, crashed>>
  BY DEF LinkClear
<1>2. /\ AcceptInv' /\ LocalInv' /\ EventInv'
      /\ \A h \in Handles : Looked(h)' <=> Looked(h)
      /\ \A h \in Handles \cup {None}, s \in Sockets : Pending(h, s)' <=> Pending(h, s)
      /\ UNCHANGED <<sock, status, count, accept, failed, events, logic, want, sweep,
                     twice, crashed>>
      /\ Swept' <=> Swept
  BY <1>1, ReturnFacts
<1>3. Types /\ BaseInv /\ (~twice => PoolInv /\ GoneInv /\ WaitInv /\ PendingInv /\ SweepInv)
  BY DEF LinksInv
<1>4. PICK x \in Sockets : Clearing(t, x) /\ down[t].sock = x
  BY <1>1, <1>3, DownFacts, OutFacts
<1>5. PICK h : h = sock[x].handle
  OBVIOUS
<1>6. down[t] # Out /\ h \in Handles
  <2>1. down[t] # Out
    BY <1>4, OutFacts DEF Clearing
  <2>2. sock[x] \in SocketType
    BY <1>3 DEF Types
  <2> QED
    BY <1>3, <1>4, <1>5, <2>1, <2>2 DEF BaseInv, SocketType
<1>7. /\ table' \in [Handles -> Sockets \cup {None}] /\ table'[h] = None
      /\ \A g \in Handles : g # h => table'[g] = table[g]
  BY <1>1, <1>3, <1>4, <1>5, <1>6 DEF Types
<1>8. /\ down' \in [Threads -> {Out} \cup [sock : Sockets, at : {"clear", "push"}]]
      /\ down'[t] = [sock |-> x, at |-> "push"] /\ down'[t].sock = x /\ down'[t].at = "push"
      /\ \A u \in Threads : u # t => down'[u] = down[u]
  <2>1. [down[t] EXCEPT !.at = "push"] = [sock |-> x, at |-> "push"]
    BY <1>4 DEF Clearing
  <2>2. down \in [Threads -> {Out} \cup [sock : Sockets, at : {"clear", "push"}]]
    BY <1>3 DEF Types
  <2>3. down' = [down EXCEPT ![t] = [sock |-> x, at |-> "push"]]
    BY <1>1, <2>1
  <2> QED
    BY <2>2, <2>3
<1>9. Types'
  BY <1>1, <1>2, <1>3, <1>7, <1>8 DEF Types
<1>10. BaseInv'
  <2>1. \A g \in Handles : table'[g] # None =>
           sock'[table'[g]].handle = g /\ sock'[table'[g]].kind # "unused"
    BY <1>2, <1>3, <1>7 DEF BaseInv
  <2>2. \A u \in Threads : down'[u] # Out =>
           sock'[down'[u].sock].handle # None /\ sock'[down'[u].sock].kind # "unused"
    BY <1>2, <1>3, <1>4, <1>6, <1>8 DEF BaseInv
  <2> QED
    BY <2>1, <2>2 DEF BaseInv
<1>11. \A u \in Threads, y \in Sockets : Clearing(u, y)' <=> (Clearing(u, y) /\ u # t)
  BY <1>8, OutFacts DEF Clearing
<1>12. /\ Returning(h)' = Returning(h) \cup {t}
       /\ \A g \in Handles : g # h => Returning(g)' = Returning(g)
  BY <1>1, <1>2, <1>5, <1>8 DEF Returning
<1>13. ASSUME ~twice' PROVE PoolInv' /\ GoneInv' /\ WaitInv' /\ PendingInv' /\ SweepInv'
  <2>1. PoolInv /\ GoneInv /\ WaitInv /\ PendingInv /\ SweepInv
    BY <1>2, <1>3, <1>13
  <2>2. table[h] = x /\ Returning(h) = {} /\ \A u \in Threads : Clearing(u, x) => u = t
    <3>1. table[h] = x /\ \A u \in Threads : Clearing(u, x) => u = t
      BY <1>4, <1>5, <2>1 DEF PoolInv
    <3>2. Returning(h) \subseteq Threads
      BY DEF Returning
    <3> QED
      BY <1>6, <2>1, <3>1, <3>2, NoneFacts DEF PoolInv
  <2>3. ASSUME NEW g \in Handles, table[g] = x PROVE g = h
    BY <1>3, <1>5, <2>3, NoneFacts DEF BaseInv
  <2>4. PoolInv'
    <3>1. \A i \in 1..Len(free) : free[i] \in Handles /\ free[i] # h
      BY <1>3, <2>1, <2>2, ElementOfSeq, NoneFacts DEF PoolInv, Types
    <3>2. ASSUME NEW i \in 1..Len(free') PROVE table'[free'[i]] = None /\ Returning(free[i])' = {}
      <4>1. PICK g \in Handles : g = free[i] /\ g # h
        BY <1>1, <3>1
      <4>2. table[g] = None /\ Returning(g) = {}
        BY <1>1, <2>1, <4>1 DEF PoolInv
      <4>3. table'[g] = None /\ Returning(g)' = {} /\ free'[i] = g
        BY <1>1, <1>7, <1>12, <4>1, <4>2
      <4> QED
        BY <4>3 DEF Returning
    <3>3. \A g \in Handles : table'[g] = None /\ Returning(g)' = {} =>
             \E i \in 1..Len(free') : free'[i] = g
      BY <1>1, <1>7, <1>12, <2>1 DEF PoolInv
    <3>4. \A g \in Handles, u \in Threads : u \in Returning(g)' =>
             table'[g] = None /\ Returning(g)' = {u}
      BY <1>7, <1>12, <2>1, <2>2 DEF PoolInv
    <3>5. ASSUME NEW a \in Threads, NEW b \in Threads, NEW y \in Sockets, Clearing(a, y)'
          PROVE  table'[sock'[y].handle] = y /\ (Clearing(b, y)' => b = a)
      <4>1. Clearing(a, y) /\ a # t
        BY <1>11, <3>5
      <4>2. table[sock[y].handle] = y /\ (Clearing(b, y) => b = a) /\ y # x
        BY <2>1, <2>2, <4>1 DEF PoolInv
      <4>3. down[a] # Out /\ down[a].sock = y
        BY <4>1, OutFacts DEF Clearing
      <4>4. sock[y].handle \in Handles /\ sock[y].handle # h
        BY <1>3, <2>2, <4>2, <4>3 DEF BaseInv, Types, SocketType
      <4>5. Clearing(b, y)' => Clearing(b, y)
        BY <1>11
      <4> QED
        BY <1>2, <1>7, <4>2, <4>4, <4>5
    <3>6. \A i, j \in 1..Len(free') : free'[i] = free'[j] => i = j
      BY <1>1, <2>1 DEF PoolInv
    <3> QED
      BY <3>2, <3>3, <3>4, <3>5, <3>6 DEF PoolInv
  <2>5. GoneInv'
    <3> SUFFICES ASSUME NEW y \in Sockets, ~sock[y].stray, Leaving(y)' \/ ~(Held(y)')
                 PROVE  Leaving(y) \/ ~Held(y)
      BY <1>2, <2>1 DEF GoneInv, Dead
    <3>1. CASE Leaving(y)'
      BY <1>11, <3>1 DEF Leaving
    <3>2. CASE y = x
      BY <1>4, <3>2 DEF Leaving
    <3>3. CASE ~(Held(y)') /\ y # x
      <4>1. sock[y].handle \in Handles /\ table'[sock[y].handle] # y
        BY <1>2, <1>3, <3>3 DEF Held, Up, Types, SocketType
      <4>2. table[sock[y].handle] # y
        BY <1>7, <2>2, <3>3, <4>1
      <4> QED
        BY <4>1, <4>2, NoneFacts DEF Held, Up
    <3> QED
      BY <3>1, <3>2, <3>3
  <2>6. WaitInv'
    BY <1>2, <2>1 DEF WaitInv
  <2>7. PendingInv'
    <3> SUFFICES ASSUME NEW g \in Handles, NEW u \in Sockets, Pending(g, u)'
                 PROVE  Waiting(g, u)' \/ (Swept' /\ NoServer(g)')
      BY DEF PendingInv
    <3>1. Waiting(g, u) \/ (Swept /\ NoServer(g))
      BY <1>2, <2>1 DEF PendingInv
    <3>2. CASE Waiting(g, u)
      <4>1. u # x /\ table[g] = u /\ ~(Leaving(u)')
        BY <1>4, <1>11, <3>2 DEF Waiting, Leaving
      <4>2. table'[g] = u
        BY <1>7, <2>2, <4>1
      <4> QED
        BY <1>2, <3>2, <4>1, <4>2 DEF Waiting
    <3>3. ASSUME NoServer(g) PROVE NoServer(g)'
      <4>1. CASE g = h
        BY <1>7, <4>1 DEF NoServer, Clearing
      <4>2. CASE g # h
        <5>1. table'[g] = table[g]
          BY <1>7, <4>2
        <5>2. CASE table[g] = None
          BY <5>1, <5>2 DEF NoServer, Clearing
        <5>3. CASE table[g] # None
          <6>1. PICK y \in Sockets : y = table[g] /\ y # x
            BY <1>3, <2>3, <4>2, <5>3 DEF Types
          <6>2. sock[y].kind # "server" \/ (logic = "sweeping" /\ Clearing(Logic, y))
            BY <3>3, <5>3, <6>1 DEF NoServer
          <6>3. Clearing(Logic, y) => Clearing(Logic, y)'
            <7>1. t = Logic => ~Clearing(Logic, y)
              BY <1>4, <6>1, OutFacts DEF Clearing
            <7> QED
              BY <1>11, <7>1 DEF Threads
          <6>4. table'[g] = y
            BY <5>1, <6>1
          <6> QED
            BY <1>2, <6>2, <6>3, <6>4 DEF NoServer, Clearing
        <5> QED
          BY <5>2, <5>3
      <4> QED
        BY <4>1, <4>2
    <3> QED
      BY <1>2, <3>1, <3>2, <3>3
  <2>8. SweepInv'
    <3> SUFFICES ASSUME NEW g \in Handles, Looked(g)', table'[g] # None,
                        sock'[table'[g]].kind = "server"
                 PROVE  sock'[table'[g]].op > 0 \/ Leaving(table[g])'
      BY DEF SweepInv, Leaving, Clearing
    <3>1. PICK y \in Sockets : y = table[g]
      BY <1>3, <1>7 DEF Types
    <3>2. g # h /\ table'[g] = y /\ y # x
      BY <1>7, <2>3, <3>1
    <3>3. sock[y].op > 0 \/ Leaving(y)
      BY <1>2, <2>1, <3>1, <3>2, NoneFacts DEF SweepInv
    <3>4. Leaving(y) => Leaving(y)'
      <4>1. ~Clearing(t, y)
        BY <1>4, <3>2, OutFacts DEF Clearing
      <4> QED
        BY <1>11, <4>1 DEF Leaving
    <3> QED
      BY <1>2, <3>2, <3>3, <3>4 DEF Leaving, Clearing
  <2> QED
    BY <2>4, <2>5, <2>6, <2>7, <2>8
<1> QED
  BY <1>2, <1>9, <1>10, <1>13 DEF LinksInv

\* The handle is free again.
LEMMA LinkPushStep ==
    ASSUME LinksInv, NEW t \in Threads, LinkPush(t)
    PROVE  LinksInv'
<1> DEFINE g0 == sock[down[t].sock].handle
<1>1. /\ down[t].at = "push" /\ down' = [down EXCEPT ![t] = Out]
      /\ free' = Append(free, g0) /\ table' = table
      /\ UNCHANGED <<sock, server, events, logic, want, sweep, twice, crashed>>
  BY DEF LinkPush
<1>2. /\ AcceptInv' /\ LocalInv' /\ EventInv'
      /\ \A h \in Handles : Looked(h)' <=> Looked(h)
      /\ \A h \in Handles \cup {None}, s \in Sockets : Pending(h, s)' <=> Pending(h, s)
      /\ UNCHANGED <<sock, status, count, accept, failed, events, logic, want, sweep,
                     twice, crashed>>
      /\ Swept' <=> Swept
  BY <1>1, ReturnFacts
<1>3. Types /\ BaseInv /\ (~twice => PoolInv /\ GoneInv /\ WaitInv /\ PendingInv /\ SweepInv)
  BY DEF LinksInv
<1>4. PICK x \in Sockets : down[t] = [sock |-> x, at |-> "push"] /\ down[t].sock = x
  BY <1>1, <1>3, DownFacts, OutFacts
<1>5. PICK h : h = sock[x].handle
  OBVIOUS
<1>6. h \in Handles /\ g0 = h
  <2>1. down[t] # Out
    BY <1>4, OutFacts
  <2>2. sock[x] \in SocketType
    BY <1>3 DEF Types
  <2> QED
    BY <1>3, <1>4, <1>5, <2>1, <2>2 DEF BaseInv, SocketType
<1> HIDE DEF g0
<1>7. /\ free \in Seq(Handles) /\ free' \in Seq(Handles) /\ Len(free) \in Nat
      /\ Len(free') = Len(free) + 1 /\ free'[Len(free) + 1] = h
      /\ \A i \in 1..Len(free) : free'[i] = free[i]
  <2>1. free \in Seq(Handles)
    BY <1>3 DEF Types
  <2> QED
    BY <1>1, <1>6, <2>1, AppendProperties, LenProperties
<1>8. /\ down' \in [Threads -> {Out} \cup [sock : Sockets, at : {"clear", "push"}]]
      /\ down'[t] = Out /\ \A u \in Threads : u # t => down'[u] = down[u]
  <2>1. down \in [Threads -> {Out} \cup [sock : Sockets, at : {"clear", "push"}]]
    BY <1>3 DEF Types
  <2> QED
    BY <1>1, <2>1
<1>9. Types'
  BY <1>1, <1>2, <1>3, <1>7, <1>8 DEF Types
<1>10. BaseInv'
  BY <1>1, <1>2, <1>3, <1>8 DEF BaseInv
<1>11. \A u \in Threads, y \in Sockets : Clearing(u, y)' <=> Clearing(u, y)
  <2>1. \A y \in Sockets : ~Clearing(t, y) /\ ~(Clearing(t, y)')
    BY <1>4, <1>8, OutFacts DEF Clearing
  <2> QED
    BY <1>8, <2>1 DEF Clearing
<1>12. /\ t \in Returning(h)
       /\ \A g \in Handles : Returning(g)' = IF g = h THEN Returning(g) \ {t} ELSE Returning(g)
  <2>1. down'[t].at # "push"
    BY <1>8, OutFacts
  <2> QED
    BY <1>1, <1>2, <1>4, <1>5, <1>8, <2>1 DEF Returning
<1>13. ASSUME ~twice' PROVE PoolInv' /\ GoneInv' /\ WaitInv' /\ PendingInv' /\ SweepInv'
  <2>1. PoolInv /\ GoneInv /\ WaitInv /\ PendingInv /\ SweepInv
    BY <1>2, <1>3, <1>13
  <2>2. table[h] = None /\ Returning(h) = {t} /\ Returning(h)' = {}
    BY <1>6, <1>12, <2>1 DEF PoolInv
  <2>3. \A i \in 1..Len(free') : i \in 1..Len(free) \/ i = Len(free) + 1
    BY <1>7
  <2>4. \A y \in Sockets : (Leaving(y)' <=> Leaving(y)) /\ (Held(y)' <=> Held(y))
    BY <1>1, <1>2, <1>11 DEF Leaving, Held, Up
  <2>5. PoolInv'
    <3>1. \A i \in 1..Len(free) : free[i] \in Handles /\ free[i] # h
      BY <1>7, <2>1, <2>2, ElementOfSeq DEF PoolInv
    <3>2. \A i, j \in 1..Len(free') : free'[i] = free'[j] => i = j
      BY <1>7, <2>1, <2>3, <3>1 DEF PoolInv
    <3>3. ASSUME NEW i \in 1..Len(free') PROVE table'[free'[i]] = None /\ Returning(free[i])' = {}
      <4>1. PICK g \in Handles : g = free'[i] /\ table[g] = None /\ (g # h => Returning(g) = {})
        BY <1>6, <1>7, <2>1, <2>2, <2>3, <3>1 DEF PoolInv
      <4>2. table'[g] = None /\ Returning(g)' = {} /\ free'[i] = g
        BY <1>1, <1>12, <2>2, <4>1
      <4> QED
        BY <4>2 DEF Returning
    <3>4. ASSUME NEW g \in Handles, table'[g] = None /\ Returning(g)' = {}
          PROVE  \E i \in 1..Len(free') : free'[i] = g
      <4>1. CASE g = h
        BY <1>7, <4>1
      <4>2. CASE g # h
        <5>1. PICK i \in 1..Len(free) : free[i] = g
          BY <1>1, <1>12, <2>1, <3>4, <4>2 DEF PoolInv
        <5> QED
          BY <1>7, <5>1
      <4> QED
        BY <4>1, <4>2
    <3>5. \A g \in Handles, u \in Threads : u \in Returning(g)' =>
             table'[g] = None /\ Returning(g)' = {u}
      BY <1>1, <1>12, <2>1, <2>2 DEF PoolInv
    <3>6. \A a, b \in Threads, y \in Sockets : Clearing(a, y)' =>
             table'[sock'[y].handle] = y /\ (Clearing(b, y)' => b = a)
      BY <1>1, <1>2, <1>11, <2>1 DEF PoolInv
    <3> QED
      BY <3>2, <3>3, <3>4, <3>5, <3>6 DEF PoolInv
  <2>6. GoneInv' /\ WaitInv'
    BY <1>2, <2>1, <2>4 DEF GoneInv, WaitInv, Dead
  <2>7. PendingInv'
    <3> SUFFICES ASSUME NEW g \in Handles, NEW u \in Sockets, Pending(g, u)'
                 PROVE  Waiting(g, u)' \/ (Swept' /\ NoServer(g)')
      BY DEF PendingInv
    <3>1. Waiting(g, u) \/ (Swept /\ NoServer(g))
      BY <1>2, <2>1 DEF PendingInv
    <3>2. Waiting(g, u) => Waiting(g, u)'
      BY <1>1, <1>2, <2>4 DEF Waiting
    <3>3. NoServer(g) => NoServer(g)'
      <4>1. PICK y : y = table[g]
        OBVIOUS
      <4>2. y = None \/ y \in Sockets
        BY <1>3, <4>1 DEF Types
      <4>3. y \in Sockets => (Clearing(Logic, y) => Clearing(Logic, y)')
        BY <1>11 DEF Threads
      <4> QED
        BY <1>1, <1>2, <4>1, <4>2, <4>3 DEF NoServer, Clearing
    <3> QED
      BY <1>2, <3>1, <3>2, <3>3
  <2>8. SweepInv'
    <3> SUFFICES ASSUME NEW g \in Handles, Looked(g)', table'[g] # None,
                        sock'[table'[g]].kind = "server"
                 PROVE  sock'[table'[g]].op > 0 \/ Leaving(table[g])'
      BY DEF SweepInv, Leaving, Clearing
    <3>1. PICK y \in Sockets : y = table[g]
      BY <1>1, <1>3 DEF Types
    <3>2. sock[y].op > 0 \/ Leaving(y)'
      BY <1>1, <1>2, <2>1, <2>4, <3>1 DEF SweepInv
    <3> QED
      BY <1>1, <1>2, <3>1, <3>2 DEF Leaving, Clearing
  <2> QED
    BY <2>5, <2>6, <2>7, <2>8
<1> QED
  BY <1>2, <1>9, <1>10, <1>13 DEF LinksInv

-----------------------------------------------------------------------------
(* New sockets                                                             *)

\* The socket s becomes q, which is r with the handle h that was free longest.
NewSocket(s, r, h, q) ==
    /\ sock' = [sock EXCEPT ![s] = q] /\ q \in SocketType /\ h \in Handles \cup {None}
    /\ q.kind = r.kind /\ q.handle = h /\ q.st = r.st /\ q.op = r.op /\ q.conn = r.conn
    /\ q.timer = r.timer /\ q.due = r.due /\ q.told = r.told /\ q.stray = r.stray
    /\ q.opt = r.opt
    /\ h = None => free' = free /\ table' = table
    /\ h # None =>
          /\ free # <<>> /\ h = Head(free) /\ free' = Tail(free)
          /\ table' = [table EXCEPT ![h] = s]

\* That is what LinkUp() does.
LEMMA LinkUpFacts ==
    ASSUME Types, NEW s \in Sockets, NEW r \in SocketType, r.handle = None, LinkUp(s, r)
    PROVE  \E h \in Handles \cup {None}, q \in SocketType : NewSocket(s, r, h, q)
<1>1. CASE free = <<>>
  <2>1. NewSocket(s, r, None, r)
    BY <1>1 DEF LinkUp, NewSocket, pool
  <2> QED
    BY <2>1
<1>2. CASE free # <<>>
  <2>1. Head(free) \in Handles
    BY <1>2, HeadTailProperties DEF Types
  <2>2. PICK h \in Handles : h = Head(free)
    BY <2>1
  <2> DEFINE q == [r EXCEPT !.handle = h]
  <2>3. /\ q \in SocketType /\ q.kind = r.kind /\ q.handle = h /\ q.st = r.st /\ q.op = r.op
        /\ q.conn = r.conn /\ q.timer = r.timer /\ q.due = r.due /\ q.told = r.told
        /\ q.stray = r.stray /\ q.opt = r.opt
    BY DEF SocketType
  <2>4. /\ sock' = [sock EXCEPT ![s] = q] /\ table' = [table EXCEPT ![h] = s]
        /\ free' = Tail(free)
    BY <1>2, <2>2 DEF LinkUp
  <2> HIDE DEF q
  <2>5. NewSocket(s, r, h, q)
    BY <1>2, <2>2, <2>3, <2>4, NoneFacts DEF NewSocket
  <2> QED
    BY <2>3, <2>5
<1> QED
  BY <1>1, <1>2

\* A new socket keeps the invariant.
LEMMA NewStep ==
    ASSUME LinksInv, NEW s \in Sockets, NEW r \in SocketType,
           NEW h \in Handles \cup {None}, NEW q \in SocketType, NewSocket(s, r, h, q),
           sock[s].kind = "unused", r.kind # "unused", SocketOK(r),
           r.kind = "server" => ~Swept,
           UNCHANGED <<status, failed, events, logic, want, sweep, linkdown>>,
           AcceptInv', count' \in Nat,
           accept' \in [Sockets -> {"none", "waits", "post", "link", "leave"}],
           \A u \in Sockets : u # s /\ accept'[u] = "waits" => accept[u] = "waits",
           r.st = 0, r.told = 0, ~r.stray
    PROVE  LinksInv'
<1>1. /\ Types /\ AcceptInv /\ LocalInv /\ BaseInv /\ EventInv
      /\ ~twice => PoolInv /\ GoneInv /\ WaitInv /\ PendingInv /\ SweepInv
  BY DEF LinksInv
<1>2. /\ sock' \in [Sockets -> SocketType] /\ sock'[s] = q
      /\ \A u \in Sockets : u # s => sock'[u] = sock[u]
  BY <1>1 DEF Types, NewSocket
<1>3. /\ q.kind = r.kind /\ q.handle = h /\ q.st = 0 /\ q.told = 0 /\ ~q.stray
      /\ h = None => free' = free /\ table' = table
      /\ h # None => /\ free # <<>> /\ h = Head(free) /\ free' = Tail(free)
                     /\ table' = [table EXCEPT ![h] = s]
  BY DEF NewSocket
<1>4. /\ table' \in [Handles -> Sockets \cup {None}]
      /\ \A g \in Handles : g # h => table'[g] = table[g]
      /\ h # None => table'[h] = s
  BY <1>1, <1>3, NoneFacts DEF Types
<1>5. /\ down' = down /\ twice' = twice /\ crashed' = crashed
      /\ \A u \in Threads, y \in Sockets : Clearing(u, y)' <=> Clearing(u, y)
      /\ \A y \in Sockets : Leaving(y)' <=> Leaving(y)
  BY DEF linkdown, Clearing, Leaving
<1>6. /\ free \in Seq(Handles) /\ free' \in Seq(Handles)
      /\ h # None => /\ Len(free) \in Nat \ {0} /\ Len(free') = Len(free) - 1 /\ h = free[1]
                     /\ \A i \in 1..Len(free') : i + 1 \in 1..Len(free) /\ free'[i] = free[i + 1]
  <2>1. free \in Seq(Handles)
    BY <1>1 DEF Types
  <2>2. CASE h = None
    BY <1>3, <2>1, <2>2
  <2>3. CASE h # None
    <3>1. free # <<>> /\ h = Head(free) /\ free' = Tail(free)
      BY <1>3, <2>3
    <3>2. /\ free' \in Seq(Handles) /\ Len(free') = Len(free) - 1
          /\ \A i \in 1..Len(free') : free'[i] = free[i + 1]
      BY <2>1, <3>1, HeadTailProperties
    <3>3. h = free[1]
      BY <2>1, <3>1
    <3>4. Len(free) \in Nat \ {0}
      BY <2>1, <3>1, LenProperties, EmptySeq
    <3> HIDE <3>1
    <3>5. \A i \in 1..Len(free') : i + 1 \in 1..Len(free)
      BY <3>2, <3>4
    <3> QED
      BY <2>1, <3>2, <3>3, <3>4, <3>5
  <2> QED
    BY <2>2, <2>3
<1>7. \A g \in Handles, u \in Sockets : table[g] = u => u # s
  BY <1>1, NoneFacts DEF BaseInv
<1>8. ASSUME NEW u \in Threads, down[u] # Out
      PROVE  down[u].sock \in Sockets /\ down[u].sock # s
  <2>1. down[u].sock \in Sockets
    BY <1>1, <1>8, DownFacts
  <2> QED
    BY <1>1, <1>8, <2>1 DEF BaseInv
<1>9. \A g \in Handles \cup {None}, u \in Sockets : Pending(g, u)' => Pending(g, u) /\ u # s
  BY SMTT(30), <1>1 DEF Pending, EventInv
<1>10. Types'
  BY <1>1, <1>2, <1>4, <1>5, <1>6 DEF Types
<1>11. LocalInv'
  <2>1. SocketOK(q)
    BY DEF SocketOK, NoDial, DialOK, Sole, NewSocket
  <2> SUFFICES ASSUME NEW u \in Sockets PROVE SocketOK(sock'[u])
    BY DEF LocalInv, SocketOK, NoDial, DialOK, Sole
  <2> QED
    BY <1>1, <1>2, <2>1 DEF LocalInv
<1>12. BaseInv'
  <2>1. ASSUME NEW g \in Handles, table'[g] # None
        PROVE  sock'[table'[g]].handle = g /\ sock'[table'[g]].kind # "unused"
    <3>1. CASE g = h
      BY <1>2, <1>3, <1>4, <3>1, NoneFacts
    <3>2. CASE g # h
      <4>1. table'[g] = table[g] /\ table[g] \in Sockets /\ table[g] # s
        BY <1>1, <1>4, <1>7, <2>1, <3>2 DEF Types
      <4> QED
        BY <1>1, <1>2, <2>1, <4>1 DEF BaseInv
    <3> QED
      BY <3>1, <3>2
  <2>2. \A u \in Threads : down'[u] # Out =>
           sock'[down'[u].sock].handle # None /\ sock'[down'[u].sock].kind # "unused"
    BY <1>1, <1>2, <1>5, <1>8 DEF BaseInv
  <2> QED
    BY <2>1, <2>2 DEF BaseInv
<1>13. EventInv'
  <2>1. ASSUME NEW g \in Handles \cup {None}, NEW u \in Sockets, Pending(g, u)'
        PROVE  sock'[u].kind = "server" /\ sock'[u].handle = g /\ accept'[u] # "waits"
    BY <1>1, <1>2, <1>9, <2>1 DEF EventInv
  <2> QED
    BY <1>1, <2>1 DEF EventInv
<1>14. ASSUME ~twice' PROVE PoolInv' /\ GoneInv' /\ WaitInv' /\ PendingInv' /\ SweepInv'
  <2>1. PoolInv /\ GoneInv /\ WaitInv /\ PendingInv /\ SweepInv
    BY <1>1, <1>5, <1>14
  <2>2. \A g \in Handles : Returning(g)' = Returning(g)
    <3>1. \A u \in Threads : down[u].at = "push" => down[u] # Out
      BY OutFacts
    <3> QED
      BY <1>2, <1>5, <1>8, <3>1 DEF Returning
  <2>3. h # None => table[h] = None /\ Returning(h) = {}
    <3>1. h # None => h = free[1] /\ 1 \in 1..Len(free)
      BY <1>6
    <3> QED
      BY SMTT(30), <2>1, <3>1 DEF PoolInv
  <2>4. PoolInv'
    <3>1. CASE h = None
      <4>1. \A i \in 1..Len(free) : free[i] \in Handles
        BY <1>6, ElementOfSeq
      <4>2. ASSUME NEW i \in 1..Len(free') PROVE table'[free'[i]] = None /\ Returning(free[i])' = {}
        <5>1. PICK g \in Handles : g = free[i] /\ table[g] = None /\ Returning(g) = {}
          BY <1>3, <2>1, <3>1, <4>1 DEF PoolInv
        <5>2. table'[g] = None /\ Returning(g)' = {} /\ free'[i] = g
          BY <1>3, <2>2, <3>1, <5>1
        <5> QED
          BY <5>2 DEF Returning
      <4>3. \A a, b \in Threads, y \in Sockets : Clearing(a, y)' =>
               table'[sock'[y].handle] = y /\ (Clearing(b, y)' => b = a)
        <5> SUFFICES ASSUME NEW a \in Threads, NEW b \in Threads, NEW y \in Sockets, Clearing(a, y)
                     PROVE  table'[sock'[y].handle] = y /\ (Clearing(b, y) => b = a)
          BY <1>5
        <5>1. y # s
          BY <1>8, OutFacts DEF Clearing
        <5> QED
          BY <1>2, <1>3, <2>1, <3>1, <5>1 DEF PoolInv
      <4>4. /\ \A i, j \in 1..Len(free') : free'[i] = free'[j] => i = j
            /\ \A g \in Handles : table'[g] = None /\ Returning(g)' = {} =>
                  \E i \in 1..Len(free') : free'[i] = g
            /\ \A g \in Handles, u \in Threads : u \in Returning(g)' =>
                  table'[g] = None /\ Returning(g)' = {u}
        BY <1>3, <2>1, <2>2, <3>1 DEF PoolInv
      <4> QED
        BY <4>2, <4>3, <4>4 DEF PoolInv
    <3>2. CASE h # None
      <4>1. \A i \in 1..Len(free) : free[i] \in Handles
        BY <1>6, ElementOfSeq
      <4>2. \A i \in 1..Len(free') : /\ free'[i] \in Handles /\ i + 1 \in 1..Len(free)
                                     /\ free'[i] = free[i + 1] /\ free'[i] # h
        <5> SUFFICES ASSUME NEW i \in 1..Len(free')
                     PROVE  /\ free'[i] \in Handles /\ i + 1 \in 1..Len(free)
                            /\ free'[i] = free[i + 1] /\ free'[i] # h
          OBVIOUS
        <5>1. i + 1 \in 1..Len(free) /\ 1 \in 1..Len(free) /\ i + 1 # 1 /\ free'[i] = free[i + 1]
          BY <1>6, <3>2
        <5> QED
          BY <1>6, <2>1, <3>2, <4>1, <5>1 DEF PoolInv
      <4>3. ASSUME NEW i \in 1..Len(free') PROVE table'[free'[i]] = None /\ Returning(free[i])' = {}
        <5>1. PICK g \in Handles : g = free'[i] /\ table[g] = None /\ Returning(g) = {} /\ g # h
          BY <2>1, <4>2 DEF PoolInv
        <5>2. table'[g] = None /\ Returning(g)' = {} /\ free'[i] = g
          BY <1>4, <2>2, <5>1
        <5> QED
          BY <5>2 DEF Returning
      <4>4. ASSUME NEW a \in Threads, NEW b \in Threads, NEW y \in Sockets, Clearing(a, y)'
            PROVE  table'[sock'[y].handle] = y /\ (Clearing(b, y)' => b = a)
        <5>1. Clearing(a, y) /\ y # s
          BY <1>5, <1>8, <4>4, OutFacts DEF Clearing
        <5>2. table[sock[y].handle] = y /\ (Clearing(b, y) => b = a)
          BY <2>1, <5>1 DEF PoolInv
        <5>3. down[a] # Out /\ down[a].sock = y
          BY <5>1, OutFacts DEF Clearing
        <5>4. sock[y].handle \in Handles /\ sock[y].handle # h
          BY <1>1, <2>3, <3>2, <5>2, <5>3, NoneFacts DEF BaseInv, Types, SocketType
        <5> QED
          BY <1>2, <1>4, <1>5, <5>1, <5>2, <5>4
      <4>5. \A i, j \in 1..Len(free') : free'[i] = free'[j] => i = j
        <5> SUFFICES ASSUME NEW i \in 1..Len(free'), NEW j \in 1..Len(free'), free'[i] = free'[j]
                     PROVE  i = j
          OBVIOUS
        <5>1. free[i + 1] = free[j + 1] /\ i + 1 \in 1..Len(free) /\ j + 1 \in 1..Len(free)
          BY <4>2
        <5>2. i + 1 = j + 1
          BY <2>1, <5>1 DEF PoolInv
        <5> QED
          BY <5>2
      <4>6. ASSUME NEW g \in Handles, table'[g] = None, Returning(g)' = {}
            PROVE  \E i \in 1..Len(free') : free'[i] = g
        <5>1. g # h
          BY <1>4, <3>2, <4>6, NoneFacts
        <5>2. PICK i \in 1..Len(free) : free[i] = g
          BY <1>4, <2>1, <2>2, <4>6, <5>1 DEF PoolInv
        <5>3. i # 1
          BY <1>6, <3>2, <5>1, <5>2
        <5>4. i - 1 \in 1..Len(free') /\ (i - 1) + 1 = i
          BY <1>6, <3>2, <5>3
        <5> QED
          BY <4>2, <5>2, <5>4
      <4>7. \A g \in Handles, u \in Threads : u \in Returning(g)' =>
               table'[g] = None /\ Returning(g)' = {u}
        BY <1>4, <2>1, <2>2, <2>3, <3>2 DEF PoolInv
      <4> QED
        BY <4>3, <4>4, <4>5, <4>6, <4>7 DEF PoolInv
    <3> QED
      BY <3>1, <3>2
  <2>5. GoneInv'
    <3> SUFFICES ASSUME NEW u \in Sockets, ~sock'[u].stray, Leaving(u)' \/ ~(Held(u)')
                 PROVE  Dead(sock'[u]) /\ accept'[u] # "waits"
      BY DEF GoneInv, Dead
    <3>1. CASE u = s
      <4>1. ~(Leaving(s)')
        BY <1>5, <1>8, OutFacts DEF Leaving, Clearing
      <4>2. Held(s)'
        BY <1>2, <1>3, <1>4 DEF Held, Up
      <4> QED
        BY <3>1, <4>1, <4>2
    <3>2. CASE u # s
      <4>1. Leaving(u) \/ ~Held(u)
        <5>1. CASE Leaving(u)'
          BY <1>5, <5>1
        <5>2. CASE ~(Held(u)')
          <6>1. sock[u].handle \in Handles /\ table'[sock[u].handle] # u
            BY <1>1, <1>2, <3>2, <5>2 DEF Held, Up, Types, SocketType
          <6>2. table[sock[u].handle] # u
            BY <1>4, <2>3, <6>1, NoneFacts
          <6> QED
            BY <6>1, <6>2, NoneFacts DEF Held, Up
        <5> QED
          BY <5>1, <5>2
      <4>2. Dead(sock[u]) /\ accept[u] # "waits"
        BY <1>2, <2>1, <3>2, <4>1 DEF GoneInv
      <4> QED
        BY <1>2, <3>2, <4>2
    <3> QED
      BY <3>1, <3>2
  <2>6. WaitInv'
    BY <1>2, <1>3, <2>1 DEF WaitInv
  <2>7. PendingInv'
    <3> SUFFICES ASSUME NEW g \in Handles, NEW u \in Sockets, Pending(g, u)'
                 PROVE  Waiting(g, u)' \/ (Swept' /\ NoServer(g)')
      BY DEF PendingInv
    <3>1. (Waiting(g, u) \/ (Swept /\ NoServer(g))) /\ u # s
      BY <1>9, <2>1 DEF PendingInv
    <3>2. Waiting(g, u) => Waiting(g, u)'
      BY <1>2, <1>4, <1>5, <2>3, <3>1, NoneFacts DEF Waiting
    <3>3. Swept' <=> Swept
      BY DEF Swept
    <3>4. ASSUME Swept, NoServer(g) PROVE NoServer(g)'
      <4>1. CASE g = h
        <5>1. table'[g] = s /\ sock'[s].kind # "server"
          BY <1>2, <1>3, <1>4, <3>4, <4>1, NoneFacts
        <5> QED
          BY <5>1 DEF NoServer, Clearing
      <4>2. CASE g # h
        <5>1. table'[g] = table[g]
          BY <1>4, <4>2
        <5>2. PICK y : y = table[g]
          OBVIOUS
        <5>3. y = None \/ (y \in Sockets /\ y # s)
          BY <1>1, <1>7, <5>2 DEF Types
        <5> QED
          BY <1>2, <1>5, <3>4, <5>1, <5>2, <5>3 DEF NoServer, Clearing
      <4> QED
        BY <4>1, <4>2
    <3> QED
      BY <3>1, <3>2, <3>3, <3>4
  <2>8. SweepInv'
    <3> SUFFICES ASSUME NEW g \in Handles, Looked(g)', table'[g] # None,
                        sock'[table'[g]].kind = "server"
                 PROVE  sock'[table'[g]].op > 0 \/ Leaving(table[g])'
      BY DEF SweepInv, Leaving, Clearing
    <3>1. Looked(g) /\ Swept
      BY DEF Looked, Swept
    <3>2. PICK y \in Sockets : y = table'[g]
      BY <1>4
    <3>3. g # h
      BY <1>2, <1>3, <1>4, <3>1, NoneFacts
    <3>4. y = table[g] /\ y # s
      BY <1>4, <1>7, <3>2, <3>3
    <3>5. sock[y].op > 0 \/ Leaving(y)'
      BY <1>2, <1>5, <2>1, <3>1, <3>2, <3>4, NoneFacts DEF SweepInv
    <3> QED
      BY <1>2, <3>2, <3>4, <3>5 DEF Leaving, Clearing
  <2> QED
    BY <2>4, <2>5, <2>6, <2>7, <2>8
<1> QED
  BY <1>10, <1>11, <1>12, <1>13, <1>14 DEF LinksInv

\* The next socket is not used yet.
LEMMA NewFacts ==
    ASSUME LinksInv, NEW s \in Sockets, Unused # {}, s = New
    PROVE  sock[s].kind = "unused" /\ accept[s] = "none"
<1>1. s \in Unused
  BY DEF New
<1>2. sock[s].kind = "unused"
  BY <1>1 DEF Unused
<1> QED
  BY <1>2 DEF LinksInv, AcceptInv, Types

\* A new socket waits for a peer, and the handler u that posted it, if one did, leaves.
LEMMA PostStep ==
    ASSUME LinksInv, NEW s \in Sockets, Post(s), ~Swept,
           \/ accept' = [accept EXCEPT ![s] = "waits"]
           \/ \E u \in Sockets : accept[u] = "link" /\ accept' = [accept EXCEPT ![u] = "leave", ![s] = "waits"],
           UNCHANGED <<status, failed, events, logic, want, sweep, linkdown>>
    PROVE  LinksInv'
<1> DEFINE r == [Fresh EXCEPT !.kind = "server"]
<1>1. LinkUp(s, r) /\ count' = count + 1 /\ sock[s].kind = "unused" /\ accept[s] = "none"
  BY NewFacts DEF Post
<1>2. /\ r \in SocketType /\ r.kind = "server" /\ r.handle = None /\ r.st = 0 /\ r.op = 0
      /\ r.conn = 0 /\ r.timer = "off" /\ r.due = {} /\ r.told = 0 /\ ~r.stray
      /\ ~r.opt.passive
  BY FreshFacts DEF SocketType
<1> HIDE DEF r
<1>3. SocketOK(r)
  BY <1>2 DEF SocketOK, NoDial
<1>4. Types /\ AcceptInv
  BY DEF LinksInv
<1>5. PICK h \in Handles \cup {None}, q \in SocketType : NewSocket(s, r, h, q)
  BY <1>1, <1>2, <1>4, LinkUpFacts
<1>6. /\ accept' \in [Sockets -> {"none", "waits", "post", "link", "leave"}]
      /\ accept'[s] = "waits"
      /\ \A u \in Sockets : u # s => /\ accept'[u] = "none" <=> accept[u] = "none"
                                     /\ accept'[u] = "waits" => accept[u] = "waits"
  <2>1. accept \in [Sockets -> {"none", "waits", "post", "link", "leave"}]
    BY <1>4 DEF Types
  <2>2. CASE accept' = [accept EXCEPT ![s] = "waits"]
    BY <2>1, <2>2
  <2>3. CASE \E u \in Sockets :
                accept[u] = "link" /\ accept' = [accept EXCEPT ![u] = "leave", ![s] = "waits"]
    BY <1>1, <2>1, <2>3
  <2> QED
    BY <2>2, <2>3
<1>7. CountExact' /\ count' \in Nat
  <2>1. Accepting \subseteq Sockets /\ s \notin Accepting /\ count = Cardinality(Accepting)
    BY <1>1, <1>4 DEF Accepting, AcceptInv, CountExact
  <2>2. Accepting' = Accepting \cup {s}
    BY <1>6 DEF Accepting
  <2>3. Cardinality(Accepting') = Cardinality(Accepting) + 1 /\ Cardinality(Accepting) \in Nat
    BY <2>1, <2>2, Counted
  <2> QED
    BY <1>1, <2>1, <2>3 DEF CountExact, Accepting
<1>8. \A u \in Sockets : accept'[u] # "none" => sock'[u].kind = "server"
  <2>1. sock \in [Sockets -> SocketType] /\ sock' = [sock EXCEPT ![s] = q] /\ q.kind = "server"
    BY <1>2, <1>4, <1>5 DEF Types, NewSocket
  <2> QED
    BY <1>4, <1>6, <2>1 DEF AcceptInv
<1>9. AcceptInv'
  BY <1>4, <1>7, <1>8 DEF AcceptInv, Swept
<1> QED
  BY <1>1, <1>2, <1>3, <1>5, <1>6, <1>7, <1>9, NewStep

\* StartServer() posts an accept.
LEMMA StartPostStep ==
    ASSUME LinksInv, StartPost, count < want
    PROVE  LinksInv'
<1>1. PICK s \in Sockets : Post(s) /\ accept' = [accept EXCEPT ![s] = "waits"]
  BY DEF StartPost
<1>2. UNCHANGED <<status, failed, events, logic, want, sweep, linkdown>> /\ logic = "starting"
  BY DEF StartPost
<1>3. ~Swept
  BY <1>2 DEF LinksInv, AcceptInv, Swept
<1> QED
  BY <1>1, <1>2, <1>3, PostStep

\* handle_accept() posts the next accept.
LEMMA PostLinkStep ==
    ASSUME LinksInv, NEW u \in Sockets, PostLink(u)
    PROVE  LinksInv'
<1>1. PICK s \in Sockets : Post(s) /\ accept' = [accept EXCEPT ![u] = "leave", ![s] = "waits"]
  BY DEF PostLink
<1>2. UNCHANGED <<status, failed, events, logic, want, sweep, linkdown>> /\ accept[u] = "link"
  BY DEF PostLink
<1>3. ~Swept
  BY <1>2 DEF LinksInv, AcceptInv, Swept
<1> QED
  BY <1>1, <1>2, <1>3, PostStep

\* A socket that is not the server's is made.
LEMMA DialledStep ==
    ASSUME LinksInv, NEW s \in Sockets, Unused # {}, s = New,
           NEW r \in SocketType, LinkUp(s, r), r.handle = None, r.kind \in {"dialled", "lost"},
           SocketOK(r), r.st = 0, r.told = 0, ~r.stray,
           UNCHANGED <<server, events, logic, want, sweep, linkdown>>
    PROVE  LinksInv'
<1>1. sock[s].kind = "unused" /\ accept[s] = "none"
  BY NewFacts
<1>2. Types /\ AcceptInv
  BY DEF LinksInv
<1>3. PICK h \in Handles \cup {None}, q \in SocketType : NewSocket(s, r, h, q)
  BY <1>2, LinkUpFacts
<1>4. UNCHANGED <<status, count, accept, failed, events, logic, want, sweep, linkdown>>
  BY DEF server
<1>5. sock \in [Sockets -> SocketType] /\ sock' = [sock EXCEPT ![s] = q]
  BY <1>2, <1>3 DEF Types, NewSocket
<1>6. AcceptInv'
  BY <1>1, <1>2, <1>4, <1>5 DEF AcceptInv, CountExact, Swept
<1>7. /\ count' \in Nat /\ accept' \in [Sockets -> {"none", "waits", "post", "link", "leave"}]
      /\ \A u \in Sockets : u # s /\ accept'[u] = "waits" => accept[u] = "waits"
  BY <1>2, <1>4 DEF Types
<1>8. UNCHANGED <<status, failed, events, logic, want, sweep, linkdown>>
  BY <1>4
<1> QED
  BY <1>1, <1>3, <1>6, <1>7, <1>8, NewStep

\* Connect() makes a socket that dials.
LEMMA ConnectStep ==
    ASSUME LinksInv, NEW s \in Sockets, Connect(s)
    PROVE  LinksInv'
<1>1. PICK o \in Options : LinkUp(s, Dial([Fresh EXCEPT !.kind = "dialled", !.opt = o]))
  BY DEF Connect
<1> DEFINE f == [Fresh EXCEPT !.kind = "dialled", !.opt = o]
<1>2. o \in [timeout : BOOLEAN, again : BOOLEAN, passive : BOOLEAN]
  BY LinksAssumption
<1>3. /\ f \in SocketType /\ f.kind = "dialled" /\ f.handle = None /\ f.st = 0 /\ f.op = 0
      /\ f.timer = "off" /\ f.due = {} /\ f.stray = FALSE
  BY <1>2, FreshFacts DEF SocketType
<1> HIDE DEF f
<1>4. /\ Dial(f) \in SocketType /\ Dial(f).kind = "dialled" /\ Dial(f).handle = None
      /\ Dial(f).st = 0 /\ Dial(f).op = 0 /\ Dial(f).told = 0 /\ ~Dial(f).stray
      /\ Dial(f).timer \in {"timeout", "off"} /\ Dial(f).due = {}
  BY <1>3, DialFacts
<1>5. SocketOK(Dial(f))
  BY <1>4 DEF SocketOK, DialOK, Sole
<1>6. LinkUp(s, Dial(f))
  BY <1>1 DEF f
<1>7. /\ Unused # {} /\ s = New
      /\ UNCHANGED <<server, events, logic, want, sweep, linkdown>>
  BY DEF Connect
<1> QED
  BY <1>4, <1>5, <1>6, <1>7, DialledStep

\* Connect() fails early: its socket keeps the handle.
LEMMA ConnectFailsStep ==
    ASSUME LinksInv, NEW s \in Sockets, ConnectFails(s)
    PROVE  LinksInv'
<1> DEFINE r == [Fresh EXCEPT !.kind = "lost"]
<1>1. /\ Unused # {} /\ s = New /\ LinkUp(s, r)
      /\ UNCHANGED <<server, events, logic, want, sweep, linkdown>>
  BY DEF ConnectFails
<1>2. /\ r \in SocketType /\ r.kind = "lost" /\ r.handle = None /\ r.st = 0 /\ r.op = 0
      /\ r.conn = 0 /\ r.timer = "off" /\ r.due = {} /\ r.told = 0 /\ ~r.stray
      /\ ~r.opt.passive
  BY FreshFacts DEF SocketType
<1> HIDE DEF r
<1>3. SocketOK(r)
  BY <1>2 DEF SocketOK, NoDial
<1> QED
  BY <1>1, <1>2, <1>3, DialledStep

-----------------------------------------------------------------------------
(* The invariant                                                           *)

\* It holds when the network is initialised.
LEMMA LinksInit == Init => LinksInv
<1> SUFFICES ASSUME Init PROVE LinksInv
  OBVIOUS
<1>1. /\ free = [i \in Handles |-> i] /\ table = [h \in Handles |-> None]
      /\ sock = [s \in Sockets |-> Fresh] /\ status = 5 /\ count = 0
      /\ accept = [s \in Sockets |-> "none"] /\ failed = 0 /\ events = <<>>
      /\ logic = "idle" /\ want = 0 /\ sweep = {} /\ down = [t \in Threads |-> Out]
      /\ twice = FALSE /\ crashed = FALSE
  BY DEF Init
<1>2. free \in Seq(Handles) /\ Len(free) = Capacity
  <2>1. Capacity \in Nat /\ free \in [1..Capacity -> Handles]
    BY <1>1, LinksAssumption DEF Handles
  <2> QED
    BY <2>1
<1>3. events \in Seq((Handles \cup {None}) \X Sockets) /\ Len(events) = 0
  BY <1>1
<1>4. Types
  BY <1>1, <1>2, <1>3, FreshFacts DEF Types
<1>5. AcceptInv
  <2>1. {s \in Sockets : accept[s] # "none"} = {}
    BY <1>1
  <2>2. CountExact
    BY <1>1, <2>1, FS_EmptySet DEF CountExact
  <2> QED
    BY <1>1, <2>2 DEF AcceptInv, Swept
<1>6. LocalInv
  BY <1>1, FreshFacts DEF LocalInv, SocketOK
<1>7. BaseInv
  BY <1>1 DEF BaseInv
<1>8. EventInv
  BY <1>3 DEF EventInv, Pending
<1>9. \A t \in Threads, s \in Sockets : ~Clearing(t, s) /\ down[t].at # "push"
  BY <1>1, OutFacts DEF Clearing
<1>10. \A h \in Handles : Returning(h) = {}
  BY <1>1, OutFacts DEF Returning
<1>11. PoolInv
  BY <1>1, <1>2, <1>9, <1>10 DEF PoolInv, Handles
<1>12. GoneInv /\ WaitInv
  BY <1>1, <1>9, FreshFacts DEF GoneInv, WaitInv, Leaving, Held
<1>13. PendingInv /\ SweepInv
  BY <1>1, <1>3 DEF PendingInv, Pending, SweepInv
<1> QED
  BY <1>4, <1>5, <1>6, <1>7, <1>8, <1>11, <1>12, <1>13 DEF LinksInv

\* Nothing happens.
LEMMA LinksStutter == LinksInv /\ UNCHANGED vars => LinksInv'
<1> SUFFICES ASSUME LinksInv, UNCHANGED vars PROVE LinksInv'
  OBVIOUS
<1>1. /\ UNCHANGED <<pool, sock, down, twice, server, logic, want, sweep>>
      /\ Fewer /\ crashed' = crashed
  BY DEF vars, linkdown, Fewer
<1>2. crashed' \in BOOLEAN
  BY <1>1 DEF LinksInv, Types
<1> QED
  BY <1>1, <1>2, EventDropped

\* Every step keeps it.
LEMMA LinksNext == LinksInv /\ [Next]_vars => LinksInv'
<1> SUFFICES ASSUME LinksInv, [Next]_vars PROVE LinksInv'
  OBVIOUS
<1>1. CASE LogicThread
  <2>1. down[Logic] = Out
    BY <1>1 DEF LogicThread
  <2>2. CASE StartServer
    BY <2>1, <2>2, StartServerStep
  <2>3. CASE StartPost
    BY <2>1, <2>3, StartPostStep, StartedStep
  <2>4. CASE CloseServer
    BY <2>1, <2>4, CloseServerStep
  <2>5. CASE Stop
    BY <2>1, <2>5, StopWaitedStep, StopSweepStep, StopDeleteStep DEF Stop
  <2>6. CASE ExecPending
    BY <2>1, <2>6, ExecPendingStep
  <2>7. ASSUME NEW s \in Sockets, CloseLink(s) \/ Connect(s) \/ ConnectFails(s)
        PROVE  LinksInv'
    BY <2>1, <2>7, CloseLinkStep, ConnectStep, ConnectFailsStep
  <2> QED
    BY <1>1, <2>2, <2>3, <2>4, <2>5, <2>6, <2>7 DEF LogicThread
<1>2. ASSUME NEW t \in Threads, Return(t) PROVE LinksInv'
  BY <1>2, LinkClearStep, LinkPushStep DEF Return
<1>3. ASSUME NEW s \in Sockets, NEW t \in Workers, Handler(t, s) PROVE LinksInv'
  <2>1. down[t] = Out /\ t \in Threads /\ t \in Workers
    BY <1>3 DEF Handler, Threads
  <2>2. CASE AcceptRefused(t, s)
    BY <2>1, <2>2, AcceptRefusedStep
  <2>3. CASE ReadEnds(t, s)
    BY <2>1, <2>3, ReadEndsStep
  <2>4. CASE ConnectOk(t, s)
    BY <2>1, <2>4, ConnectOkStep
  <2>5. CASE ConnectError(t, s)
    BY <2>1, <2>5, ConnectErrorStep
  <2>6. CASE Timeout(t, s)
    BY <2>1, <2>6, TimeoutStep
  <2> QED
    BY <1>3, <2>2, <2>3, <2>4, <2>5, <2>6 DEF Handler
<1>4. ASSUME NEW s \in Sockets,
             \/ AcceptPending(s) \/ AcceptFailed(s) \/ HandleAccept(s)
             \/ TimerExpires(s) \/ Retry(s) \/ ConnectLate(s)
      PROVE  LinksInv'
  BY <1>4, AcceptPendingStep, HandlerSteps, PostLinkStep, TimerExpiresStep, RetryStep,
     ConnectLateStep DEF HandleAccept
<1>5. CASE UNCHANGED vars
  BY <1>5, LinksStutter
<1> QED
  BY <1>1, <1>2, <1>3, <1>4, <1>5 DEF Next

\* The invariant holds of every behaviour.
THEOREM LinksInvHolds == Spec => []LinksInv
<1> QED
  BY LinksInit, LinksNext, PTL DEF Spec

\* Every variable has its type and, until two threads put one handle back, each handle
\* is free, or in the table, or on its way back.
THEOREM TypeOKHolds == Spec => []TypeOK
<1>1. LinksInv => TypeOK
  <2> SUFFICES ASSUME LinksInv PROVE TypeOK
    OBVIOUS
  <2>1. Types /\ \A h \in Handles : table[h] # None => sock[table[h]].handle = h
    BY DEF LinksInv, BaseInv
  <2>2. ASSUME ~twice, NEW h \in Handles PROVE Places(h) = 1
    <3> DEFINE F == {i \in 1..Len(free) : free[i] = h}
    <3>1. PoolInv
      BY <2>2 DEF LinksInv
    <3>2. \A x : Cardinality({x}) = 1
      BY FS_Singleton
    <3>3. Cardinality({}) = 0
      BY FS_EmptySet
    <3>4. \/ table[h] # None /\ F = {} /\ Returning(h) = {}
          \/ table[h] = None /\ F = {} /\ \E t \in Threads : Returning(h) = {t}
          \/ table[h] = None /\ Returning(h) = {} /\ \E i : F = {i}
      <4>1. \A t \in Returning(h) : t \in Threads
        BY DEF Returning
      <4>2. CASE F # {}
        <5>1. PICK i \in 1..Len(free) : free[i] = h
          BY <4>2
        <5>2. F = {i} /\ table[h] = None /\ Returning(h) = {}
          BY <3>1, <5>1 DEF PoolInv
        <5> QED
          BY <5>2
      <4>3. CASE F = {} /\ Returning(h) # {}
        <5>1. PICK t \in Threads : t \in Returning(h)
          BY <4>1, <4>3
        <5> QED
          BY <3>1, <4>3, <5>1 DEF PoolInv
      <4>4. CASE F = {} /\ Returning(h) = {}
        <5>1. table[h] # None
          BY <3>1, <4>4 DEF PoolInv
        <5> QED
          BY <4>4, <5>1
      <4> QED
        BY <4>2, <4>3, <4>4
    <3>5. Places(h) = Cardinality(F) + Cardinality(Returning(h))
                          + (IF table[h] = None THEN 0 ELSE 1)
      BY DEF Places
    <3> HIDE DEF F
    <3>6. CASE table[h] # None /\ F = {} /\ Returning(h) = {}
      <4>1. Cardinality(F) = 0 /\ Cardinality(Returning(h)) = 0
        BY <3>3, <3>6
      <4> QED
        BY <3>5, <3>6, <4>1
    <3>7. ASSUME table[h] = None, F = {}, NEW t \in Threads, Returning(h) = {t}
          PROVE  Places(h) = 1
      <4>1. Cardinality(F) = 0 /\ Cardinality(Returning(h)) = 1
        BY <3>2, <3>3, <3>7
      <4> QED
        BY <3>5, <3>7, <4>1
    <3>8. ASSUME table[h] = None, Returning(h) = {}, NEW i, F = {i}
          PROVE  Places(h) = 1
      <4>1. Cardinality(F) = 1 /\ Cardinality(Returning(h)) = 0
        BY <3>2, <3>3, <3>8
      <4> QED
        BY <3>5, <3>8, <4>1
    <3> QED
      BY <3>4, <3>6, <3>7, <3>8
  <2> QED
    BY <2>1, <2>2 DEF TypeOK
<1> QED
  BY <1>1, LinksInvHolds, PTL

\* acceptor_count_ is exact: StopServer(), which waits for it to be zero, waits for
\* every accept and every handler, and for no more.
THEOREM CountExactHolds == Spec => []CountExact
<1>1. LinksInv => CountExact
  BY DEF LinksInv, AcceptInv
<1> QED
  BY <1>1, LinksInvHolds, PTL

\* Nobody uses the server once CloseServer() has deleted it, though a handle that was
\* put back twice leaves an event that may find the wrong socket.
THEOREM ServerOutlivesHolds == Spec => []ServerOutlives
<1>1. LinksInv => ServerOutlives
  <2> SUFFICES ASSUME LinksInv, status = 4 PROVE ServerOutlives
    BY DEF ServerOutlives
  <2>1. (\A s \in Sockets : accept[s] = "none") /\ logic = "idle"
    BY DEF LinksInv, AcceptInv, Swept
  <2>2. ASSUME ~twice, NEW i \in 1..Len(events), NEW h, h = events[i][1], h # None, table[h] # None
        PROVE  sock[table[h]].kind # "server"
    <3>1. events[i] \in (Handles \cup {None}) \X Sockets
      BY ElementOfSeq DEF LinksInv, Types
    <3>2. PICK s \in Sockets : events[i] = <<h, s>> /\ h \in Handles
      BY <2>2, <3>1
    <3>3. Waiting(h, s) \/ NoServer(h)
      BY <2>2, <3>2 DEF LinksInv, PendingInv, Pending
    <3>4. ~Waiting(h, s)
      <4> SUFFICES ASSUME Waiting(h, s) PROVE FALSE
        OBVIOUS
      <4>1. table[h] = s /\ sock[s].kind = "server" /\ sock[s].op = 0 /\ ~Leaving(s)
        BY <3>2 DEF LinksInv, EventInv, Waiting, Pending
      <4> QED
        BY <2>2, <3>2, <4>1 DEF LinksInv, SweepInv, Looked
    <3> QED
      BY <2>1, <2>2, <3>3, <3>4 DEF NoServer
  <2> QED
    BY <2>1, <2>2 DEF ServerOutlives
<1> QED
  BY <1>1, LinksInvHolds, PTL

\* A connection that is open can be reached by its handle, however the completions of
\* its dials, timeouts, retries and CloseLink() race, but for the cases that the property
\* names: a handle that two threads put back is one of them.
THEOREM OpenReachableHolds == Spec => []OpenReachable
<1>1. LinksInv => OpenReachable
  BY DEF LinksInv, OpenReachable, GoneInv, Dead, Held
<1> QED
  BY <1>1, LinksInvHolds, PTL

\* A dial that is not repeated is reported once: completion and timeout do not both get
\* through, whatever happens to the handle.
THEOREM ReportedOnceHolds == Spec => []ReportedOnce
<1>1. LinksInv => ReportedOnce
  BY DEF LinksInv, ReportedOnce, LocalInv, SocketOK, DialOK
<1> QED
  BY <1>1, LinksInvHolds, PTL

\* Every step that leaves the server up replaces the accepts that end, or counts them
\* as failed.
LEMMA Keeps ==
    ASSUME LinksInv, [Next]_vars, status = 1, status' = 1
    PROVE  failed + Cardinality(Kept) <= failed' + Cardinality(Kept')
<1>1. /\ accept \in [Sockets -> {"none", "waits", "post", "link", "leave"}]
      /\ failed \in Nat /\ Kept \subseteq Sockets /\ Cardinality(Kept) \in Nat
  BY Counted DEF LinksInv, Types, Kept
<1>2. ASSUME accept' = accept, failed' = failed
      PROVE  failed + Cardinality(Kept) <= failed' + Cardinality(Kept')
  <2>1. Kept' = Kept
    BY <1>2 DEF Kept
  <2> QED
    BY <1>1, <1>2, <2>1
<1>3. ASSUME NEW s \in Sockets, AcceptFailed(s)
      PROVE  failed + Cardinality(Kept) <= failed' + Cardinality(Kept')
  <2>1. s \in Kept /\ failed' = failed + 1
    BY <1>3 DEF AcceptFailed, Kept
  <2>2. Kept' = Kept \ {s}
    BY <1>1, <1>3 DEF AcceptFailed, Kept
  <2>3. Cardinality(Kept') = Cardinality(Kept) - 1
    BY <1>1, <2>1, <2>2, Counted
  <2> QED
    BY <1>1, <2>1, <2>3
<1>4. ASSUME NEW s \in Sockets, NEW x \in Workers,
             AcceptRefused(x, s)
      PROVE  failed + Cardinality(Kept) <= failed' + Cardinality(Kept')
  <2>1. failed' = failed
    BY <1>4 DEF AcceptRefused
  <2>2. Kept' = Kept
    BY <1>1, <1>4 DEF AcceptRefused, Kept
  <2> QED
    BY <1>1, <2>1, <2>2
<1>5. ASSUME NEW t \in Sockets, Post(t) PROVE accept[t] = "none"
  <2>1. sock[t].kind = "unused"
    <3>1. New \in Unused
      BY <1>5 DEF Post, New
    <3> QED
      BY <1>5, <3>1 DEF Post, Unused
  <2> QED
    BY <2>1 DEF LinksInv, AcceptInv
<1>6. ASSUME NEW s \in Sockets, PostLink(s)
      PROVE  failed + Cardinality(Kept) <= failed' + Cardinality(Kept')
  <2>1. PICK t \in Sockets : Post(t) /\ accept' = [accept EXCEPT ![s] = "leave", ![t] = "waits"]
    BY <1>6 DEF PostLink
  <2>2. accept[s] = "link" /\ failed' = failed /\ accept[t] = "none"
    BY <1>5, <1>6, <2>1 DEF PostLink
  <2>3. Kept' = (Kept \ {s}) \cup {t} /\ s \in Kept /\ t \notin Kept /\ Kept \ {s} \subseteq Sockets
    BY <1>1, <2>1, <2>2 DEF Kept
  <2>4. Cardinality(Kept \ {s}) = Cardinality(Kept) - 1
    BY <1>1, <2>3, Counted
  <2>5. Cardinality((Kept \ {s}) \cup {t}) = Cardinality(Kept \ {s}) + 1
    BY <2>3, Counted
  <2> QED
    BY <1>1, <2>2, <2>3, <2>4, <2>5
<1>7. CASE StartPost
  <2>1. CASE count < want
    <3>1. PICK t \in Sockets : Post(t) /\ accept' = [accept EXCEPT ![t] = "waits"]
      BY <1>7, <2>1 DEF StartPost
    <3>2. failed' = failed /\ accept[t] = "none"
      BY <1>5, <1>7, <3>1 DEF StartPost
    <3>3. Kept' = Kept \cup {t} /\ t \notin Kept
      BY <1>1, <3>1, <3>2 DEF Kept
    <3>4. Cardinality(Kept \cup {t}) = Cardinality(Kept) + 1
      BY <1>1, <3>3, Counted
    <3> QED
      BY <1>1, <3>2, <3>3, <3>4
  <2>2. CASE ~(count < want)
    BY <1>2, <1>7, <2>2 DEF StartPost
  <2> QED
    BY <2>1, <2>2
<1>8. CASE UNCHANGED vars
  BY <1>2, <1>8 DEF vars, server
<1>9. CASE StartServer \/ CloseServer \/ Stop \/ ExecPending
  BY <1>2, <1>9 DEF StartServer, CloseServer, Stop, StopWaited, StopSweep, StopDelete,
                    ExecPending, server
<1>10. ASSUME NEW s \in Sockets, NEW x \in Workers,
              ReadEnds(x, s) \/ ConnectOk(x, s) \/ ConnectError(x, s) \/ Timeout(x, s)
       PROVE  failed + Cardinality(Kept) <= failed' + Cardinality(Kept')
  <2>1. UNCHANGED server
    BY <1>10 DEF ReadEnds, ConnectOk, ConnectError, Timeout
  <2> QED
    BY <1>2, <2>1 DEF server
<1>11. ASSUME NEW x \in Threads, Return(x)
       PROVE  failed + Cardinality(Kept) <= failed' + Cardinality(Kept')
  BY <1>2, <1>11 DEF Return, LinkClear, LinkPush, server
<1>12. Next \/ UNCHANGED vars
  OBVIOUS
<1>13. CASE LogicThread
  <2>1. ASSUME NEW s \in Sockets, CloseLink(s) \/ Connect(s) \/ ConnectFails(s)
        PROVE  UNCHANGED server
    BY <2>1 DEF CloseLink, Connect, ConnectFails
  <2>2. ASSUME NEW s \in Sockets, CloseLink(s) \/ Connect(s) \/ ConnectFails(s)
        PROVE  failed + Cardinality(Kept) <= failed' + Cardinality(Kept')
    BY <1>2, <2>1, <2>2 DEF server
  <2> QED
    BY <1>7, <1>9, <1>13, <2>2 DEF LogicThread
<1>14. ASSUME NEW s \in Sockets, NEW x \in Workers, Handler(x, s)
       PROVE  failed + Cardinality(Kept) <= failed' + Cardinality(Kept')
  BY <1>4, <1>10, <1>14 DEF Handler
<1>15. ASSUME NEW s \in Sockets, TimerExpires(s) \/ Retry(s) \/ ConnectLate(s)
       PROVE  failed + Cardinality(Kept) <= failed' + Cardinality(Kept')
  BY <1>2, <1>15 DEF TimerExpires, Retry, ConnectLate, server
<1>16. ASSUME NEW s \in Sockets, AcceptPending(s) \/ PostCheck(s) \/ Leave(s)
       PROVE  failed + Cardinality(Kept) <= failed' + Cardinality(Kept')
  <2>1. failed' = failed
    BY <1>16 DEF AcceptPending, PostCheck, Leave
  <2>2. Kept' = Kept
    BY <1>1, <1>16 DEF AcceptPending, PostCheck, Leave, Kept
  <2> QED
    BY <1>1, <2>1, <2>2
<1> QED
  BY <1>3, <1>6, <1>8, <1>11, <1>12, <1>13, <1>14, <1>15, <1>16 DEF Next, HandleAccept

\* While the server is up, handle_accept() replaces every accept that ends, but for
\* those that failed.
THEOREM AcceptsKeptHolds == Spec => AcceptsKept
<1>1. LinksInv /\ [Next]_vars =>
        [status = 1 /\ status' = 1 =>
            failed + Cardinality(Kept) <= failed' + Cardinality(Kept')]_vars
  BY Keeps
<1> QED
  BY <1>1, LinksInvHolds, PTL DEF Spec, AcceptsKept
=============================================================================
