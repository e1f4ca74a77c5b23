------------------------------ MODULE NetLinks ------------------------------
(***************************************************************************)
(* The links of the network layer (src/src/net): the handle pool of        *)
(* asio_SocketMgr, one asio_Server that accepts connections into it, and   *)
(* connections that Connect() dials.  The application's logic thread       *)
(* starts and closes the server, connects, closes links and executes       *)
(* events; handlers run on io threads.                                     *)
(*                                                                         *)
(* What happens inside an open connection is the subject of NetSocket: here*)
(* it has one outstanding read and no keep-alive, and a step is a whole    *)
(* handler or close(), but for handle_accept(), which races StopServer(),  *)
(* and LinkDown(), which tests and clears handles[] without the lock.  Of  *)
(* the events only EVENT_PENDING is kept in the queue, the one that finds  *)
(* its socket by handle.  Connections are dialled asynchronously.  The     *)
(* application uses the handles it was told, and only while the link is up.*)
(***************************************************************************)
EXTENDS Naturals, Sequences, FiniteSets

CONSTANTS
    Sockets,    \* socket objects, each used once (model bound)
    Capacity,   \* the handles of the pool, 1..Capacity here
    None,       \* INVALID_NETWORK_HANDLE, no socket
    Accepts,    \* server_options::acceptor_count: the values it may have
    Options,    \* connect_options: records of booleans [timeout, again, passive]
    MaxDials,   \* model bound: async_connect outstanding on one socket
    Workers,    \* the io threads
    Logic       \* the logic thread

ASSUME LinksAssumption ==
    /\ IsFiniteSet(Sockets)
    /\ Capacity \in Nat \ {0}
    /\ None \notin Sockets \cup 1..Capacity
    /\ Accepts \subseteq Nat /\ MaxDials \in Nat
    /\ Options \subseteq [timeout : BOOLEAN, again : BOOLEAN, passive : BOOLEAN]
    /\ Logic \notin Workers

Handles == 1..Capacity

Threads == Workers \cup {Logic}

VARIABLES
    free,      \* free_handles
    table,     \* handles[]
    sock,      \* the socket objects
    status,    \* status_ of the server; 4 when it is deleted, 5 before it is made
    count,     \* acceptor_count_
    accept,    \* where the async_accept of a socket and its handler stand
    failed,    \* async_accepts that failed while the server was up
    events,    \* event_queue_: EVENT_PENDING only, <<handle, socket>>
    logic,     \* what the logic thread is doing
    want,      \* the accepts StartServer() is to post, 0 outside it
    sweep,     \* the handles CloseAll() has still to look at
    down,      \* where a thread stands in LinkDown(), and for which socket
    twice,     \* two threads passed the test of LinkDown() for one socket
    crashed    \* a null server or handles[~0] was dereferenced

pool == <<free, table>>
linkdown == <<down, twice, crashed>>
server == <<status, count, accept, failed>>
vars == <<pool, sock, server, events, logic, want, sweep, linkdown>>

\* A socket: connect_status_, the outstanding reads, the outstanding async_connects,
\* what timer_ waits for, its handlers that are due, connect_info_, and two that are
\* history: how often its session was told of the present dial, and whether CloseLink()
\* met it while it dialled or a retry of it was cancelled, which does not end the dial.
Fresh == [kind |-> "unused", handle |-> None, st |-> 0, op |-> 0, open |-> FALSE,
          conn |-> 0, timer |-> "off", due |-> {}, told |-> 0, stray |-> FALSE,
          opt |-> [timeout |-> FALSE, again |-> FALSE, passive |-> FALSE]]

\* A thread that is not in LinkDown().
Out == [sock |-> None, at |-> "out"]

\* Initialize()
Init ==
    /\ free = [i \in Handles |-> i]
    /\ table = [h \in Handles |-> None]
    /\ sock = [s \in Sockets |-> Fresh]
    /\ status = 5 /\ count = 0
    /\ accept = [s \in Sockets |-> "none"]
    /\ failed = 0
    /\ events = <<>>
    /\ logic = "idle" /\ want = 0 /\ sweep = {}
    /\ down = [t \in Threads |-> Out]
    /\ twice = FALSE
    /\ crashed = FALSE

-----------------------------------------------------------------------------
(* LinkUp(), LinkDown() and close()                                        *)

\* s, from now on the socket r, takes the handle that was free longest.  The
\* failure of an empty pool is ignored by every caller.
LinkUp(s, r) ==
    IF free = <<>>
    THEN sock' = [sock EXCEPT ![s] = r] /\ UNCHANGED pool
    ELSE /\ sock' = [sock EXCEPT ![s] = [r EXCEPT !.handle = Head(free)]]
         /\ table' = [table EXCEPT ![Head(free)] = s]
         /\ free' = Tail(free)

\* Mutant: the handle is put back whoever holds it.
LinkDownBlind(t, s) ==
    IF sock[s].handle # None
    THEN /\ down' = [down EXCEPT ![t] = [sock |-> s, at |-> "clear"]]
         /\ UNCHANGED <<twice, crashed>>
    ELSE crashed' = TRUE /\ UNCHANGED <<down, twice>>

\* The thread passed the test for the socket and has not cleared the table yet.
Clearing(t, s) == down[t] = [sock |-> s, at |-> "clear"]

\* LinkDown() by the thread t: the test, of which nothing keeps a second thread away,
\* then LinkClear() and, under the lock, LinkPush().
LinkDown(t, s) ==
    LET h == sock[s].handle
    IN  IF h # None /\ table[h] = s
        THEN /\ down' = [down EXCEPT ![t] = [sock |-> s, at |-> "clear"]]
             /\ twice' = (twice \/ \E u \in Threads : Clearing(u, s))
             /\ UNCHANGED crashed
        ELSE crashed' = (h = None) /\ UNCHANGED <<down, twice>>

LinkClear(t) ==
    /\ down[t].at = "clear"
    /\ table' = [table EXCEPT ![sock[down[t].sock].handle] = None]
    /\ down' = [down EXCEPT ![t].at = "push"]
    /\ UNCHANGED <<free, sock, server, events, logic, want, sweep, twice, crashed>>

LinkPush(t) ==
    LET h == sock[down[t].sock].handle
    IN  /\ down[t].at = "push"
        /\ free' = Append(free, h)
        /\ down' = [down EXCEPT ![t] = Out]
        /\ UNCHANGED <<table, sock, server, events, logic, want, sweep, twice, crashed>>

\* timer_.cancel(): handlers that look at the error do nothing, but do_connect as
\* the handler of a retry does not look at it.
Cancel(r) ==
    [r EXCEPT !.timer = "off", !.stray = r.stray \/ r.timer = "retry",
              !.due = IF r.timer = "retry" THEN r.due \cup {"retry"} ELSE r.due]

\* do_connect()
Dial(r) ==
    LET t == IF r.opt.timeout THEN [Cancel(r) EXCEPT !.timer = "timeout"] ELSE r
    IN  [t EXCEPT !.conn = r.conn + 1, !.open = TRUE, !.told = 0]

\* close() up to EVENT_CLOSE
Shut(r, passive) ==
    LET o == [r EXCEPT !.opt.passive = r.opt.passive /\ passive]
        c == IF r.st = 1 THEN [Cancel(o) EXCEPT !.st = 2, !.open = FALSE] ELSE o
    IN  IF c.st = 2 /\ c.op = 0 THEN [c EXCEPT !.st = 0]
        ELSE c

\* close() of the socket that has come to be r.
Close(t, s, r, passive) ==
    LET c == Shut(r, passive)
        done == c.st = 0 /\ c.op = 0
    IN  /\ sock' = [sock EXCEPT ![s] = IF done /\ c.opt.passive THEN Dial(c) ELSE c]
        /\ IF done /\ ~c.opt.passive THEN LinkDown(t, s) ELSE UNCHANGED linkdown
        /\ UNCHANGED pool

\* The session is told that the link is open, or how the dial failed.
Tell(r) == [r EXCEPT !.told = r.told + 1]

\* accept(): the session is told and the first read started, or there is no memory
\* for the buffers.
Accept(t, s, r) ==
    \/ /\ sock' = [sock EXCEPT ![s] = [Tell(Cancel(r)) EXCEPT !.st = 1, !.op = r.op + 1]]
       /\ UNCHANGED <<pool, linkdown>>
    \/ Close(t, s, [Tell(Cancel(r)) EXCEPT !.st = 1], FALSE)

Up(s) == sock[s].handle # None /\ table[sock[s].handle] = s

-----------------------------------------------------------------------------
(* The server                                                              *)

Unused == {s \in Sockets : sock[s].kind = "unused"}

Replacing == {s \in Sockets : accept[s] \in {"post", "link"}}

\* Sockets are left besides those that will replace the ones of these handlers.
Spare == Cardinality(Replacing) < Cardinality(Unused)

StartServer ==
    /\ logic = "idle" /\ status = 5
    /\ status' = 1
    /\ logic' = "starting"
    /\ want' \in {n \in Accepts : n <= Cardinality(Unused)}
    /\ UNCHANGED <<pool, sock, count, accept, failed, events, sweep, linkdown>>

\* The next socket object; which one it is makes no difference.
New == CHOOSE s \in Unused : TRUE

\* An async_accept on a new socket.
Post(s) ==
    /\ Unused # {} /\ s = New
    /\ LinkUp(s, [Fresh EXCEPT !.kind = "server"])
    /\ count' = count + 1

StartPost ==
    /\ logic = "starting"
    /\ IF count < want
       THEN /\ Spare
            /\ \E s \in Sockets : Post(s) /\ accept' = [accept EXCEPT ![s] = "waits"]
            /\ UNCHANGED <<logic, want>>
       ELSE logic' = "idle" /\ want' = 0 /\ UNCHANGED <<pool, sock, count, accept>>
    /\ UNCHANGED <<status, failed, events, sweep, linkdown>>

\* handle_accept() of a peer that is allowed: pending().  Peers come while sockets
\* are left to replace those that wait for them.
AcceptPending(s) ==
    /\ accept[s] = "waits"
    /\ Spare
    /\ sock' = [sock EXCEPT ![s].st = 1, ![s].open = TRUE]
    /\ events' = Append(events, <<sock[s].handle, s>>)
    /\ accept' = [accept EXCEPT ![s] = "post"]
    /\ UNCHANGED <<pool, status, count, failed, logic, want, sweep, linkdown>>

AcceptRefused(t, s) ==
    /\ accept[s] = "waits"
    /\ Spare
    /\ Close(t, s, [sock[s] EXCEPT !.open = TRUE], FALSE)
    /\ accept' = [accept EXCEPT ![s] = "post"]
    /\ UNCHANGED <<status, count, failed, events, logic, want, sweep>>

\* A failed accept, or one that StopServer() cancelled: nothing but the count.
AcceptFailed(s) ==
    /\ accept[s] = "waits"
    /\ accept' = [accept EXCEPT ![s] = "leave"]
    /\ failed' = IF status = 1 THEN failed + 1 ELSE failed
    /\ UNCHANGED <<pool, sock, status, count, events, logic, want, sweep, linkdown>>

\* Mutant: the handler counts itself out before it posts the next accept.
PostCheckCounts(s) ==
    /\ accept[s] = "post"
    /\ accept' = [accept EXCEPT ![s] = IF status = 1 THEN "link" ELSE "none"]
    /\ count' = count - 1
    /\ UNCHANGED <<pool, sock, status, failed, events, logic, want, sweep, linkdown>>

\* post_accept(), when close() of a refused socket is through.
PostCheck(s) ==
    /\ accept[s] = "post" /\ \A t \in Workers : down[t].sock # s
    /\ accept' = [accept EXCEPT ![s] = IF status = 1 THEN "link" ELSE "leave"]
    /\ UNCHANGED <<pool, sock, status, count, failed, events, logic, want, sweep, linkdown>>

\* Mutant: the handler gives up without another accept.
PostNone(s) ==
    /\ accept[s] = "link"
    /\ accept' = [accept EXCEPT ![s] = "leave"]
    /\ UNCHANGED <<pool, sock, status, count, failed, events, logic, want, sweep, linkdown>>

PostLink(s) ==
    /\ accept[s] = "link"
    /\ \E t \in Sockets : Post(t) /\ accept' = [accept EXCEPT ![s] = "leave", ![t] = "waits"]
    /\ UNCHANGED <<status, failed, events, logic, want, sweep, linkdown>>

\* Mutant: the count of a handler is lost when the server stops.
LeaveStuck(s) ==
    /\ accept[s] = "leave"
    /\ accept' = [accept EXCEPT ![s] = "none"]
    /\ count' = IF status = 1 THEN count - 1 ELSE count
    /\ UNCHANGED <<pool, sock, status, failed, events, logic, want, sweep, linkdown>>

Leave(s) ==
    /\ accept[s] = "leave"
    /\ accept' = [accept EXCEPT ![s] = "none"]
    /\ count' = count - 1
    /\ UNCHANGED <<pool, sock, status, failed, events, logic, want, sweep, linkdown>>

\* CloseServer(): StopServer() waits until no accept and no handler is left.
CloseServer ==
    /\ logic = "idle" /\ status = 1
    /\ status' = 2
    /\ logic' = "stopping"
    /\ UNCHANGED <<pool, sock, count, accept, failed, events, want, sweep, linkdown>>

\* Mutant: StopServer() does not wait.
StopWaitsNot ==
    /\ logic = "stopping"
    /\ logic' = "sweeping"
    /\ sweep' = Handles
    /\ UNCHANGED <<pool, sock, server, events, want, linkdown>>

StopWaited ==
    /\ logic = "stopping" /\ count = 0
    /\ logic' = "sweeping"
    /\ sweep' = Handles
    /\ UNCHANGED <<pool, sock, server, events, want, linkdown>>

\* CloseAll( this )
StopSweep ==
    /\ logic = "sweeping"
    /\ \E h \in sweep :
          /\ sweep' = sweep \ {h}
          /\ IF table[h] # None /\ sock[table[h]].kind = "server"
             THEN Close(Logic, table[h], sock[table[h]], FALSE)
             ELSE UNCHANGED <<pool, sock, linkdown>>
    /\ UNCHANGED <<server, events, logic, want>>

StopDelete ==
    /\ logic = "sweeping" /\ sweep = {}
    /\ status' = 4
    /\ logic' = "idle"
    /\ UNCHANGED <<pool, sock, count, accept, failed, events, want, sweep, linkdown>>

-----------------------------------------------------------------------------
(* Events, and the end of a connection                                     *)

ExecPending ==
    /\ logic = "idle" /\ events # <<>>
    /\ events' = Tail(events)
    /\ LET h == Head(events)[1]
           s == IF h = None THEN None ELSE table[h]
       IN  IF s = None THEN UNCHANGED <<pool, sock, linkdown>>
           ELSE IF sock[s].kind # "server"
           THEN crashed' = TRUE /\ UNCHANGED <<pool, sock, down, twice>>
           ELSE Close(Logic, s, sock[s], FALSE) \/ Accept(Logic, s, sock[s])
    /\ UNCHANGED <<server, logic, want, sweep>>

\* The last handle_recv() of a connection: the peer is gone or the socket closed.
ReadEnds(t, s) ==
    /\ sock[s].op > 0
    /\ Close(t, s, [sock[s] EXCEPT !.op = sock[s].op - 1], TRUE)
    /\ UNCHANGED <<server, events, logic, want, sweep>>

CloseLink(s) ==
    /\ logic = "idle"
    /\ sock[s].kind = "dialled" \/ sock[s].told > 0
    /\ Up(s)
    /\ Close(Logic, s, [sock[s] EXCEPT !.stray = sock[s].stray \/ sock[s].st = 0], FALSE)
    /\ UNCHANGED <<server, events, logic, want, sweep>>

-----------------------------------------------------------------------------
(* Dialled connections                                                     *)

\* Before the server starts a socket is left for it.
Connect(s) ==
    /\ logic = "idle"
    /\ Unused # {} /\ s = New
    /\ Spare
    /\ status = 5 => Cardinality(Unused) > 1
    /\ \E o \in Options : LinkUp(s, Dial([Fresh EXCEPT !.kind = "dialled", !.opt = o]))
    /\ UNCHANGED <<server, events, logic, want, sweep, linkdown>>

\* connect() fails before it dials: nobody gives the handle back.
ConnectFails(s) ==
    /\ logic = "idle"
    /\ Unused # {} /\ s = New
    /\ Spare
    /\ status = 5 => Cardinality(Unused) > 1
    /\ LinkUp(s, [Fresh EXCEPT !.kind = "lost"])
    /\ UNCHANGED <<server, events, logic, want, sweep, linkdown>>

\* The timers whose handlers matter here run out.
TimerExpires(s) ==
    /\ sock[s].timer \in {"timeout", "retry"}
    /\ sock' = [sock EXCEPT ![s].timer = "off", ![s].due = sock[s].due \cup {sock[s].timer}]
    /\ UNCHANGED <<pool, server, events, logic, want, sweep, linkdown>>

\* Mutant: a late completion counts like any other.
LateNever(r) == ~r.open

\* handle_connect() drops a completion if the socket is closed or no timer waits.
Late(r) == ~r.open \/ r.timer = "off"

ConnectLate(s) ==
    /\ sock[s].conn > 0 /\ Late(sock[s])
    /\ sock' = [sock EXCEPT ![s].conn = sock[s].conn - 1]
    /\ UNCHANGED <<pool, server, events, logic, want, sweep, linkdown>>

ConnectOk(t, s) ==
    /\ sock[s].conn > 0 /\ ~Late(sock[s])
    /\ Accept(t, s, [sock[s] EXCEPT !.conn = sock[s].conn - 1])
    /\ UNCHANGED <<server, events, logic, want, sweep>>

\* Mutant: the error of a dial is reported and its timer left to run.
ConnectErrorTimed(t, s) ==
    LET r == Tell([sock[s] EXCEPT !.conn = sock[s].conn - 1])
    IN  /\ sock[s].conn > 0 /\ ~Late(sock[s])
        /\ IF r.opt.again
           THEN /\ sock' = [sock EXCEPT ![s] = [Cancel(r) EXCEPT !.timer = "retry"]]
                /\ UNCHANGED <<pool, linkdown>>
           ELSE Close(t, s, r, FALSE)
        /\ UNCHANGED <<server, events, logic, want, sweep>>

ConnectError(t, s) ==
    LET r == Tell([Cancel(sock[s]) EXCEPT !.conn = sock[s].conn - 1])
    IN  /\ sock[s].conn > 0 /\ ~Late(sock[s])
        /\ IF r.opt.again
           THEN /\ sock' = [sock EXCEPT ![s] = [r EXCEPT !.timer = "retry"]]
                /\ UNCHANGED <<pool, linkdown>>
           ELSE Close(t, s, r, FALSE)
        /\ UNCHANGED <<server, events, logic, want, sweep>>

\* Mutant: the timeout of a dial that is not repeated is not reported.
TimeoutSilent(t, s) ==
    LET r == [sock[s] EXCEPT !.due = sock[s].due \ {"timeout"}]
    IN  /\ "timeout" \in sock[s].due
        /\ r.opt.again => r.conn < MaxDials
        /\ sock' = [sock EXCEPT ![s] = IF r.st = 0 /\ r.opt.again THEN Dial(r) ELSE r]
        /\ UNCHANGED <<pool, linkdown, server, events, logic, want, sweep>>

\* handle_connect_timeout()
Timeout(t, s) ==
    LET r == [sock[s] EXCEPT !.due = sock[s].due \ {"timeout"}]
    IN  /\ "timeout" \in sock[s].due
        /\ r.opt.again => r.conn < MaxDials
        /\ IF r.st # 0 \/ r.opt.again
           THEN /\ sock' = [sock EXCEPT ![s] = IF r.st # 0 THEN r ELSE Dial(r)]
                /\ UNCHANGED <<pool, linkdown>>
           ELSE Close(t, s, Tell(r), FALSE)
        /\ UNCHANGED <<server, events, logic, want, sweep>>

\* do_connect() as the handler of the retry timer, whether it ran out or was
\* cancelled.
Retry(s) ==
    /\ "retry" \in sock[s].due /\ sock[s].conn < MaxDials
    /\ sock' = [sock EXCEPT ![s] = Dial([sock[s] EXCEPT !.due = sock[s].due \ {"retry"}])]
    /\ UNCHANGED <<pool, server, events, logic, want, sweep, linkdown>>

-----------------------------------------------------------------------------
HandleAccept(s) == PostCheck(s) \/ PostLink(s) \/ Leave(s)

Stop == StopWaited \/ StopSweep \/ StopDelete

\* What the logic thread does when it is not in LinkDown().
LogicThread ==
    /\ down[Logic] = Out
    /\ \/ StartServer \/ StartPost \/ CloseServer \/ Stop \/ ExecPending
       \/ \E s \in Sockets : CloseLink(s) \/ Connect(s) \/ ConnectFails(s)

\* The handlers that may go through LinkDown(), on an io thread that is free.
Handler(t, s) ==
    /\ down[t] = Out
    /\ \/ AcceptRefused(t, s) \/ ReadEnds(t, s)
       \/ ConnectOk(t, s) \/ ConnectError(t, s) \/ Timeout(t, s)

Return(t) == LinkClear(t) \/ LinkPush(t)

Next ==
    /\ ~crashed
    /\ \/ LogicThread
       \/ \E t \in Threads : Return(t)
       \/ \E s \in Sockets :
             \/ \E t \in Workers : Handler(t, s)
             \/ AcceptPending(s) \/ AcceptFailed(s) \/ HandleAccept(s)
             \/ TimerExpires(s) \/ Retry(s) \/ ConnectLate(s)

Spec == Init /\ [][Next]_vars

\* The handlers of a socket that wait for no peer.
Handling(s) ==
    \/ HandleAccept(s)
    \/ status # 1 /\ AcceptFailed(s)
    \/ TimerExpires(s)
    \/ \E t \in Workers : down[t] = Out /\ Timeout(t, s)

\* Handlers run to their end, timers run out, the accepts that StopServer()
\* cancelled fail, and the logic thread goes on with what it began.  Peers need
\* not come nor go, and a dial need not be answered.
Fairness ==
    /\ WF_vars(down[Logic] = Out /\ (StartPost \/ Stop) /\ ~crashed)
    /\ \A t \in Threads : WF_vars(Return(t) /\ ~crashed)
    /\ \A s \in Sockets : WF_vars(Handling(s) /\ ~crashed)

FairSpec == Spec /\ Fairness
-----------------------------------------------------------------------------
(* Properties                                                              *)

SocketType ==
    [kind : {"unused", "server", "dialled", "lost"}, handle : Handles \cup {None},
     st : 0..2, op : Nat, open : BOOLEAN, conn : Nat,
     timer : {"off", "timeout", "retry"}, due : SUBSET {"timeout", "retry"},
     told : Nat, stray : BOOLEAN,
     opt : [timeout : BOOLEAN, again : BOOLEAN, passive : BOOLEAN]]

Types ==
    /\ free \in Seq(Handles)
    /\ table \in [Handles -> Sockets \cup {None}]
    /\ sock \in [Sockets -> SocketType]
    /\ status \in {1, 2, 4, 5}
    /\ count \in Nat
    /\ accept \in [Sockets -> {"none", "waits", "post", "link", "leave"}]
    /\ failed \in Nat
    /\ events \in Seq((Handles \cup {None}) \X Sockets)
    /\ logic \in {"idle", "starting", "stopping", "sweeping"}
    /\ want \in Accepts \cup {0}
    /\ sweep \subseteq Handles
    /\ down \in [Threads -> {Out} \cup [sock : Sockets, at : {"clear", "push"}]]
    /\ twice \in BOOLEAN
    /\ crashed \in BOOLEAN

\* The threads that are about to put the handle back.
Returning(h) == {t \in Threads : down[t].at = "push" /\ sock[down[t].sock].handle = h}

Places(h) ==
    Cardinality({i \in 1..Len(free) : free[i] = h}) + Cardinality(Returning(h))
        + (IF table[h] = None THEN 0 ELSE 1)

\* Every variable has its type and a socket in the table knows its handle.  Until two
\* threads put one handle back (they may: the test of LinkDown() is not locked), each
\* handle is in one place: free, in the table, or on its way back.
TypeOK ==
    /\ Types
    /\ \A h \in Handles : table[h] # None => sock[table[h]].handle = h
    /\ ~twice => \A h \in Handles : Places(h) = 1

\* acceptor_count_ counts the accepts that wait and the handlers that run.
CountExact == count = Cardinality({s \in Sockets : accept[s] # "none"})

Kept == {s \in Sockets : accept[s] \in {"waits", "post", "link"}}

\* While the server is up, every accept that ends is replaced before its handler is
\* through, but for those that failed: handle_accept() gives each of them up for
\* good.  (How many there are is another matter: StartServer() counts the handlers
\* that are about to leave as its own, and may post fewer than it was asked for.)
AcceptsKept ==
    [][status = 1 /\ status' = 1 =>
        failed + Cardinality(Kept) <= failed' + Cardinality(Kept')]_vars

\* Nobody uses the server once CloseServer() has deleted it: no handle_accept() is
\* left, and no EVENT_PENDING finds a socket of it.  (With a handle put back twice two
\* sockets of the server may have shared it, and the event of one finds the other.)
ServerOutlives ==
    status = 4 =>
        /\ \A s \in Sockets : accept[s] = "none"
        /\ ~twice => \A i \in 1..Len(events) :
              LET h == events[i][1]
              IN  h # None /\ table[h] # None => sock[table[h]].kind # "server"

\* CloseServer() comes back, it is not for ever that the logic thread is in it: every
\* accept it cancelled counts itself out.
CloseServerReturns == []<>(logic \notin {"stopping", "sweeping"} \/ crashed)

\* A connection that is open can be reached by its handle, whether it was accepted,
\* dialled or dialled again: a completion that comes after the timeout gave the handle
\* back, or after a redial, does not open it behind the application's back.  That is not
\* so of one that found the pool empty, that CloseLink() met while it dialled (the dial
\* goes on), whose retry was cancelled (it dials all the same), or whose handle was put
\* back twice and is another's, too.
OpenReachable ==
    \A s \in Sockets :
        ~twice /\ sock[s].st = 1 /\ ~sock[s].stray => sock[s].handle = None \/ Up(s)

\* The session of a dial that is not to be repeated hears of it once: of a timeout or
\* of the completion that raced it, not of both.
ReportedOnce ==
    \A s \in Sockets : sock[s].kind = "dialled" /\ ~sock[s].opt.again => sock[s].told <= 1

Unreported(r) ==
    r.kind = "dialled" /\ r.opt.timeout /\ ~r.opt.again /\ r.told = 0

\* A dial with a timeout, not to be repeated, ends in a report to its session, however
\* completion and timeout race; so does the redial of a connection that was lost: for
\* no socket is it for ever that its session waits to hear of the present dial.
DialReported == \A s \in Sockets : []<>(~Unreported(sock[s]) \/ crashed)
=============================================================================
