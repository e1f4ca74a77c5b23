----------------------------- MODULE NetSocket -----------------------------
(***************************************************************************)
(* The life of one accepted connection: an asio_Socket from the moment     *)
(* asio_Server put its EVENT_PENDING on the queue of asio_SocketMgr.       *)
(*                                                                         *)
(* Who runs:                                                               *)
(*   Main     the logic thread, inside ProcessNetEvent -> Exec: it pops    *)
(*            events, accepts the socket, and calls the API in between;    *)
(*   Callers  every thread that calls SendPacket*/CloseLink on the handle  *)
(*            (Main is one of them);                                       *)
(*   Workers  the threads of CreateNetwork(workthreads), which run the     *)
(*            completion handlers of the io_service, any handler on any    *)
(*            idle worker and several at a time.                           *)
(*                                                                         *)
(* A step is one access to what the threads share: connect_status_,        *)
(* operator_count_, the buffer under send_buffer_guard_, the event queue,  *)
(* the handle table.  The socket has no connect_info_ (it was accepted),   *)
(* so `passive' and reconnecting play no part here.                        *)
(***************************************************************************)
EXTENDS Integers, Sequences, FiniteSets, NetBuffer

CONSTANTS
    Callers,      \* application threads that use the handle
    Main,         \* the one of them that runs Exec
    Workers,      \* io_service threads
    NoThread,     \* nobody holds send_buffer_guard_
    BufCap,       \* capacity of send_buffer_
    PacketMax,    \* send_packet_max_
    PartMax,      \* model bound: bytes in one part of a message
    QBound        \* model bound: no new traffic while this many events wait

Threads == Callers \cup Workers

ASSUME ThreadsAssumption ==
    /\ Main \in Callers
    /\ IsFiniteSet(Workers)
    /\ Callers \cap Workers = {}
    /\ NoThread \notin Threads

ASSUME SizesAssumption ==
    /\ BufCap \in Nat \ {0}
    /\ PacketMax \in Nat
    /\ PartMax \in Nat \ {0}
    /\ QBound \in Nat

VARIABLES
    status,   \* connect_status_: 1 connected, 2 waiting to close, 3 in transit, 0 closed
    opcount,  \* operator_count_: asynchronous operations accounted for
    open,     \* socket_.is_open()
    rd,       \* the outstanding async_read_some, or its queued completion
    wr,       \* the outstanding async_send, or its queued completion
    issued,   \* bytes handed to that async_send
    timer,    \* the keep-alive timer_
    sbuf,     \* send_buffer_
    lock,     \* holder of send_buffer_guard_
    evq,      \* event_queue_ of asio_SocketMgr, the events of this socket
    session,  \* what the INetworkSession has been told
    linked,   \* handles[handle_] still points to this socket
    freed,    \* how often LinkDown pushed the handle on free_handles
    pc        \* where each thread stands

sock == <<status, opcount, open>>
io == <<rd, wr, issued, timer>>
table == <<linked, freed>>
vars == <<status, opcount, open, rd, wr, issued, timer, sbuf, lock, evq,
          session, linked, freed, pc>>

RecvLabels == {"recv_first", "recv_more", "recv_drop"}
SentLabels == {"sent_err", "sent_lock", "sent_dec"}
CloseLabels == {"close_cas", "close_sock", "close_op", "close_cas3",
                "close_push", "close_zero", "close_op0", "close_st0",
                "link_chk", "link_null", "link_free"}
AcceptLabels == {"acc_nomem", "acc_push", "acc_read", "acc_timer"}
Labels == {"idle", "send_lock", "sent_chk", "tick_push"}
          \cup RecvLabels \cup SentLabels \cup CloseLabels \cup AcceptLabels

Events == {"PENDING", "ACCEPT", "DATA", "PING", "ERROR", "CLOSE"}

Init ==
    /\ status = 1
    /\ opcount = 0
    /\ open = TRUE
    /\ rd = "none"
    /\ wr = "none"
    /\ issued = 0
    /\ timer = "off"
    /\ sbuf = Fresh(BufCap)
    /\ lock = NoThread
    /\ evq = <<"PENDING">>
    /\ session = "none"
    /\ linked = TRUE
    /\ freed = 0
    /\ pc = [t \in Threads |-> "idle"]

Go(t, label) == pc' = [pc EXCEPT ![t] = label]

Push(e) == evq' = Append(evq, e)

\* The end of a call or a handler: the lock_guard, if any, is released.
Return(t) ==
    /\ Go(t, "idle")
    /\ lock' = IF lock = t THEN NoThread ELSE lock

-----------------------------------------------------------------------------
(* Exec: the logic thread hands one event to the session.                  *)

\* EVENT_PENDING of a socket that has already left the table.
DeliverStale ==
    /\ pc[Main] = "idle"
    /\ evq # <<>>
    /\ Head(evq) = "PENDING"
    /\ ~linked
    /\ evq' = Tail(evq)
    /\ UNCHANGED <<sock, io, sbuf, lock, session, table, pc>>

\* CreateSession() gave nothing: the socket is closed on the spot.
DeliverRefused ==
    /\ pc[Main] = "idle"
    /\ evq # <<>>
    /\ Head(evq) = "PENDING"
    /\ linked
    /\ evq' = Tail(evq)
    /\ Go(Main, "close_cas")
    /\ UNCHANGED <<sock, io, sbuf, lock, session, table>>

\* Mutant: accept() that starts to read without posting its event.
DeliverPendingUnposted ==
    /\ pc[Main] = "idle"
    /\ evq # <<>>
    /\ Head(evq) = "PENDING"
    /\ linked
    /\ evq' = Tail(evq)
    /\ session' = "created"
    /\ status' = 1
    /\ Go(Main, "acc_read")
    /\ UNCHANGED <<opcount, open, io, sbuf, lock, table>>

\* set_userdata(session) and the first statement of accept().
DeliverPending ==
    /\ pc[Main] = "idle"
    /\ evq # <<>>
    /\ Head(evq) = "PENDING"
    /\ linked
    /\ evq' = Tail(evq)
    /\ session' = "created"
    /\ status' = 1
    /\ \E label \in {"acc_push", "acc_nomem"} : Go(Main, label)
    /\ UNCHANGED <<opcount, open, io, sbuf, lock, table>>

\* Every other event is a callback of the session it carries; CLOSE of a
\* socket that never had a session is dropped by XGC_ASSERT_BREAK.
Deliver ==
    /\ pc[Main] = "idle"
    /\ evq # <<>>
    /\ Head(evq) # "PENDING"
    /\ evq' = Tail(evq)
    /\ session' = CASE Head(evq) = "ACCEPT" -> "open"
                    [] Head(evq) = "CLOSE" /\ session # "none" -> "closed"
                    [] OTHER -> session
    /\ UNCHANGED <<sock, io, sbuf, lock, table, pc>>

-----------------------------------------------------------------------------
(* accept( EVENT_ACCEPT ), on the logic thread.                            *)

\* A buffer could not be allocated: report it and close.
AcceptNoMemory ==
    /\ pc[Main] = "acc_nomem"
    /\ Push("ERROR")
    /\ Go(Main, "close_cas")
    /\ UNCHANGED <<sock, io, sbuf, lock, session, table>>

AcceptPush ==
    /\ pc[Main] = "acc_push"
    /\ Push("ACCEPT")
    /\ Go(Main, "acc_read")
    /\ UNCHANGED <<sock, io, sbuf, lock, session, table>>

\* Mutant: the read is not counted.
AcceptReadUncounted ==
    /\ pc[Main] = "acc_read"
    /\ rd' = "wait"
    /\ Go(Main, "acc_timer")
    /\ UNCHANGED <<sock, wr, issued, timer, sbuf, lock, evq, session, table>>

AcceptRead ==
    /\ pc[Main] = "acc_read"
    /\ opcount' = opcount + 1
    /\ rd' = "wait"
    /\ Go(Main, "acc_timer")
    /\ UNCHANGED <<status, open, wr, issued, timer, sbuf, lock, evq, session, table>>

AcceptTimer ==
    /\ pc[Main] = "acc_timer"
    /\ timer' = "armed"
    /\ Go(Main, "idle")
    /\ UNCHANGED <<sock, rd, wr, issued, sbuf, lock, evq, session, table>>

-----------------------------------------------------------------------------
(* The kernel completes operations; a completion waits for an idle worker. *)

RecvArrives ==
    /\ rd = "wait" /\ open /\ Len(evq) < QBound
    /\ rd' = "ok"
    /\ UNCHANGED <<sock, wr, issued, timer, sbuf, lock, evq, session, table, pc>>

RecvPeerGone ==
    /\ rd = "wait" /\ open
    /\ rd' = "err"
    /\ UNCHANGED <<sock, wr, issued, timer, sbuf, lock, evq, session, table, pc>>

RecvAborted ==
    /\ rd = "wait" /\ ~open
    /\ rd' = "err"
    /\ UNCHANGED <<sock, wr, issued, timer, sbuf, lock, evq, session, table, pc>>

SendCompletes ==
    /\ wr = "wait" /\ open
    /\ wr' \in {"ok", "err"}
    /\ UNCHANGED <<sock, rd, issued, timer, sbuf, lock, evq, session, table, pc>>

SendAborted ==
    /\ wr = "wait" /\ ~open
    /\ wr' = "err"
    /\ UNCHANGED <<sock, rd, issued, timer, sbuf, lock, evq, session, table, pc>>

TimerExpires ==
    /\ timer = "armed" /\ Len(evq) < QBound
    /\ timer' = "fired"
    /\ UNCHANGED <<sock, rd, wr, issued, sbuf, lock, evq, session, table, pc>>

-----------------------------------------------------------------------------
(* handle_recv                                                             *)

RecvHandler(w) ==
    /\ pc[w] = "idle"
    /\ rd \in {"ok", "err"}
    /\ rd' = "none"
    /\ Go(w, IF rd = "ok" THEN "recv_first" ELSE "recv_drop")
    /\ UNCHANGED <<sock, wr, issued, timer, sbuf, lock, evq, session, table>>

\* OnParsePacket announces more than recv_buffer_ can ever hold.
RecvTooLong(w) ==
    /\ pc[w] = "recv_first"
    /\ Push("ERROR")
    /\ Go(w, "recv_drop")
    /\ UNCHANGED <<sock, io, sbuf, lock, session, table>>

RecvPacket(w) ==
    /\ pc[w] \in {"recv_first", "recv_more"}
    /\ Len(evq) < QBound
    /\ Push("DATA")
    /\ Go(w, "recv_more")
    /\ UNCHANGED <<sock, io, sbuf, lock, session, table>>

\* No complete packet is left: read on, or give the operation up.
RecvAgain(w) ==
    /\ pc[w] \in {"recv_first", "recv_more"}
    /\ IF status = 1
       THEN rd' = "wait" /\ Go(w, "idle")
       ELSE rd' = rd /\ Go(w, "recv_drop")
    /\ UNCHANGED <<sock, wr, issued, timer, sbuf, lock, evq, session, table>>

\* Mutant: the read is given up without trying to close.
RecvDropSilent(w) ==
    /\ pc[w] = "recv_drop"
    /\ opcount' = opcount - 1
    /\ Go(w, "idle")
    /\ UNCHANGED <<status, open, io, sbuf, lock, evq, session, table>>

RecvDrop(w) ==
    /\ pc[w] = "recv_drop"
    /\ opcount' = opcount - 1
    /\ Go(w, "close_cas")
    /\ UNCHANGED <<status, open, io, sbuf, lock, evq, session, table>>

-----------------------------------------------------------------------------
(* send, handle_send                                                       *)

\* async_send of everything in b; a second one in flight would be "twice".
StartSend(b) ==
    /\ sbuf' = Compact(b, PacketMax)
    /\ opcount' = opcount + 1
    /\ wr' = IF wr = "none" THEN "wait" ELSE "twice"
    /\ issued' = b.len

\* Who may use the handle: Main walks the table at any time (CloseAll, Final),
\* the others have it from OnAccept.
HasHandle(t) == linked /\ (t = Main \/ session \in {"open", "closed"})

CallSend(t) ==
    /\ pc[t] = "idle"
    /\ HasHandle(t) /\ session \in {"open", "closed"} /\ Len(evq) < QBound
    /\ Go(t, "send_lock")
    /\ UNCHANGED <<sock, io, sbuf, lock, evq, session, table>>

\* Mutant: every message starts an async_send of its own.
SendFitsEach(t, h, n) ==
    /\ h + n <= Space(sbuf)
    /\ StartSend(Put(sbuf, h + n))
    /\ Go(t, "idle")
    /\ UNCHANGED <<status, open, rd, timer, lock, evq, session, table>>

\* send( data ) is the chain with an empty tail.
SendFits(t, h, n) ==
    /\ h + n <= Space(sbuf)
    /\ IF sbuf.len = 0
       THEN StartSend(Put(sbuf, h + n))
       ELSE sbuf' = Put(sbuf, h + n) /\ UNCHANGED <<opcount, wr, issued>>
    /\ Go(t, "idle")
    /\ UNCHANGED <<status, open, rd, timer, lock, evq, session, table>>

\* The part that does not fit ends the call: the head may stay in the buffer.
SendOverflows(t, h, n) ==
    /\ h + n > Space(sbuf)
    /\ sbuf' = Put(sbuf, h)
    /\ lock' = t
    /\ Push("ERROR")
    /\ Go(t, "close_cas")
    /\ UNCHANGED <<sock, io, session, table>>

Send(t) ==
    /\ pc[t] = "send_lock"
    /\ lock = NoThread
    /\ \E h \in 1..PartMax, n \in 0..PartMax :
          SendFits(t, h, n) \/ SendOverflows(t, h, n)

SentHandler(w) ==
    /\ pc[w] = "idle"
    /\ wr \in {"ok", "err"}
    /\ wr' = "none"
    /\ Go(w, IF wr = "ok" THEN "sent_lock" ELSE "sent_err")
    /\ UNCHANGED <<sock, rd, issued, timer, sbuf, lock, evq, session, table>>

SentError(w) ==
    /\ pc[w] = "sent_err"
    /\ opcount' = opcount - 1
    /\ Go(w, "close_cas")
    /\ UNCHANGED <<status, open, io, sbuf, lock, evq, session, table>>

\* Mutant: the follow-up send is not counted.
SentPopUncounted(w) ==
    /\ pc[w] = "sent_lock"
    /\ lock = NoThread
    /\ lock' = w
    /\ \E n \in 1..issued :
          LET b == Pop(sbuf, n)
          IN  IF status = 1 /\ b.len > 0
              THEN sbuf' = Compact(b, PacketMax) /\ wr' = "wait" /\ issued' = b.len
              ELSE sbuf' = b /\ UNCHANGED <<wr, issued>>
    /\ Go(w, "sent_dec")
    /\ UNCHANGED <<sock, rd, timer, evq, session, table>>

\* Mutant: what was put in the buffer meanwhile is not sent on.
SentPopOnly(w) ==
    /\ pc[w] = "sent_lock"
    /\ lock = NoThread
    /\ lock' = w
    /\ \E n \in 1..issued : sbuf' = Pop(sbuf, n)
    /\ Go(w, "sent_dec")
    /\ UNCHANGED <<sock, io, evq, session, table>>

\* async_send may have taken only some of the bytes; what is left, or was
\* put meanwhile, goes out with the next one.
SentPop(w) ==
    /\ pc[w] = "sent_lock"
    /\ lock = NoThread
    /\ lock' = w
    /\ \E n \in 1..issued :
          LET b == Pop(sbuf, n)
          IN  IF status = 1 /\ b.len > 0
              THEN StartSend(b)
              ELSE sbuf' = b /\ UNCHANGED <<opcount, wr, issued>>
    /\ Go(w, "sent_dec")
    /\ UNCHANGED <<status, open, rd, timer, evq, session, table>>

SentDec(w) ==
    /\ pc[w] = "sent_dec"
    /\ opcount' = opcount - 1
    /\ Go(w, "sent_chk")
    /\ UNCHANGED <<status, open, io, sbuf, lock, evq, session, table>>

\* Mutant: the last operation of a socket waiting to close just returns.
SentCheckReturns(w) ==
    /\ pc[w] = "sent_chk"
    /\ Return(w)
    /\ UNCHANGED <<sock, io, sbuf, evq, session, table>>

SentCheck(w) ==
    /\ pc[w] = "sent_chk"
    /\ IF status = 2 THEN Go(w, "close_cas") /\ lock' = lock ELSE Return(w)
    /\ UNCHANGED <<sock, io, sbuf, evq, session, table>>

-----------------------------------------------------------------------------
(* handle_timer.  A cancelled wait also runs the handler, which then finds *)
(* connect_status_ # 1 and returns: it is left out.                        *)

TimerHandler(w) ==
    /\ pc[w] = "idle"
    /\ timer = "fired"
    /\ timer' = "off"
    /\ IF status = 1 /\ open THEN Go(w, "tick_push") ELSE pc' = pc
    /\ UNCHANGED <<sock, rd, wr, issued, sbuf, lock, evq, session, table>>

TimerPing(w) ==
    /\ pc[w] = "tick_push"
    /\ Push("PING")
    /\ timer' = "armed"
    /\ Go(w, "idle")
    /\ UNCHANGED <<sock, rd, wr, issued, sbuf, lock, session, table>>

-----------------------------------------------------------------------------
(* close and LinkDown, by whichever thread got there                       *)

CallClose(t) ==
    /\ pc[t] = "idle"
    /\ HasHandle(t)
    /\ Go(t, "close_cas")
    /\ UNCHANGED <<sock, io, sbuf, lock, evq, session, table>>

CloseCas(t) ==
    /\ pc[t] = "close_cas"
    /\ IF status = 1
       THEN status' = 2 /\ Go(t, "close_sock")
       ELSE status' = status /\ Go(t, "close_op")
    /\ UNCHANGED <<opcount, open, io, sbuf, lock, evq, session, table>>

CloseSock(t) ==
    /\ pc[t] = "close_sock"
    /\ timer' = IF timer = "armed" THEN "off" ELSE timer
    /\ open' = FALSE
    /\ Go(t, "close_op")
    /\ UNCHANGED <<status, opcount, rd, wr, issued, sbuf, lock, evq, session, table>>

\* Mutant: CLOSE is posted with operations still outstanding.
CloseOpBlind(t) ==
    /\ pc[t] = "close_op"
    /\ Go(t, "close_cas3")
    /\ UNCHANGED <<sock, io, sbuf, lock, evq, session, table>>

CloseOp(t) ==
    /\ pc[t] = "close_op"
    /\ Go(t, IF opcount = 0 THEN "close_cas3" ELSE "close_op0")
    /\ UNCHANGED <<sock, io, sbuf, lock, evq, session, table>>

\* Mutant: status 2 is tested, not exchanged for 3.
CloseTest2(t) ==
    /\ pc[t] = "close_cas3"
    /\ Go(t, IF status = 2 THEN "close_push" ELSE "close_op0")
    /\ UNCHANGED <<sock, io, sbuf, lock, evq, session, table>>

CloseCas3(t) ==
    /\ pc[t] = "close_cas3"
    /\ IF status = 2
       THEN status' = 3 /\ Go(t, "close_push")
       ELSE status' = status /\ Go(t, "close_op0")
    /\ UNCHANGED <<opcount, open, io, sbuf, lock, evq, session, table>>

ClosePush(t) ==
    /\ pc[t] = "close_push"
    /\ Push("CLOSE")
    /\ Go(t, "close_zero")
    /\ UNCHANGED <<sock, io, sbuf, lock, session, table>>

\* Mutant: close() ends with the CLOSE event, without LinkDown.
CloseZeroOnly(t) ==
    /\ pc[t] = "close_zero"
    /\ status' = 0
    /\ Return(t)
    /\ UNCHANGED <<opcount, open, io, sbuf, evq, session, table>>

CloseZero(t) ==
    /\ pc[t] = "close_zero"
    /\ status' = 0
    /\ Go(t, "close_op0")
    /\ UNCHANGED <<opcount, open, io, sbuf, lock, evq, session, table>>

CloseOp0(t) ==
    /\ pc[t] = "close_op0"
    /\ IF opcount = 0 THEN Go(t, "close_st0") /\ lock' = lock ELSE Return(t)
    /\ UNCHANGED <<sock, io, sbuf, evq, session, table>>

CloseSt0(t) ==
    /\ pc[t] = "close_st0"
    /\ IF status = 0 THEN Go(t, "link_chk") /\ lock' = lock ELSE Return(t)
    /\ UNCHANGED <<sock, io, sbuf, evq, session, table>>

LinkCheck(t) ==
    /\ pc[t] = "link_chk"
    /\ IF linked THEN Go(t, "link_null") /\ lock' = lock ELSE Return(t)
    /\ UNCHANGED <<sock, io, sbuf, evq, session, table>>

LinkNull(t) ==
    /\ pc[t] = "link_null"
    /\ linked' = FALSE
    /\ Go(t, "link_free")
    /\ UNCHANGED <<sock, io, sbuf, lock, evq, session, freed>>

LinkFree(t) ==
    /\ pc[t] = "link_free"
    /\ freed' = freed + 1
    /\ Return(t)
    /\ UNCHANGED <<sock, io, sbuf, evq, session, linked>>

-----------------------------------------------------------------------------
Exec == DeliverStale \/ DeliverRefused \/ DeliverPending \/ Deliver

Accept == AcceptNoMemory \/ AcceptPush \/ AcceptRead \/ AcceptTimer

Kernel ==
    \/ RecvArrives \/ RecvPeerGone \/ RecvAborted
    \/ SendCompletes \/ SendAborted \/ TimerExpires

Call(t) == CallSend(t) \/ CallClose(t)

Close(t) ==
    \/ CloseCas(t) \/ CloseSock(t) \/ CloseOp(t) \/ CloseCas3(t)
    \/ ClosePush(t) \/ CloseZero(t) \/ CloseOp0(t) \/ CloseSt0(t)
    \/ LinkCheck(t) \/ LinkNull(t) \/ LinkFree(t)

Handler(w) == RecvHandler(w) \/ SentHandler(w) \/ TimerHandler(w)

HandlerStep(w) ==
    \/ RecvTooLong(w) \/ RecvAgain(w) \/ RecvDrop(w)
    \/ SentError(w) \/ SentPop(w) \/ SentDec(w) \/ SentCheck(w)
    \/ TimerPing(w)

\* The connection is over: every thread is home and nothing is outstanding.
\* Any other state without a step is a deadlock.
Over ==
    /\ \A t \in Threads : pc[t] = "idle"
    /\ ~linked /\ evq = <<>> /\ opcount = 0 /\ timer # "fired"
    /\ UNCHANGED vars

Next ==
    \/ Exec \/ Accept \/ Kernel \/ Over
    \/ \E t \in Callers : Call(t) \/ Send(t)
    \/ \E w \in Workers : Handler(w) \/ HandlerStep(w) \/ RecvPacket(w)
    \/ \E t \in Threads : Close(t)

Spec == Init /\ [][Next]_vars

\* Liveness rests on this much of the scheduling: the logic loop comes back to
\* Exec after a callback's calls; no thread stalls inside a call or a handler,
\* or waits for send_buffer_guard_ for ever, and one read holds finitely many
\* packets (RecvPacket alone is not fair); the kernel fails the operations of
\* a closed socket; a queued completion is picked up.
Fairness ==
    /\ SF_vars(Exec)
    /\ WF_vars(Accept)
    /\ \A t \in Callers : SF_vars(Send(t) \/ Close(t))
    /\ \A w \in Workers : SF_vars(HandlerStep(w) \/ Close(w))
    /\ WF_vars(RecvAborted) /\ WF_vars(SendAborted)
    /\ SF_vars(\E w \in Workers : RecvHandler(w))
    /\ SF_vars(\E w \in Workers : SentHandler(w))

FairSpec == Spec /\ Fairness
-----------------------------------------------------------------------------
(* Properties                                                              *)

Types ==
    /\ status \in 0..3
    /\ opcount \in Int
    /\ open \in BOOLEAN
    /\ rd \in {"none", "wait", "ok", "err"}
    /\ wr \in {"none", "wait", "ok", "err", "twice"}
    /\ issued \in 0..BufCap
    /\ timer \in {"off", "armed", "fired"}
    /\ sbuf \in Buffer(BufCap)
    /\ lock \in Threads \cup {NoThread}
    /\ evq \in Seq(Events)
    /\ session \in {"none", "created", "open", "closed"}
    /\ linked \in BOOLEAN
    /\ freed \in Nat
    /\ pc \in [Threads -> Labels]

\* Every variable stays in its type, the send buffer within its allocation,
\* and opcount is a natural number: operator_count_ is an atomic_ushort, and
\* one decrement too many would make it 65535 and keep the socket from ever
\* closing.
TypeOK == Types /\ Sound(sbuf) /\ opcount \in Nat

\* The handlers that have not yet given their operation up.
Handlers == {w \in Workers : pc[w] \in RecvLabels \cup SentLabels}

Outstanding(op) == IF op = "none" THEN 0 ELSE 1

\* operator_count_ is exact at every step of every thread: it counts the
\* outstanding operations and completions and the handlers at work, and so it
\* is zero if and only if none is left that could touch the socket.
OpCountExact ==
    opcount = Cardinality(Handlers) + Outstanding(rd) + Outstanding(wr)

\* What CLOSE means to a session: OnRecv is never called after OnClose.
NoDataAfterClose ==
    /\ \A i, j \in 1..Len(evq) : evq[i] = "CLOSE" /\ evq[j] = "DATA" => j < i
    /\ session = "closed" => \A i \in 1..Len(evq) : evq[i] # "DATA"

\* OnClose is reported once, whoever closes and however often.
CloseOnce ==
    /\ \A i, j \in 1..Len(evq) : evq[i] = "CLOSE" /\ evq[j] = "CLOSE" => i = j
    /\ session = "closed" => \A i \in 1..Len(evq) : evq[i] # "CLOSE"

\* The send buffer is compacted and handed to the kernel only while no other
\* async_send reads from it.
SingleWriter == wr # "twice"

\* No byte is stranded: while connected, buffered bytes have an async_send in
\* flight, a handler about to start one, or a thread about to close.
BytesInFlight ==
    status = 1 /\ sbuf.len > 0 =>
        \/ wr # "none"
        \/ \E w \in Workers : pc[w] \in {"sent_err", "sent_lock"}
        \/ \E t \in Threads : pc[t] = "close_cas"

\* A closed connection that no thread works for any more has left the handle
\* table: nobody is left who would take it out.  It rests on LinkDown being
\* reached by whoever drops operator_count_ to zero last, and it holds as long
\* as only the logic thread sends (close() re-reads operator_count_ at 510
\* after it wrote connect_status_, and a sender may count up in between).
NotStranded ==
    status = 0 /\ opcount = 0 /\ (\A t \in Threads : pc[t] = "idle") => ~linked

\* The socket's threads keep the promise of SessionProtocol.
Promise == INSTANCE SessionProtocol WITH queue <- evq
KeepsPromise == Promise!Spec

\* OnClose is the last call a session gets: the sessions of sample/chat delete
\* themselves in it (chat_gate/CliSession.cpp:60), and every event carries a
\* plain pointer to its session.
CloseIsLast ==
    /\ \A i \in 1..Len(evq) : evq[i] = "CLOSE" => i = Len(evq)
    /\ session = "closed" => evq = <<>>

\* free_handles holds unallocated handles (asio_SocketMgr.h:181), so a handle
\* goes back to it once.
HandleFreedOnce == freed <= 1

\* A lost peer or a close ends in OnClose for a session that was created, ...
CloseReported ==
    (rd = "err" \/ status = 2) /\ session # "none" ~> session = "closed"

\* ... and in the handle's return to the pool, session or not.
HandleReleased == rd = "err" \/ status = 2 ~> freed > 0
=============================================================================
