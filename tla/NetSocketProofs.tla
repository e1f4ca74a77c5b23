-------------------------- MODULE NetSocketProofs --------------------------
(***************************************************************************)
(* Proofs about NetSocket, for any number of callers, workers, any buffer  *)
(* capacity and packet size.                                               *)
(***************************************************************************)
EXTENDS NetSocket, NetBufferProofs, FiniteSetTheorems, SequenceTheorems

-----------------------------------------------------------------------------
(* Types                                                                   *)

TypeInv == Types /\ Sound(sbuf)

\* The logic thread and the workers are threads.
LEMMA ThreadsInTypes == Main \in Threads /\ Callers \subseteq Threads /\ Workers \subseteq Threads
BY ThreadsAssumption DEF Threads

\* Push leaves a sequence of events.
LEMMA PushType ==
    ASSUME evq \in Seq(Events), NEW e \in Events, Push(e)
    PROVE  evq' \in Seq(Events)
BY DEF Push

\* What Kick() leaves is a sequence of events.
LEMMA TailType ==
    ASSUME evq \in Seq(Events), evq # <<>>, evq' = Tail(evq)
    PROVE  evq' \in Seq(Events)
BY HeadTailProperties

\* A thread goes from label to label.
LEMMA GoType ==
    ASSUME pc \in [Threads -> Labels], NEW t \in Threads, NEW l \in Labels, Go(t, l)
    PROVE  pc' \in [Threads -> Labels]
BY DEF Go

\* A freshly accepted socket has its types.
LEMMA InitTypes == Init => TypeInv
BY SizesAssumption
   DEF Init, TypeInv, Types, Fresh, Buffer, Sound, Events, Labels

\* So it has after every kind of step: Exec hands out an event, ...
LEMMA ExecTypes == TypeInv /\ Exec => TypeInv'
<1> SUFFICES ASSUME TypeInv, Exec PROVE TypeInv'
  OBVIOUS
<1> USE ThreadsInTypes DEF TypeInv, Types
<1>1. evq # <<>> /\ evq' = Tail(evq) /\ sbuf' = sbuf
  BY DEF Exec, DeliverStale, DeliverRefused, DeliverPending, Deliver
<1>2. evq' \in Seq(Events)
  BY <1>1, TailType
<1>3. pc' \in [Threads -> Labels]
  BY DEF Exec, DeliverStale, DeliverRefused, DeliverPending, Deliver, Go,
         Labels, CloseLabels, AcceptLabels
<1> QED
  BY <1>1, <1>2, <1>3
     DEF Exec, DeliverStale, DeliverRefused, DeliverPending, Deliver,
         sock, io, table, Sound

\* ... accept() runs, ...
LEMMA AcceptTypes == TypeInv /\ Accept => TypeInv'
<1> SUFFICES ASSUME TypeInv, Accept PROVE TypeInv'
  OBVIOUS
<1> USE ThreadsInTypes DEF TypeInv, Types
<1>1. evq' \in Seq(Events)
  BY PushType DEF Accept, AcceptNoMemory, AcceptPush, AcceptRead, AcceptTimer, Events
<1>2. pc' \in [Threads -> Labels]
  BY DEF Accept, AcceptNoMemory, AcceptPush, AcceptRead, AcceptTimer, Go,
         Labels, CloseLabels, AcceptLabels
<1> QED
  BY <1>1, <1>2
     DEF Accept, AcceptNoMemory, AcceptPush, AcceptRead, AcceptTimer,
         sock, io, table, Sound

\* ... the kernel completes an operation or the timer expires, ...
LEMMA KernelTypes == TypeInv /\ Kernel => TypeInv'
<1> SUFFICES ASSUME TypeInv, Kernel PROVE TypeInv'
  OBVIOUS
<1>1. UNCHANGED <<sock, issued, sbuf, lock, evq, session, table, pc>>
  BY DEF Kernel, RecvArrives, RecvPeerGone, RecvAborted,
         SendCompletes, SendAborted, TimerExpires
<1>2. /\ rd' \in {"none", "wait", "ok", "err"}
      /\ wr' \in {"none", "wait", "ok", "err", "twice"}
      /\ timer' \in {"off", "armed", "fired"}
  BY DEF TypeInv, Types, Kernel, RecvArrives, RecvPeerGone, RecvAborted,
         SendCompletes, SendAborted, TimerExpires
<1> QED
  BY <1>1, <1>2 DEF TypeInv, Types, sock, table, Sound

\* ... an application thread calls SendPacket or CloseLink, ...
LEMMA CallTypes == TypeInv /\ (\E t \in Callers : Call(t)) => TypeInv'
<1> SUFFICES ASSUME TypeInv, NEW t \in Callers, Call(t) PROVE TypeInv'
  OBVIOUS
<1>1. pc' \in [Threads -> Labels]
  BY ThreadsInTypes
     DEF TypeInv, Types, Call, CallSend, CallClose, Go, Labels, CloseLabels
<1> QED
  BY <1>1 DEF TypeInv, Types, Call, CallSend, CallClose, sock, io, table, Sound

\* What starting an async_send leaves behind.
LEMMA StartSendTypes ==
    ASSUME TypeInv, NEW b \in Buffer(BufCap), Sound(b), StartSend(b)
    PROVE  /\ sbuf' \in Buffer(BufCap) /\ Sound(sbuf') /\ sbuf'.len = b.len
           /\ issued' \in 0..BufCap /\ issued' = b.len
           /\ opcount' = opcount + 1
           /\ opcount' \in Int
           /\ wr' = IF wr = "none" THEN "wait" ELSE "twice"
<1>1. /\ Compact(b, PacketMax) \in Buffer(BufCap)
      /\ Sound(Compact(b, PacketMax))
      /\ Compact(b, PacketMax).len = b.len
  BY CompactSound, SizesAssumption
<1>2. b.len \in 0..BufCap
  BY DEF Buffer
<1> QED
  BY <1>1, <1>2 DEF StartSend, TypeInv, Types

\* What a message leaves in the buffer: nothing is taken out, and it starts an
\* async_send if and only if it fits and finds the buffer empty.
LEMMA SendEffect ==
    ASSUME TypeInv, NEW t \in Callers, Send(t)
    PROVE  /\ sbuf' \in Buffer(BufCap) /\ Sound(sbuf') /\ sbuf'.len >= sbuf.len
           /\ pc[t] = "send_lock" /\ lock = NoThread
           /\ \/ /\ sbuf.len = 0
                 /\ opcount' = opcount + 1
                 /\ wr' = IF wr = "none" THEN "wait" ELSE "twice"
                 /\ issued' = sbuf'.len /\ issued' \in 1..BufCap
                 /\ Go(t, "idle") /\ UNCHANGED <<evq, lock>>
              \/ /\ UNCHANGED <<opcount, wr, issued>>
                 /\ Go(t, "idle") /\ UNCHANGED <<evq, lock>>
                 /\ sbuf.len > 0
              \/ /\ UNCHANGED <<opcount, wr, issued>>
                 /\ Go(t, "close_cas") /\ Push("ERROR") /\ lock' = t
           /\ UNCHANGED <<status, open, rd, timer, session, table>>
<1>1. PICK h \in 1..PartMax, n \in 0..PartMax : SendFits(t, h, n) \/ SendOverflows(t, h, n)
  BY DEF Send
<1>2. h \in Nat \ {0} /\ n \in Nat /\ h + n \in Nat \ {0}
  BY SizesAssumption
<1>3. sbuf \in Buffer(BufCap) /\ Sound(sbuf) /\ sbuf.len \in Nat /\ BufCap \in Nat
  BY SizesAssumption DEF TypeInv, Types, Buffer
<1>4. pc[t] = "send_lock" /\ lock = NoThread
  BY DEF Send
<1>5. CASE SendFits(t, h, n)
  <2>1. /\ Put(sbuf, h + n) \in Buffer(BufCap)
        /\ Sound(Put(sbuf, h + n))
        /\ Put(sbuf, h + n).len = sbuf.len + (h + n)
    BY <1>2, <1>3, <1>5, PutSound DEF SendFits
  <2>2. CASE sbuf.len = 0
    <3>1. StartSend(Put(sbuf, h + n))
      BY <1>5, <2>2 DEF SendFits
    <3>2. /\ sbuf' \in Buffer(BufCap) /\ Sound(sbuf') /\ sbuf'.len = sbuf.len + (h + n)
          /\ issued' \in 0..BufCap /\ issued' = sbuf.len + (h + n)
          /\ opcount' = opcount + 1
          /\ wr' = IF wr = "none" THEN "wait" ELSE "twice"
      BY <2>1, <3>1, StartSendTypes
    <3> QED
      BY <1>2, <1>3, <1>4, <1>5, <2>2, <3>2 DEF SendFits, table
  <2>3. CASE sbuf.len # 0
    <3>1. sbuf' = Put(sbuf, h + n) /\ UNCHANGED <<opcount, wr, issued>>
      BY <1>5, <2>3 DEF SendFits
    <3>2. sbuf.len > 0
      BY <1>3, <2>3
    <3>3. sbuf' \in Buffer(BufCap) /\ Sound(sbuf') /\ sbuf'.len >= sbuf.len
      BY <1>2, <1>3, <2>1, <3>1
    <3> QED
      BY <1>4, <1>5, <3>1, <3>2, <3>3 DEF SendFits, table
  <2> QED
    BY <2>2, <2>3
<1>6. CASE SendOverflows(t, h, n)
  <2>1. sbuf' = Put(sbuf, h)
    BY <1>6 DEF SendOverflows
  <2>2. /\ Put(sbuf, h) \in Buffer(BufCap)
        /\ Sound(Put(sbuf, h))
        /\ Put(sbuf, h).len = IF h <= Space(sbuf) THEN sbuf.len + h ELSE sbuf.len
    BY <1>2, <1>3, PutSound
  <2>3. sbuf' \in Buffer(BufCap) /\ Sound(sbuf') /\ sbuf'.len >= sbuf.len
    BY <1>2, <1>3, <2>1, <2>2
  <2> QED
    BY <1>4, <1>6, <2>3 DEF SendOverflows, sock, io, table
<1> QED
  BY <1>1, <1>5, <1>6

\* ... send() puts a message into the buffer, ...
LEMMA SendTypes == TypeInv /\ (\E t \in Callers : Send(t)) => TypeInv'
<1> SUFFICES ASSUME TypeInv, NEW t \in Callers, Send(t) PROVE TypeInv'
  OBVIOUS
<1>1. /\ sbuf' \in Buffer(BufCap) /\ Sound(sbuf')
      /\ opcount' \in Int
      /\ wr' \in {"none", "wait", "ok", "err", "twice"}
      /\ issued' \in 0..BufCap
      /\ lock' \in Threads \cup {NoThread}
      /\ UNCHANGED <<status, open, rd, timer, session, table>>
  BY SendEffect, ThreadsInTypes, SizesAssumption DEF TypeInv, Types
<1>2. evq' \in Seq(Events)
  BY SendEffect, PushType DEF TypeInv, Types, Events
<1>3. pc' \in [Threads -> Labels]
  BY SendEffect, GoType, ThreadsInTypes DEF TypeInv, Types, Labels, CloseLabels
<1> QED
  BY <1>1, <1>2, <1>3 DEF TypeInv, Types, table

\* What handle_send does to the buffer: it takes the bytes the kernel took, and
\* sends on what is left if it may.
LEMMA SentPopEffect ==
    ASSUME TypeInv, NEW w \in Workers, SentPop(w)
    PROVE  /\ pc[w] = "sent_lock" /\ lock = NoThread /\ lock' = w
           /\ sbuf' \in Buffer(BufCap) /\ Sound(sbuf')
           /\ \/ /\ opcount' = opcount + 1
                 /\ wr' = IF wr = "none" THEN "wait" ELSE "twice"
                 /\ issued' = sbuf'.len /\ issued' \in 1..BufCap
                 /\ status = 1
              \/ /\ UNCHANGED <<opcount, wr, issued>>
                 /\ status = 1 => sbuf'.len = 0
           /\ Go(w, "sent_dec")
           /\ UNCHANGED <<status, open, rd, timer, evq, session, table>>
<1>1. PICK n \in 1..issued :
         LET b == Pop(sbuf, n)
         IN  IF status = 1 /\ b.len > 0
             THEN StartSend(b)
             ELSE sbuf' = b /\ UNCHANGED <<opcount, wr, issued>>
  BY DEF SentPop
<1> DEFINE b == Pop(sbuf, n)
<1>2. n \in Nat /\ BufCap \in Nat
  BY SizesAssumption DEF TypeInv, Types
<1>3. b \in Buffer(BufCap) /\ Sound(b) /\ b.len \in 0..BufCap
  BY <1>2, PopSound DEF TypeInv, Types, Buffer
<1>4. /\ pc[w] = "sent_lock" /\ lock = NoThread /\ lock' = w
      /\ Go(w, "sent_dec")
      /\ UNCHANGED <<status, open, rd, timer, evq, session, table>>
  BY DEF SentPop, table
<1> HIDE DEF b
<1>5. CASE status = 1 /\ b.len > 0
  <2>1. StartSend(b)
    BY <1>1, <1>5 DEF b
  <2> QED
    BY <1>2, <1>3, <1>4, <1>5, <2>1, StartSendTypes
<1>6. CASE ~(status = 1 /\ b.len > 0)
  <2>1. sbuf' = b /\ UNCHANGED <<opcount, wr, issued>>
    BY <1>1, <1>6 DEF b
  <2> QED
    BY <1>3, <1>4, <1>6, <2>1
<1> QED
  BY <1>5, <1>6

\* ... a worker picks up a completion, ...
LEMMA HandlerTypes == TypeInv /\ (\E w \in Workers : Handler(w)) => TypeInv'
<1> SUFFICES ASSUME TypeInv, NEW w \in Workers, Handler(w) PROVE TypeInv'
  OBVIOUS
<1>1. pc' \in [Threads -> Labels]
  BY ThreadsInTypes
     DEF TypeInv, Types, Handler, RecvHandler, SentHandler, TimerHandler, Go,
         Labels, RecvLabels, SentLabels
<1> QED
  BY <1>1
     DEF TypeInv, Types, Handler, RecvHandler, SentHandler, TimerHandler,
         sock, table, Sound

\* ... works on it, ...
LEMMA HandlerStepTypes ==
    TypeInv /\ (\E w \in Workers : HandlerStep(w) \/ RecvPacket(w)) => TypeInv'
<1> SUFFICES ASSUME TypeInv, NEW w \in Workers, HandlerStep(w) \/ RecvPacket(w)
             PROVE  TypeInv'
  OBVIOUS
<1>1. CASE SentPop(w)
  <2>1. pc' \in [Threads -> Labels]
    BY <1>1, SentPopEffect, GoType, ThreadsInTypes DEF TypeInv, Types, Labels, SentLabels
  <2> QED
    BY <1>1, <2>1, SentPopEffect, ThreadsInTypes, SizesAssumption DEF TypeInv, Types, table
<1>2. CASE RecvTooLong(w) \/ RecvAgain(w) \/ RecvDrop(w) \/ SentError(w)
           \/ SentDec(w) \/ SentCheck(w) \/ TimerPing(w) \/ RecvPacket(w)
  <2> USE ThreadsInTypes DEF TypeInv, Types
  <2>1. evq' \in Seq(Events)
    BY <1>2, PushType
       DEF RecvTooLong, RecvAgain, RecvDrop, SentError, SentDec, SentCheck,
           TimerPing, RecvPacket, Events
  <2>2. pc' \in [Threads -> Labels]
    BY <1>2
       DEF RecvTooLong, RecvAgain, RecvDrop, SentError, SentDec, SentCheck,
           TimerPing, RecvPacket, Go, Return, Labels, RecvLabels, SentLabels, CloseLabels
  <2>3. sbuf' = sbuf /\ opcount' \in Int /\ timer' \in {"off", "armed", "fired"}
    BY <1>2
       DEF RecvTooLong, RecvAgain, RecvDrop, SentError, SentDec, SentCheck,
           TimerPing, RecvPacket, sock, io
  <2>4. /\ rd' \in {"none", "wait", "ok", "err"}
        /\ lock' \in Threads \cup {NoThread}
        /\ UNCHANGED <<status, open, wr, issued, session, table>>
    BY <1>2
       DEF RecvTooLong, RecvAgain, RecvDrop, SentError, SentDec, SentCheck,
           TimerPing, RecvPacket, Return, sock, io
  <2> QED
    BY <2>1, <2>2, <2>3, <2>4 DEF table, Sound
<1> QED
  BY <1>1, <1>2 DEF HandlerStep

\* What close() and LinkDown never touch, whoever runs them.
LEMMA CloseFrame ==
    ASSUME NEW t \in Threads, Close(t)
    PROVE  UNCHANGED <<opcount, rd, wr, issued, sbuf, session>>
<1>1. CASE CloseCas(t) \/ CloseSock(t) \/ CloseOp(t) \/ CloseCas3(t) \/ CloseZero(t)
  BY <1>1 DEF CloseCas, CloseSock, CloseOp, CloseCas3, CloseZero, sock, io
<1>2. CASE ClosePush(t) \/ CloseOp0(t) \/ CloseSt0(t)
           \/ LinkCheck(t) \/ LinkNull(t) \/ LinkFree(t)
  BY <1>2 DEF ClosePush, CloseOp0, CloseSt0, LinkCheck, LinkNull, LinkFree, sock, io
<1> QED
  BY <1>1, <1>2 DEF Close

\* ... a thread closes the socket or takes it out of the table, ...
LEMMA CloseTypes == TypeInv /\ (\E t \in Threads : Close(t)) => TypeInv'
<1> SUFFICES ASSUME TypeInv, NEW t \in Threads, Close(t) PROVE TypeInv'
  OBVIOUS
<1>1. CASE CloseCas(t) \/ CloseSock(t) \/ CloseOp(t) \/ CloseCas3(t) \/ CloseZero(t)
  <2>1. pc' \in [Threads -> Labels]
    BY <1>1
       DEF TypeInv, Types, CloseCas, CloseSock, CloseOp, CloseCas3, CloseZero,
           Go, Labels, CloseLabels
  <2>2. /\ status' \in 0..3 /\ open' \in BOOLEAN /\ timer' \in {"off", "armed", "fired"}
        /\ UNCHANGED <<lock, evq, table>>
    <3>1. CASE CloseCas(t) BY <3>1 DEF TypeInv, Types, CloseCas, io
    <3>2. CASE CloseSock(t) BY <3>2 DEF TypeInv, Types, CloseSock
    <3>3. CASE CloseOp(t) BY <3>3 DEF TypeInv, Types, CloseOp, sock, io
    <3>4. CASE CloseCas3(t) BY <3>4 DEF TypeInv, Types, CloseCas3, io
    <3>5. CASE CloseZero(t) BY <3>5 DEF TypeInv, Types, CloseZero, io
    <3> QED BY <1>1, <3>1, <3>2, <3>3, <3>4, <3>5
  <2> QED
    BY <2>1, <2>2, CloseFrame DEF TypeInv, Types, table, Sound
<1>2. CASE ClosePush(t) \/ CloseOp0(t) \/ CloseSt0(t)
           \/ LinkCheck(t) \/ LinkNull(t) \/ LinkFree(t)
  <2>1. pc' \in [Threads -> Labels]
    BY <1>2
       DEF TypeInv, Types, ClosePush, CloseOp0, CloseSt0, LinkCheck, LinkNull,
           LinkFree, Go, Return, Labels, CloseLabels
  <2>2. evq' \in Seq(Events)
    BY <1>2, PushType
       DEF TypeInv, Types, ClosePush, CloseOp0, CloseSt0, LinkCheck, LinkNull,
           LinkFree, Events
  <2>3. /\ lock' \in Threads \cup {NoThread}
        /\ linked' \in BOOLEAN /\ freed' \in Nat
        /\ UNCHANGED <<status, open, timer>>
    <3>1. CASE ClosePush(t) BY <3>1 DEF TypeInv, Types, ClosePush, sock, io, table
    <3>2. CASE CloseOp0(t) BY <3>2 DEF TypeInv, Types, CloseOp0, Return, sock, io, table
    <3>3. CASE CloseSt0(t) BY <3>3 DEF TypeInv, Types, CloseSt0, Return, sock, io, table
    <3>4. CASE LinkCheck(t) BY <3>4 DEF TypeInv, Types, LinkCheck, Return, sock, io, table
    <3>5. CASE LinkNull(t) BY <3>5 DEF TypeInv, Types, LinkNull, sock, io
    <3>6. CASE LinkFree(t) BY <3>6 DEF TypeInv, Types, LinkFree, Return, sock, io
    <3> QED BY <1>2, <3>1, <3>2, <3>3, <3>4, <3>5, <3>6
  <2> QED
    BY <2>1, <2>2, <2>3, CloseFrame DEF TypeInv, Types, Sound
<1> QED
  BY <1>1, <1>2 DEF Close

\* ... or nothing happens here.
LEMMA StutterTypes == TypeInv /\ UNCHANGED vars => TypeInv'
BY DEF TypeInv, Types, vars, Sound

\* Types are inductive by themselves.
LEMMA TypesStep == TypeInv /\ [Next]_vars => TypeInv'
BY ExecTypes, AcceptTypes, KernelTypes, CallTypes, SendTypes, HandlerTypes,
   HandlerStepTypes, CloseTypes, StutterTypes DEF Next, Over

-----------------------------------------------------------------------------
(* Before the first read: from the post of EVENT_PENDING until accept() has *)
(* issued it, only the logic thread can do anything with the socket.        *)

Waiting(e) == \E i \in 1..Len(evq) : evq[i] = e

PendingFirst == \A i \in 1..Len(evq) : evq[i] = "PENDING" => i = 1

Accepting == pc[Main] \in {"acc_nomem", "acc_push", "acc_read"}

Early == Waiting("PENDING") \/ Accepting

Quiet ==
    /\ rd = "none" /\ wr = "none" /\ timer = "off"
    /\ session \in {"none", "created"}
    /\ \A t \in Threads : t # Main => pc[t] = "idle"

EarlyInv ==
    /\ PendingFirst
    /\ Waiting("PENDING") => pc[Main] \in {"idle"} \cup CloseLabels
    /\ Early => Quiet

\* A pushed event is waiting, and everything that was still is.
LEMMA PushWaiting ==
    ASSUME evq \in Seq(Events), NEW e \in Events, Push(e)
    PROVE  /\ Len(evq') = Len(evq) + 1
           /\ \A i \in 1..Len(evq) : evq'[i] = evq[i]
           /\ evq'[Len(evq) + 1] = e
           /\ \A x : Waiting(x)' <=> Waiting(x) \/ x = e
<1>1. /\ Len(evq') = Len(evq) + 1
      /\ \A i \in 1..Len(evq) : evq'[i] = evq[i]
      /\ evq'[Len(evq) + 1] = e
      /\ Len(evq) \in Nat
  BY DEF Push
<1> QED
  BY <1>1 DEF Waiting

\* Kick() takes the first event; the others move up by one.
LEMMA TailWaiting ==
    ASSUME evq \in Seq(Events), evq # <<>>, evq' = Tail(evq)
    PROVE  /\ Len(evq') = Len(evq) - 1 /\ Len(evq) \in Nat \ {0}
           /\ \A i \in 1..Len(evq') : i + 1 \in 1..Len(evq) /\ evq'[i] = evq[i + 1]
           /\ Head(evq) = evq[1]
           /\ \A x : Waiting(x)' => Waiting(x)
<1>1. /\ Len(evq') = Len(evq) - 1 /\ Len(evq) \in Nat \ {0}
      /\ \A i \in 1..Len(evq') : evq'[i] = evq[i + 1]
      /\ Head(evq) = evq[1]
  BY HeadTailProperties, EmptySeq
<1>2. \A i \in 1..Len(evq') : i + 1 \in 1..Len(evq)
  BY <1>1
<1> QED
  BY <1>1, <1>2 DEF Waiting

\* EVENT_PENDING is posted once, before the socket exists for anyone: a step
\* may take it from the queue and adds none.
LEMMA PendingPush ==
    ASSUME evq \in Seq(Events), PendingFirst, NEW e \in Events \ {"PENDING"}, Push(e)
    PROVE  PendingFirst' /\ (Waiting("PENDING")' <=> Waiting("PENDING"))
<1>1. Len(evq) \in Nat
  OBVIOUS
<1>2. PendingFirst'
  BY <1>1, PushWaiting DEF PendingFirst
<1> QED
  BY <1>2, PushWaiting

\* Once the first event is taken, EVENT_PENDING is gone.
LEMMA PendingTail ==
    ASSUME evq \in Seq(Events), PendingFirst, evq # <<>>, evq' = Tail(evq)
    PROVE  PendingFirst' /\ ~Waiting("PENDING")'
<1>1. \A i \in 1..Len(evq') : evq'[i] # "PENDING"
  <2> SUFFICES ASSUME NEW i \in 1..Len(evq'), evq'[i] = "PENDING" PROVE FALSE
    OBVIOUS
  <2>1. i + 1 \in 1..Len(evq) /\ evq[i + 1] = "PENDING" /\ Len(evq') \in Nat
    BY TailWaiting
  <2>2. i + 1 = 1
    BY <2>1 DEF PendingFirst
  <2> QED
    BY <2>1, <2>2
<1> QED
  BY <1>1 DEF PendingFirst, Waiting

\* While EVENT_PENDING waits, it is the next event.
LEMMA PendingHead ==
    ASSUME evq \in Seq(Events), PendingFirst
    PROVE  Waiting("PENDING") <=> evq # <<>> /\ Head(evq) = "PENDING"
<1>1. CASE evq = <<>>
  BY <1>1 DEF Waiting
<1>2. CASE evq # <<>>
  <2>1. Len(evq) \in Nat \ {0} /\ Head(evq) = evq[1]
    BY <1>2, EmptySeq
  <2> QED
    BY <1>2, <2>1 DEF Waiting, PendingFirst
<1> QED
  BY <1>1, <1>2

\* Where a thread inside close() or LinkDown goes, and what it posts.
LEMMA CloseControl ==
    ASSUME NEW t \in Threads, Close(t)
    PROVE  /\ pc[t] \in CloseLabels
           /\ \E l \in CloseLabels \cup {"idle"} : Go(t, l)
           /\ evq' = evq \/ Push("CLOSE")
           /\ timer' = timer \/ timer' = "off"
<1> USE DEF CloseLabels
<1>1. CASE CloseCas(t) BY <1>1 DEF CloseCas, io
<1>2. CASE CloseSock(t) BY <1>2 DEF CloseSock
<1>3. CASE CloseOp(t) BY <1>3 DEF CloseOp, io
<1>4. CASE CloseCas3(t) BY <1>4 DEF CloseCas3, io
<1>5. CASE ClosePush(t) BY <1>5 DEF ClosePush, io
<1>6. CASE CloseZero(t) BY <1>6 DEF CloseZero, io
<1>7. CASE CloseOp0(t) BY <1>7 DEF CloseOp0, Return, io
<1>8. CASE CloseSt0(t) BY <1>8 DEF CloseSt0, Return, io
<1>9. CASE LinkCheck(t) BY <1>9 DEF LinkCheck, Return, io
<1>10. CASE LinkNull(t) BY <1>10 DEF LinkNull, io
<1>11. CASE LinkFree(t) BY <1>11 DEF LinkFree, Return, io
<1> QED
  BY <1>1, <1>2, <1>3, <1>4, <1>5, <1>6, <1>7, <1>8, <1>9, <1>10, <1>11 DEF Close

HandlerLabels == RecvLabels \cup SentLabels \cup {"sent_chk", "tick_push"}

\* Where a worker inside a handler goes, and what it posts.
LEMMA HandlerControl ==
    ASSUME TypeInv, NEW w \in Workers, HandlerStep(w) \/ RecvPacket(w)
    PROVE  /\ pc[w] \in HandlerLabels
           /\ \E l \in HandlerLabels \cup {"idle", "close_cas"} : Go(w, l)
           /\ evq' = evq \/ (\E e \in {"DATA", "PING", "ERROR"} : Push(e))
           /\ UNCHANGED session
<1> USE DEF HandlerLabels, RecvLabels, SentLabels
<1>1. CASE RecvTooLong(w) BY <1>1 DEF RecvTooLong
<1>2. CASE RecvAgain(w) BY <1>2 DEF RecvAgain
<1>3. CASE RecvDrop(w) BY <1>3 DEF RecvDrop
<1>4. CASE SentError(w) BY <1>4 DEF SentError
<1>5. CASE SentPop(w) BY <1>5 DEF SentPop
<1>6. CASE SentDec(w) BY <1>6 DEF SentDec
<1>7. CASE SentCheck(w) BY <1>7 DEF SentCheck, Return
<1>8. CASE TimerPing(w) BY <1>8 DEF TimerPing
<1>9. CASE RecvPacket(w) BY <1>9 DEF RecvPacket
<1> QED
  BY <1>1, <1>2, <1>3, <1>4, <1>5, <1>6, <1>7, <1>8, <1>9 DEF HandlerStep

\* A thread that is not Main moves: Main stands where it stood.
LEMMA OthersMove ==
    ASSUME TypeInv, NEW t \in Threads, NEW l, Go(t, l)
    PROVE  /\ \A u \in Threads : pc'[u] = IF u = t THEN l ELSE pc[u]
           /\ Main \in Threads
           /\ t \in Workers => t # Main
BY ThreadsInTypes, ThreadsAssumption DEF TypeInv, Types, Go

\* At first EVENT_PENDING waits and nothing else goes on.
LEMMA InitEarly == Init => EarlyInv
BY ThreadsInTypes
   DEF Init, EarlyInv, PendingFirst, Waiting, Early, Accepting, Quiet

\* Before the first read only the logic thread acts: EarlyInv is preserved by
\* every step, one case per kind of step.
LEMMA EarlyStep == TypeInv /\ EarlyInv /\ [Next]_vars => EarlyInv'
<1> SUFFICES ASSUME TypeInv, EarlyInv, [Next]_vars PROVE EarlyInv'
  OBVIOUS
<1> USE ThreadsInTypes
<1>0. evq \in Seq(Events) /\ PendingFirst /\ pc \in [Threads -> Labels]
  BY DEF TypeInv, Types, EarlyInv
<1>1. CASE Exec
  <2>1. pc[Main] = "idle" /\ evq # <<>> /\ evq' = Tail(evq)
    BY <1>1 DEF Exec, DeliverStale, DeliverRefused, DeliverPending, Deliver
  <2>2. PendingFirst' /\ ~Waiting("PENDING")'
    BY <1>0, <2>1, PendingTail
  <2>3. CASE DeliverStale \/ DeliverRefused \/ Deliver
    <3>1. ~Accepting'
      BY <1>0, <2>1, <2>3
         DEF Accepting, DeliverStale, DeliverRefused, Deliver, Go
    <3> QED
      BY <2>2, <3>1 DEF EarlyInv, Early
  <2>4. CASE DeliverPending
    <3>1. Quiet
      BY <1>0, <2>4, PendingHead DEF DeliverPending, EarlyInv, Early
    <3>2. Quiet'
      BY <1>0, <2>4, <3>1 DEF DeliverPending, Quiet, Go, io
    <3> QED
      BY <2>2, <3>2 DEF EarlyInv
  <2> QED
    BY <1>1, <2>3, <2>4 DEF Exec
<1>2. CASE Accept
  <2>1. ~Waiting("PENDING")
    BY <1>2
       DEF EarlyInv, Accept, AcceptNoMemory, AcceptPush, AcceptRead, AcceptTimer,
           CloseLabels
  <2>2. CASE AcceptNoMemory
    <3>1. PendingFirst' /\ ~Waiting("PENDING")'
      BY <1>0, <2>1, <2>2, PendingPush DEF AcceptNoMemory, Events
    <3> QED
      BY <1>0, <2>2, <3>1 DEF EarlyInv, Early, Accepting, AcceptNoMemory, Go
  <2>3. CASE AcceptPush
    <3>1. PendingFirst' /\ ~Waiting("PENDING")'
      BY <1>0, <2>1, <2>3, PendingPush DEF AcceptPush, Events
    <3>2. Quiet'
      BY <1>0, <2>3 DEF AcceptPush, EarlyInv, Early, Accepting, Quiet, Go, io
    <3> QED
      BY <3>1, <3>2 DEF EarlyInv
  <2>4. CASE AcceptRead \/ AcceptTimer
    <3>1. evq' = evq /\ pc'[Main] \in {"acc_timer", "idle"}
      BY <1>0, <2>4 DEF AcceptRead, AcceptTimer, Go
    <3> QED
      BY <1>0, <2>1, <3>1 DEF EarlyInv, Early, Accepting, PendingFirst, Waiting
  <2> QED
    BY <1>2, <2>2, <2>3, <2>4 DEF Accept
<1>3. CASE Kernel
  <2>1. ~Quiet
    BY <1>3
       DEF Quiet, Kernel, RecvArrives, RecvPeerGone, RecvAborted,
           SendCompletes, SendAborted, TimerExpires
  <2>2. UNCHANGED <<evq, pc>>
    BY <1>3
       DEF Kernel, RecvArrives, RecvPeerGone, RecvAborted,
           SendCompletes, SendAborted, TimerExpires
  <2> QED
    BY <2>1, <2>2 DEF EarlyInv, Early, Accepting, PendingFirst, Waiting
<1>4. ASSUME NEW t \in Callers, CallSend(t) PROVE EarlyInv'
  <2>1. ~Quiet
    BY <1>4 DEF Quiet, CallSend
  <2>2. evq' = evq /\ (pc'[Main] = pc[Main] \/ pc'[Main] = "send_lock")
    BY <1>0, <1>4 DEF CallSend, Go
  <2> QED
    BY <2>1, <2>2 DEF EarlyInv, Early, Accepting, PendingFirst, Waiting
<1>5. ASSUME NEW t \in Callers, CallClose(t) PROVE EarlyInv'
  <2>1. evq' = evq /\ Go(t, "close_cas") /\ pc[t] = "idle" /\ HasHandle(t)
        /\ UNCHANGED <<rd, wr, timer, session>>
    BY <1>5 DEF CallClose, io
  <2>2. CASE t = Main
    BY <1>0, <2>1, <2>2
       DEF EarlyInv, Early, Accepting, Quiet, PendingFirst, Waiting, Go, CloseLabels
  <2>3. CASE t # Main
    <3>1. ~Quiet
      BY <2>1, <2>3 DEF HasHandle, Quiet
    <3>2. pc'[Main] = pc[Main]
      BY <1>0, <2>1, <2>3 DEF Go
    <3> QED
      BY <2>1, <3>1, <3>2 DEF EarlyInv, Early, Accepting, PendingFirst, Waiting
  <2> QED
    BY <2>2, <2>3
<1>6. ASSUME NEW t \in Callers, Send(t) PROVE EarlyInv'
  <2>1. pc[t] = "send_lock" /\ (Go(t, "idle") \/ Go(t, "close_cas"))
        /\ (evq' = evq \/ Push("ERROR"))
    BY <1>6, SendEffect
  <2>2. ~Early
    BY <2>1 DEF EarlyInv, Early, Accepting, Quiet, CloseLabels
  <2>3. PendingFirst' /\ ~Waiting("PENDING")'
    BY <1>0, <2>1, <2>2, PendingPush DEF Early, PendingFirst, Waiting, Events
  <2>4. ~Accepting'
    BY <1>0, <2>1, <2>2 DEF Early, Accepting, Go
  <2> QED
    BY <2>3, <2>4 DEF EarlyInv, Early
<1>7. ASSUME NEW w \in Workers, Handler(w) PROVE EarlyInv'
  <2>1. ~Quiet
    BY <1>7 DEF Quiet, Handler, RecvHandler, SentHandler, TimerHandler
  <2>2. evq' = evq /\ (pc' = pc \/ \E l \in Labels : Go(w, l))
    BY <1>7
       DEF Handler, RecvHandler, SentHandler, TimerHandler, Labels, RecvLabels, SentLabels
  <2>3. pc'[Main] = pc[Main]
    BY <2>2, OthersMove
  <2> QED
    BY <2>1, <2>2, <2>3 DEF EarlyInv, Early, Accepting, PendingFirst, Waiting
<1>8. ASSUME NEW w \in Workers, HandlerStep(w) \/ RecvPacket(w) PROVE EarlyInv'
  <2>1. /\ pc[w] \in HandlerLabels
        /\ \E l \in HandlerLabels \cup {"idle", "close_cas"} : Go(w, l)
        /\ evq' = evq \/ (\E e \in {"DATA", "PING", "ERROR"} : Push(e))
    BY <1>8, HandlerControl
  <2>2. pc'[Main] = pc[Main] /\ w # Main
    BY <2>1, OthersMove
  <2>3. ~Early
    BY <2>1, <2>2 DEF EarlyInv, Quiet, HandlerLabels, RecvLabels, SentLabels
  <2>4. PendingFirst' /\ ~Waiting("PENDING")'
    BY <1>0, <2>1, <2>3, PendingPush DEF Early, PendingFirst, Waiting, Events
  <2> QED
    BY <2>2, <2>3, <2>4 DEF EarlyInv, Early, Accepting
<1>9. ASSUME NEW t \in Threads, Close(t) PROVE EarlyInv'
  <2>1. PICK l \in CloseLabels \cup {"idle"} :
           /\ pc[t] \in CloseLabels /\ Go(t, l)
           /\ evq' = evq \/ Push("CLOSE")
           /\ timer' = timer \/ timer' = "off"
           /\ UNCHANGED <<rd, wr, session>>
    BY <1>9, CloseControl, CloseFrame
  <2>2. PendingFirst' /\ (Waiting("PENDING")' <=> Waiting("PENDING"))
    BY <1>0, <2>1, PendingPush DEF PendingFirst, Waiting, Events
  <2>3. pc'[Main] = pc[Main] \/ pc'[Main] \in CloseLabels \cup {"idle"}
    BY <1>0, <2>1, OthersMove
  <2>4. Early' => Early
    BY <2>2, <2>3 DEF Early, Accepting, CloseLabels
  <2>5. Early => Quiet'
    <3> SUFFICES ASSUME Early PROVE Quiet'
      OBVIOUS
    <3>1. Quiet
      BY DEF EarlyInv
    <3>2. t = Main
      BY <2>1, <3>1 DEF Quiet, CloseLabels
    <3> QED
      BY <1>0, <2>1, <3>1, <3>2 DEF Quiet, Go
  <2> QED
    BY <2>2, <2>3, <2>4, <2>5 DEF EarlyInv
<1>10. CASE UNCHANGED vars
  BY <1>10 DEF vars, EarlyInv, Early, Accepting, Quiet, PendingFirst, Waiting
<1> QED
  BY <1>1, <1>2, <1>3, <1>4, <1>5, <1>6, <1>7, <1>8, <1>9, <1>10
     DEF Next, Over, Call

-----------------------------------------------------------------------------
(* One read and one send at a time.                                         *)

Reading == {w \in Workers : pc[w] \in RecvLabels}

Completing == {w \in Workers : pc[w] \in {"sent_err", "sent_lock"}}

\* The read is outstanding or in the hands of one handler.
ReadInv == \A w \in Reading : rd = "none" /\ Reading = {w}

\* So is the send, and the bytes it was given are still in the buffer.
WriteInv ==
    /\ wr # "twice"
    /\ \A w \in Completing : wr = "none" /\ Completing = {w}
    /\ wr # "none" \/ Completing # {} => 0 < issued /\ issued <= sbuf.len

IOInv == ReadInv /\ WriteInv

\* A step that leaves the read, the send and their handlers alone.
LEMMA IdleIO ==
    ASSUME IOInv, UNCHANGED <<rd, wr, issued, sbuf>>, Reading' = Reading,
           Completing' = Completing
    PROVE  IOInv'
BY DEF IOInv, ReadInv, WriteInv

\* At first there is no operation at all.
LEMMA InitIO == Init => IOInv
BY ThreadsInTypes
   DEF Init, IOInv, ReadInv, WriteInv, Reading, Completing, RecvLabels

\* One read and one send at a time, and the bytes handed to the kernel stay in
\* send_buffer_ until its handler pops them: one case per action that touches them.
LEMMA IOStep == TypeInv /\ EarlyInv /\ IOInv /\ [Next]_vars => IOInv'
<1> SUFFICES ASSUME TypeInv, EarlyInv, IOInv, [Next]_vars PROVE IOInv'
  OBVIOUS
<1> USE ThreadsInTypes
<1>0. pc \in [Threads -> Labels]
  BY DEF TypeInv, Types
<1>1. CASE Exec
  <2>1. UNCHANGED io /\ sbuf' = sbuf /\ (pc' = pc \/ \E l : Go(Main, l))
    BY <1>1 DEF Exec, DeliverStale, DeliverRefused, DeliverPending, Deliver
  <2>2. \A w \in Workers : pc'[w] = pc[w]
    BY <1>0, <2>1, ThreadsAssumption DEF Go
  <2> QED
    BY <2>1, <2>2, IdleIO DEF Reading, Completing, io
<1>2. CASE Accept
  <2>1. \A w \in Workers : pc'[w] = pc[w]
    BY <1>0, <1>2, ThreadsAssumption
       DEF Accept, AcceptNoMemory, AcceptPush, AcceptRead, AcceptTimer, Go
  <2>2. Reading' = Reading /\ Completing' = Completing
    BY <2>1 DEF Reading, Completing
  <2>3. CASE AcceptNoMemory \/ AcceptPush \/ AcceptTimer
    BY <2>2, <2>3, IdleIO DEF AcceptNoMemory, AcceptPush, AcceptTimer, io
  <2>4. CASE AcceptRead
    <3>1. Quiet
      BY <2>4 DEF AcceptRead, EarlyInv, Early, Accepting
    <3>2. Reading = {}
      BY <3>1, ThreadsAssumption DEF Quiet, Reading, RecvLabels
    <3> QED
      BY <2>2, <2>4, <3>2 DEF AcceptRead, IOInv, ReadInv, WriteInv
  <2> QED
    BY <1>2, <2>3, <2>4 DEF Accept
<1>3. CASE Kernel
  <2>1. Reading' = Reading /\ Completing' = Completing /\ issued' = issued /\ sbuf' = sbuf
    BY <1>3
       DEF Kernel, RecvArrives, RecvPeerGone, RecvAborted,
           SendCompletes, SendAborted, TimerExpires, Reading, Completing
  <2>2. (rd' = "none" <=> rd = "none") /\ (wr' = "none" <=> wr = "none")
        /\ (wr # "twice" => wr' # "twice")
    BY <1>3
       DEF Kernel, RecvArrives, RecvPeerGone, RecvAborted,
           SendCompletes, SendAborted, TimerExpires
  <2> QED
    BY <2>1, <2>2 DEF IOInv, ReadInv, WriteInv
<1>4. ASSUME NEW t \in Callers, Call(t) PROVE IOInv'
  <2>1. UNCHANGED io /\ sbuf' = sbuf /\ \E l : Go(t, l)
    BY <1>4 DEF Call, CallSend, CallClose
  <2>2. \A w \in Workers : pc'[w] = pc[w]
    BY <1>0, <2>1, ThreadsAssumption DEF Go
  <2> QED
    BY <2>1, <2>2, IdleIO DEF Reading, Completing, io
<1>5. ASSUME NEW t \in Callers, Send(t) PROVE IOInv'
  <2>1. \A w \in Workers : pc'[w] = pc[w]
    BY <1>0, <1>5, SendEffect, ThreadsAssumption DEF Go
  <2>2. Reading' = Reading /\ Completing' = Completing /\ rd' = rd
    BY <1>5, <2>1, SendEffect DEF Reading, Completing
  <2>3. sbuf.len \in Nat /\ sbuf'.len \in Nat /\ sbuf'.len >= sbuf.len /\ issued \in Nat
    BY <1>5, SendEffect, SizesAssumption DEF TypeInv, Types, Buffer
  <2>4. CASE UNCHANGED <<opcount, wr, issued>>
    BY <2>2, <2>3, <2>4 DEF IOInv, ReadInv, WriteInv
  <2>5. CASE /\ sbuf.len = 0
             /\ wr' = IF wr = "none" THEN "wait" ELSE "twice"
             /\ issued' = sbuf'.len /\ issued' \in 1..BufCap
    <3>1. wr = "none" /\ Completing = {}
      BY <2>3, <2>5 DEF IOInv, WriteInv
    <3> QED
      BY <2>2, <2>3, <2>5, <3>1 DEF IOInv, ReadInv, WriteInv
  <2> QED
    BY <1>5, <2>4, <2>5, SendEffect
<1>6. ASSUME NEW w \in Workers, RecvHandler(w) PROVE IOInv'
  <2>1. \A v \in Workers : pc'[v] = IF v = w THEN pc'[w] ELSE pc[v]
    BY <1>0, <1>6 DEF RecvHandler, Go
  <2>2. pc'[w] \in {"recv_first", "recv_drop"} /\ pc[w] = "idle"
    BY <1>0, <1>6 DEF RecvHandler, Go
  <2>3. Reading = {}
    BY <1>6 DEF RecvHandler, IOInv, ReadInv
  <2>4. Reading' = {w}
    BY <2>1, <2>2, <2>3 DEF Reading, RecvLabels
  <2>5. Completing' = Completing
    BY <2>1, <2>2 DEF Completing
  <2> QED
    BY <1>6, <2>4, <2>5 DEF RecvHandler, IOInv, ReadInv, WriteInv
<1>7. ASSUME NEW w \in Workers, SentHandler(w) PROVE IOInv'
  <2>1. \A v \in Workers : pc'[v] = IF v = w THEN pc'[w] ELSE pc[v]
    BY <1>0, <1>7 DEF SentHandler, Go
  <2>2. pc'[w] \in {"sent_lock", "sent_err"} /\ pc[w] = "idle"
    BY <1>0, <1>7 DEF SentHandler, Go
  <2>3. Completing = {}
    BY <1>7 DEF SentHandler, IOInv, WriteInv
  <2>4. Completing' = {w}
    BY <2>1, <2>2, <2>3 DEF Completing
  <2>5. Reading' = Reading
    BY <2>1, <2>2 DEF Reading, RecvLabels
  <2> QED
    BY <1>7, <2>4, <2>5 DEF SentHandler, IOInv, ReadInv, WriteInv
<1>8. ASSUME NEW w \in Workers, TimerHandler(w) PROVE IOInv'
  <2>1. \A v \in Workers : pc'[v] = pc[v] \/ (pc[v] = "idle" /\ pc'[v] = "tick_push")
    BY <1>0, <1>8 DEF TimerHandler, Go
  <2> QED
    BY <1>8, <2>1, IdleIO DEF TimerHandler, Reading, Completing, RecvLabels
<1>9. ASSUME NEW w \in Workers, RecvTooLong(w) \/ RecvPacket(w) \/ RecvAgain(w) \/ RecvDrop(w)
      PROVE  IOInv'
  <2>1. w \in Reading /\ Reading = {w} /\ rd = "none"
    BY <1>9
       DEF RecvTooLong, RecvPacket, RecvAgain, RecvDrop, Reading, RecvLabels, IOInv, ReadInv
  <2>2. /\ (pc'[w] \in RecvLabels /\ rd' = rd) \/ pc'[w] \in {"idle", "close_cas"}
        /\ UNCHANGED <<wr, issued, sbuf>>
    BY <1>0, <1>9
       DEF RecvTooLong, RecvPacket, RecvAgain, RecvDrop, Go, RecvLabels, io
  <2>3. \A v \in Workers : pc'[v] = IF v = w THEN pc'[w] ELSE pc[v]
    BY <1>0, <1>9 DEF RecvTooLong, RecvPacket, RecvAgain, RecvDrop, Go
  <2>4. \/ Reading' = {w} /\ rd' = rd
        \/ Reading' = {}
    BY <2>1, <2>2, <2>3 DEF Reading, RecvLabels
  <2>5. Completing' = Completing
    BY <2>1, <2>2, <2>3 DEF Completing, Reading, RecvLabels
  <2> QED
    BY <2>1, <2>2, <2>4, <2>5 DEF IOInv, ReadInv, WriteInv
<1>10. ASSUME NEW w \in Workers, SentError(w) PROVE IOInv'
  <2>1. /\ pc[w] = "sent_err" /\ pc'[w] = "close_cas"
        /\ \A v \in Workers : pc'[v] = IF v = w THEN "close_cas" ELSE pc[v]
    BY <1>0, <1>10 DEF SentError, Go
  <2>2. w \in Completing /\ Completing' = Completing \ {w} /\ Reading' = Reading
    BY <2>1 DEF Completing, Reading, RecvLabels
  <2> QED
    BY <1>10, <2>2 DEF SentError, IOInv, ReadInv, WriteInv, io
<1>11. ASSUME NEW w \in Workers, SentPop(w) PROVE IOInv'
  <2>1. /\ pc[w] = "sent_lock" /\ rd' = rd
        /\ \A v \in Workers : pc'[v] = IF v = w THEN "sent_dec" ELSE pc[v]
    BY <1>0, <1>11, SentPopEffect DEF Go
  <2>2. w \in Completing /\ Completing' = Completing \ {w} /\ Reading' = Reading
    BY <2>1 DEF Completing, Reading, RecvLabels
  <2>3. wr = "none" /\ Completing' = {}
    BY <2>2 DEF IOInv, WriteInv
  <2>4. CASE wr' = wr
    BY <2>1, <2>2, <2>3, <2>4 DEF IOInv, ReadInv, WriteInv
  <2>5. CASE wr' = "wait" /\ issued' = sbuf'.len /\ issued' \in 1..BufCap
    BY <2>1, <2>2, <2>3, <2>5, SizesAssumption DEF IOInv, ReadInv, WriteInv
  <2> QED
    BY <1>11, <2>3, <2>4, <2>5, SentPopEffect
<1>12. ASSUME NEW w \in Workers, SentDec(w) \/ SentCheck(w) \/ TimerPing(w) PROVE IOInv'
  <2>1. /\ pc[w] \in {"sent_dec", "sent_chk", "tick_push"}
        /\ pc'[w] \in {"sent_chk", "close_cas", "idle"}
        /\ \A v \in Workers : pc'[v] = IF v = w THEN pc'[w] ELSE pc[v]
    BY <1>0, <1>12 DEF SentDec, SentCheck, TimerPing, Go, Return
  <2>2. Completing' = Completing /\ Reading' = Reading
    BY <2>1 DEF Completing, Reading, RecvLabels
  <2> QED
    BY <1>12, <2>2, IdleIO DEF SentDec, SentCheck, TimerPing, io
<1>13. ASSUME NEW t \in Threads, Close(t) PROVE IOInv'
  <2>1. PICK l \in CloseLabels \cup {"idle"} : pc[t] \in CloseLabels /\ Go(t, l)
    BY <1>13, CloseControl
  <2>2. Completing' = Completing /\ Reading' = Reading
    BY <1>0, <2>1 DEF Completing, Reading, RecvLabels, CloseLabels, Go
  <2> QED
    BY <1>13, <2>2, CloseFrame, IdleIO
<1>14. CASE UNCHANGED vars
  BY <1>14, IdleIO DEF vars, Reading, Completing
<1> QED
  BY <1>1, <1>2, <1>3, <1>4, <1>5, <1>6, <1>7, <1>8, <1>9, <1>10, <1>11, <1>12,
     <1>13, <1>14
     DEF Next, Over, Handler, HandlerStep

-----------------------------------------------------------------------------
(* operator_count_ is exact.                                                *)

\* A worker takes up, or gives up, an operation.
LEMMA HandlersAdd ==
    ASSUME NEW w \in Workers, w \notin Handlers, Handlers' = Handlers \cup {w}
    PROVE  Cardinality(Handlers') = Cardinality(Handlers) + 1
<1>1. IsFiniteSet(Handlers)
  BY FS_Subset, ThreadsAssumption DEF Handlers
<1> QED
  BY <1>1, FS_AddElement

\* One handler less.
LEMMA HandlersRemove ==
    ASSUME NEW w \in Workers, w \in Handlers, Handlers' = Handlers \ {w}
    PROVE  Cardinality(Handlers') = Cardinality(Handlers) - 1
<1>1. IsFiniteSet(Handlers)
  BY FS_Subset, ThreadsAssumption DEF Handlers
<1> QED
  BY <1>1, FS_RemoveElement

\* A finite number of handlers, zero if and only if there is none.
LEMMA HandlersCount == Cardinality(Handlers) \in Nat /\ (Cardinality(Handlers) = 0 <=> Handlers = {})
<1>1. IsFiniteSet(Handlers)
  BY FS_Subset, ThreadsAssumption DEF Handlers
<1> QED
  BY <1>1, FS_CardinalityType, FS_EmptySet

\* A step that counts nothing and finishes nothing.
LEMMA IdleCount ==
    ASSUME OpCountExact, opcount' = opcount, Handlers' = Handlers,
           rd = "none" <=> rd' = "none", wr = "none" <=> wr' = "none"
    PROVE  OpCountExact'
BY DEF OpCountExact, Outstanding

\* At first nothing is counted and nothing outstanding.
LEMMA InitCount == Init => OpCountExact
<1> SUFFICES ASSUME Init PROVE OpCountExact
  OBVIOUS
<1>1. Handlers = {}
  BY ThreadsInTypes DEF Init, Handlers, RecvLabels, SentLabels
<1> QED
  BY <1>1, FS_EmptySet DEF Init, OpCountExact, Outstanding

\* Every step counts what it starts and uncounts what it gives up.
LEMMA CountStep ==
    TypeInv /\ EarlyInv /\ IOInv /\ OpCountExact /\ [Next]_vars => OpCountExact'
<1> SUFFICES ASSUME TypeInv, EarlyInv, IOInv, OpCountExact, [Next]_vars PROVE OpCountExact'
  OBVIOUS
<1> USE ThreadsInTypes, HandlersCount
<1>0. pc \in [Threads -> Labels] /\ opcount \in Int
  BY DEF TypeInv, Types
<1>1. CASE Exec
  <2>1. UNCHANGED <<io, opcount>> /\ (pc' = pc \/ \E l : Go(Main, l))
    BY <1>1 DEF Exec, DeliverStale, DeliverRefused, DeliverPending, Deliver, sock
  <2>2. Handlers' = Handlers
    BY <1>0, <2>1, ThreadsAssumption DEF Handlers, Go
  <2> QED
    BY <2>1, <2>2, IdleCount DEF io
<1>2. CASE Accept
  <2>1. Handlers' = Handlers
    BY <1>0, <1>2, ThreadsAssumption
       DEF Handlers, Accept, AcceptNoMemory, AcceptPush, AcceptRead, AcceptTimer, Go
  <2>2. CASE AcceptNoMemory \/ AcceptPush \/ AcceptTimer
    BY <2>1, <2>2, IdleCount DEF AcceptNoMemory, AcceptPush, AcceptTimer, sock, io
  <2>3. CASE AcceptRead
    <3>1. rd = "none" /\ rd' = "wait" /\ wr' = wr /\ opcount' = opcount + 1
      BY <2>3 DEF AcceptRead, EarlyInv, Early, Accepting, Quiet
    <3> QED
      BY <2>1, <3>1 DEF OpCountExact, Outstanding
  <2> QED
    BY <1>2, <2>2, <2>3 DEF Accept
<1>3. CASE Kernel
  <2>1. /\ UNCHANGED <<opcount, Handlers>>
        /\ rd = "none" <=> rd' = "none"
        /\ wr = "none" <=> wr' = "none"
    BY <1>3
       DEF Kernel, RecvArrives, RecvPeerGone, RecvAborted,
           SendCompletes, SendAborted, TimerExpires, sock, Handlers
  <2> QED
    BY <2>1, IdleCount
<1>4. ASSUME NEW t \in Callers, Call(t) PROVE OpCountExact'
  <2>1. UNCHANGED <<io, opcount>> /\ \E l : Go(t, l)
    BY <1>4 DEF Call, CallSend, CallClose, sock
  <2>2. Handlers' = Handlers
    BY <1>0, <1>4, <2>1
       DEF Handlers, Go, Call, CallSend, CallClose, RecvLabels, SentLabels
  <2> QED
    BY <2>1, <2>2, IdleCount DEF io
<1>5. ASSUME NEW t \in Callers, Send(t) PROVE OpCountExact'
  <2>1. Handlers' = Handlers
    BY <1>0, <1>5, SendEffect, ThreadsAssumption DEF Handlers, Go
  <2>2. CASE UNCHANGED <<opcount, wr, issued>>
    BY <1>5, <2>1, <2>2, SendEffect, IdleCount
  <2>3. CASE /\ sbuf.len = 0 /\ opcount' = opcount + 1
             /\ wr' = IF wr = "none" THEN "wait" ELSE "twice"
    <3>1. issued \in Nat
      BY DEF TypeInv, Types
    <3>2. wr = "none"
      BY <2>3, <3>1 DEF IOInv, WriteInv
    <3>3. rd' = rd
      BY <1>5, SendEffect
    <3> QED
      BY <2>1, <2>3, <3>2, <3>3 DEF OpCountExact, Outstanding
  <2> QED
    BY <1>5, <2>2, <2>3, SendEffect
<1>6. ASSUME NEW w \in Workers, RecvHandler(w) PROVE OpCountExact'
  <2>1. w \notin Handlers /\ Handlers' = Handlers \cup {w}
    BY <1>0, <1>6 DEF RecvHandler, Go, Handlers, RecvLabels, SentLabels
  <2>2. rd # "none" /\ rd' = "none" /\ UNCHANGED <<opcount, wr>>
    BY <1>6 DEF RecvHandler, sock
  <2>3. Cardinality(Handlers') = Cardinality(Handlers) + 1
    BY <2>1, HandlersAdd
  <2> QED
    BY <1>0, <2>2, <2>3 DEF OpCountExact, Outstanding
<1>7. ASSUME NEW w \in Workers, SentHandler(w) PROVE OpCountExact'
  <2>1. w \notin Handlers /\ Handlers' = Handlers \cup {w}
    BY <1>0, <1>7 DEF SentHandler, Go, Handlers, RecvLabels, SentLabels
  <2>2. wr # "none" /\ wr' = "none" /\ UNCHANGED <<opcount, rd>>
    BY <1>7 DEF SentHandler, sock
  <2>3. Cardinality(Handlers') = Cardinality(Handlers) + 1
    BY <2>1, HandlersAdd
  <2> QED
    BY <1>0, <2>2, <2>3 DEF OpCountExact, Outstanding
<1>8. ASSUME NEW w \in Workers, TimerHandler(w) PROVE OpCountExact'
  <2>1. Handlers' = Handlers
    BY <1>0, <1>8 DEF TimerHandler, Go, Handlers, RecvLabels, SentLabels
  <2> QED
    BY <1>8, <2>1, IdleCount DEF TimerHandler, sock
<1>9. ASSUME NEW w \in Workers, RecvTooLong(w) \/ RecvPacket(w) PROVE OpCountExact'
  <2>1. Handlers' = Handlers
    BY <1>0, <1>9 DEF RecvTooLong, RecvPacket, Go, Handlers, RecvLabels, SentLabels
  <2> QED
    BY <1>9, <2>1, IdleCount DEF RecvTooLong, RecvPacket, sock, io
<1>10. ASSUME NEW w \in Workers, RecvAgain(w) PROVE OpCountExact'
  <2>1. w \in Handlers /\ w \in Reading /\ UNCHANGED <<opcount, wr>>
    BY <1>10 DEF RecvAgain, Handlers, Reading, RecvLabels, sock
  <2>2. rd = "none"
    BY <2>1 DEF IOInv, ReadInv
  <2>3. CASE status = 1
    <3>1. rd' = "wait" /\ Go(w, "idle")
      BY <1>10, <2>3 DEF RecvAgain
    <3>2. Handlers' = Handlers \ {w}
      BY <1>0, <3>1 DEF Go, Handlers, RecvLabels, SentLabels
    <3>3. Cardinality(Handlers') = Cardinality(Handlers) - 1
      BY <2>1, <3>2, HandlersRemove
    <3> QED
      BY <1>0, <2>1, <2>2, <3>1, <3>3 DEF OpCountExact, Outstanding
  <2>4. CASE status # 1
    <3>1. rd' = rd /\ Go(w, "recv_drop")
      BY <1>10, <2>4 DEF RecvAgain
    <3>2. Handlers' = Handlers
      BY <1>0, <2>1, <3>1 DEF Go, Handlers, RecvLabels, SentLabels
    <3> QED
      BY <2>1, <3>1, <3>2, IdleCount
  <2> QED
    BY <2>3, <2>4
<1>11. ASSUME NEW w \in Workers, RecvDrop(w) \/ SentError(w) \/ SentDec(w) PROVE OpCountExact'
  <2>1. w \in Handlers /\ Handlers' = Handlers \ {w}
    BY <1>0, <1>11 DEF RecvDrop, SentError, SentDec, Go, Handlers, RecvLabels, SentLabels
  <2>2. opcount' = opcount - 1 /\ UNCHANGED <<rd, wr>>
    BY <1>11 DEF RecvDrop, SentError, SentDec, io
  <2>3. Cardinality(Handlers') = Cardinality(Handlers) - 1
    BY <2>1, HandlersRemove
  <2> QED
    BY <1>0, <2>2, <2>3 DEF OpCountExact, Outstanding
<1>12. ASSUME NEW w \in Workers, SentPop(w) PROVE OpCountExact'
  <2>1. Handlers' = Handlers
    BY <1>0, <1>12, SentPopEffect DEF Go, Handlers, SentLabels
  <2>2. wr = "none" /\ rd' = rd
    BY <1>12, SentPopEffect DEF IOInv, WriteInv, Completing
  <2>3. CASE opcount' = opcount /\ wr' = wr
    BY <2>1, <2>2, <2>3, IdleCount
  <2>4. CASE opcount' = opcount + 1 /\ wr' = "wait"
    BY <1>0, <2>1, <2>2, <2>4 DEF OpCountExact, Outstanding
  <2> QED
    BY <1>12, <2>2, <2>3, <2>4, SentPopEffect
<1>13. ASSUME NEW w \in Workers, SentCheck(w) \/ TimerPing(w) PROVE OpCountExact'
  <2>1. Handlers' = Handlers
    BY <1>0, <1>13 DEF SentCheck, TimerPing, Go, Return, Handlers, RecvLabels, SentLabels
  <2> QED
    BY <1>13, <2>1, IdleCount DEF SentCheck, TimerPing, sock, io
<1>14. ASSUME NEW t \in Threads, Close(t) PROVE OpCountExact'
  <2>1. PICK l \in CloseLabels \cup {"idle"} : pc[t] \in CloseLabels /\ Go(t, l)
    BY <1>14, CloseControl
  <2>2. Handlers' = Handlers
    BY <1>0, <2>1 DEF Handlers, RecvLabels, SentLabels, CloseLabels, Go
  <2> QED
    BY <1>14, <2>2, CloseFrame, IdleCount
<1>15. CASE UNCHANGED vars
  BY <1>15, IdleCount DEF vars, Handlers
<1> QED
  BY <1>1, <1>2, <1>3, <1>4, <1>5, <1>6, <1>7, <1>8, <1>9, <1>10, <1>11, <1>12,
     <1>13, <1>14, <1>15
     DEF Next, Over, Handler, HandlerStep

CountInv == TypeInv /\ EarlyInv /\ IOInv /\ OpCountExact

\* The inductive invariant of the first half.
LEMMA CountInvariant == Spec => []CountInv
<1>1. Init => CountInv
  BY InitTypes, InitEarly, InitIO, InitCount DEF CountInv
<1>2. CountInv /\ [Next]_vars => CountInv'
  BY TypesStep, EarlyStep, IOStep, CountStep DEF CountInv
<1> QED
  BY <1>1, <1>2, PTL DEF Spec

\* operator_count_ counts exactly the operations and handlers that may still
\* touch the socket, at every step of every thread.
THEOREM OpCountExactHolds == Spec => []OpCountExact
BY CountInvariant, PTL DEF CountInv

\* Every variable stays in its type; operator_count_ never wraps below zero
\* and the bytes in send_buffer_ never leave their allocation.
THEOREM TypeOKHolds == Spec => []TypeOK
<1>1. CountInv => TypeOK
  <2> SUFFICES ASSUME CountInv PROVE TypeOK
    OBVIOUS
  <2>1. Outstanding(rd) \in Nat /\ Outstanding(wr) \in Nat
    BY DEF Outstanding
  <2>2. opcount \in Nat
    BY <2>1, HandlersCount DEF CountInv, OpCountExact
  <2> QED
    BY <2>2 DEF CountInv, TypeInv, TypeOK
<1> QED
  BY <1>1, CountInvariant, PTL

\* At most one async_send is outstanding: send_buffer_ is compacted only when
\* the kernel is not reading from it.
THEOREM SingleWriterHolds == Spec => []SingleWriter
<1>1. CountInv => SingleWriter
  BY DEF CountInv, IOInv, WriteInv, SingleWriter
<1> QED
  BY <1>1, CountInvariant, PTL

-----------------------------------------------------------------------------
(* The close protocol.                                                      *)

\* What one step may do to the queue.
LEMMA QueueStep ==
    TypeInv /\ [Next]_vars =>
        \/ evq' = evq
        \/ evq # <<>> /\ evq' = Tail(evq)
        \/ \E e \in Events \ {"PENDING"} : Push(e)
<1> SUFFICES ASSUME TypeInv, [Next]_vars
             PROVE  \/ evq' = evq
                    \/ evq # <<>> /\ evq' = Tail(evq)
                    \/ \E e \in Events \ {"PENDING"} : Push(e)
  OBVIOUS
<1> USE DEF Events
<1>1. CASE Exec
  BY <1>1 DEF Exec, DeliverStale, DeliverRefused, DeliverPending, Deliver
<1>2. CASE Accept
  BY <1>2 DEF Accept, AcceptNoMemory, AcceptPush, AcceptRead, AcceptTimer
<1>3. CASE Kernel
  BY <1>3 DEF Kernel, RecvArrives, RecvPeerGone, RecvAborted,
              SendCompletes, SendAborted, TimerExpires
<1>4. ASSUME NEW t \in Callers, Call(t) PROVE evq' = evq
  BY <1>4 DEF Call, CallSend, CallClose
<1>5. ASSUME NEW t \in Callers, Send(t) PROVE evq' = evq \/ Push("ERROR")
  BY <1>5, SendEffect
<1>6. ASSUME NEW w \in Workers, Handler(w) PROVE evq' = evq
  BY <1>6 DEF Handler, RecvHandler, SentHandler, TimerHandler
<1>7. ASSUME NEW w \in Workers, HandlerStep(w) \/ RecvPacket(w)
      PROVE  evq' = evq \/ (\E e \in {"DATA", "PING", "ERROR"} : Push(e))
  BY <1>7, HandlerControl
<1>8. ASSUME NEW t \in Threads, Close(t) PROVE evq' = evq \/ Push("CLOSE")
  BY <1>8, CloseControl
<1>9. CASE UNCHANGED vars
  BY <1>9 DEF vars
<1> QED
  BY <1>1, <1>2, <1>3, <1>4, <1>5, <1>6, <1>7, <1>8, <1>9 DEF Next, Over

\* Before the first read the logic thread is the only one that moves.
LEMMA EarlyActions ==
    TypeInv /\ EarlyInv /\ Early /\ [Next]_vars =>
        Exec \/ Accept \/ CallClose(Main) \/ Close(Main) \/ UNCHANGED vars
<1> SUFFICES ASSUME TypeInv, EarlyInv, Early, [Next]_vars
             PROVE  Exec \/ Accept \/ CallClose(Main) \/ Close(Main) \/ UNCHANGED vars
  OBVIOUS
<1> USE ThreadsInTypes
<1>1. Quiet
  BY DEF EarlyInv
<1>2. pc[Main] # "send_lock"
  BY DEF EarlyInv, Early, Accepting, CloseLabels
<1>3. ~Kernel
  BY <1>1 DEF Quiet, Kernel, RecvArrives, RecvPeerGone, RecvAborted,
              SendCompletes, SendAborted, TimerExpires
<1>4. ASSUME NEW t \in Callers, Call(t) PROVE CallClose(Main)
  BY <1>1, <1>4 DEF Quiet, Call, CallSend, CallClose, HasHandle
<1>5. ASSUME NEW t \in Callers PROVE ~Send(t)
  BY <1>1, <1>2 DEF Quiet, Send
<1>6. ASSUME NEW w \in Workers PROVE ~Handler(w)
  BY <1>1 DEF Quiet, Handler, RecvHandler, SentHandler, TimerHandler
<1>7. ASSUME NEW w \in Workers PROVE ~(HandlerStep(w) \/ RecvPacket(w))
  BY <1>1, HandlerControl, ThreadsAssumption
     DEF Quiet, HandlerLabels, RecvLabels, SentLabels
<1>8. ASSUME NEW t \in Threads, Close(t) PROVE Close(Main)
  BY <1>1, <1>8, CloseControl DEF Quiet, CloseLabels
<1> QED
  BY <1>3, <1>4, <1>5, <1>6, <1>7, <1>8 DEF Next, Over

\* ... and once it is over, it does not begin again.
LEMMA NoNewEarly == TypeInv /\ EarlyInv /\ [Next]_vars => (Early' => Early)
<1> SUFFICES ASSUME TypeInv, EarlyInv, [Next]_vars, ~Early PROVE ~Early'
  OBVIOUS
<1> USE ThreadsInTypes
<1>0. evq \in Seq(Events) /\ PendingFirst /\ pc \in [Threads -> Labels]
  BY DEF TypeInv, Types, EarlyInv
<1>1. ~Waiting("PENDING")'
  BY <1>0, QueueStep, PendingPush, PendingTail DEF Early, Waiting
<1>2. ~DeliverPending
  BY <1>0, PendingHead DEF Early, DeliverPending
<1>3. ~Accepting'
  <2>1. CASE Exec
    BY <1>0, <1>2, <2>1
       DEF Exec, DeliverStale, DeliverRefused, Deliver, Early, Accepting, Go
  <2>2. CASE Accept
    BY <1>0, <2>2
       DEF Accept, AcceptNoMemory, AcceptPush, AcceptRead, AcceptTimer,
           Early, Accepting, Go
  <2>3. CASE Kernel
    BY <2>3
       DEF Kernel, RecvArrives, RecvPeerGone, RecvAborted,
           SendCompletes, SendAborted, TimerExpires, Early, Accepting
  <2>4. ASSUME NEW t \in Callers, Call(t) PROVE ~Accepting'
    BY <1>0, <2>4 DEF Call, CallSend, CallClose, Early, Accepting, Go
  <2>5. ASSUME NEW t \in Callers, Send(t) PROVE ~Accepting'
    BY <1>0, <2>5, SendEffect DEF Early, Accepting, Go
  <2>6. ASSUME NEW w \in Workers, Handler(w) PROVE ~Accepting'
    <3>1. pc' = pc \/ \E l : Go(w, l)
      BY <2>6 DEF Handler, RecvHandler, SentHandler, TimerHandler
    <3> QED
      BY <3>1, OthersMove DEF Early, Accepting
  <2>7. ASSUME NEW w \in Workers, HandlerStep(w) \/ RecvPacket(w) PROVE ~Accepting'
    BY <2>7, HandlerControl, OthersMove DEF Early, Accepting
  <2>8. ASSUME NEW t \in Threads, Close(t) PROVE ~Accepting'
    <3>1. PICK l \in CloseLabels \cup {"idle"} : Go(t, l)
      BY <2>8, CloseControl
    <3> QED
      BY <3>1, OthersMove DEF Early, Accepting, CloseLabels
  <2>9. CASE UNCHANGED vars
    BY <2>9 DEF vars, Early, Accepting
  <2> QED
    BY <2>1, <2>2, <2>3, <2>4, <2>5, <2>6, <2>7, <2>8, <2>9 DEF Next, Over
<1> QED
  BY <1>1, <1>3 DEF Early

\* The logic thread alone closes a socket whose EVENT_PENDING still waits, and
\* it closes it completely.  (So accept() never revives a closed one.)
CloseOrder ==
    /\ pc[Main] = "idle" => status = IF linked THEN 1 ELSE 0
    /\ pc[Main] = "close_cas" => status = 1
    /\ pc[Main] \in {"close_sock", "close_op", "close_cas3"} => status = 2
    /\ pc[Main] \in {"close_push", "close_zero"} => status = 3
    /\ pc[Main] \in {"close_op0", "close_st0", "link_chk", "link_null", "link_free"} =>
          status = 0
    /\ pc[Main] \in CloseLabels => (linked <=> pc[Main] # "link_free")

StatusInv ==
    /\ Waiting("PENDING") => CloseOrder
    /\ Accepting => status = 1

\* A pending socket is connected and in the table.
LEMMA InitStatus == Init => StatusInv
BY ThreadsInTypes DEF Init, StatusInv, CloseOrder, Accepting, CloseLabels

\* CloseOrder is preserved: the logic thread takes close() through all its
\* statements before it looks at the queue again, and operator_count_ is zero.
LEMMA StatusStep == CountInv /\ StatusInv /\ [Next]_vars => StatusInv'
<1> SUFFICES ASSUME CountInv, StatusInv, [Next]_vars, Early PROVE StatusInv'
  BY NoNewEarly DEF CountInv, StatusInv, Early
<1> USE ThreadsInTypes
<1>0. /\ evq \in Seq(Events) /\ PendingFirst /\ pc \in [Threads -> Labels]
      /\ Quiet /\ TypeInv /\ EarlyInv
  BY DEF CountInv, TypeInv, Types, EarlyInv
<1>1. opcount = 0
  <2>1. Handlers = {}
    BY <1>0, ThreadsAssumption DEF Quiet, Handlers, RecvLabels, SentLabels
  <2> QED
    BY <1>0, <2>1, HandlersCount DEF CountInv, OpCountExact, Quiet, Outstanding
<1>2. CASE Exec
  <2>1. ~Waiting("PENDING")'
    BY <1>0, <1>2, PendingTail DEF Exec, DeliverStale, DeliverRefused, DeliverPending, Deliver
  <2>2. Accepting' => status' = 1
    BY <1>0, <1>2
       DEF Exec, DeliverStale, DeliverRefused, DeliverPending, Deliver, Accepting, Go
  <2> QED
    BY <2>1, <2>2 DEF StatusInv
<1>3. CASE Accept
  <2>1. ~Waiting("PENDING")
    BY <1>3
       DEF CountInv, EarlyInv, Accept, AcceptNoMemory, AcceptPush, AcceptRead, AcceptTimer,
           CloseLabels
  <2>2. ~Waiting("PENDING")'
    <3>1. evq' = evq \/ \E e \in Events \ {"PENDING"} : Push(e)
      BY <1>3 DEF Accept, AcceptNoMemory, AcceptPush, AcceptRead, AcceptTimer, Events
    <3> QED
      BY <1>0, <2>1, <3>1, PendingPush DEF Waiting
  <2>3. status' = status
    BY <1>3 DEF Accept, AcceptNoMemory, AcceptPush, AcceptRead, AcceptTimer, sock
  <2>4. Accepting
    BY <2>1 DEF Early
  <2> QED
    BY <2>2, <2>3, <2>4 DEF StatusInv
<1>4. CASE CallClose(Main)
  <2>1. /\ pc[Main] = "idle" /\ pc'[Main] = "close_cas" /\ linked
        /\ UNCHANGED <<status, linked, evq>>
    BY <1>0, <1>4 DEF CallClose, HasHandle, Go, sock, table
  <2> QED
    BY <2>1 DEF StatusInv, CloseOrder, Accepting, Waiting, CloseLabels
<1>5. CASE Close(Main)
  <2>1. pc[Main] \in CloseLabels /\ (evq' = evq \/ Push("CLOSE"))
    BY <1>5, CloseControl
  <2>2. CloseOrder
    BY <2>1 DEF StatusInv, Early, Accepting, CloseLabels
  <2>3. CloseOrder'
    <3> USE <1>0, <2>2 DEF CloseOrder, CloseLabels, Go
    <3>1. CASE CloseCas(Main) BY <3>1 DEF CloseCas, table
    <3>2. CASE CloseSock(Main) BY <3>2 DEF CloseSock, table
    <3>3. CASE CloseOp(Main) BY <1>1, <3>3 DEF CloseOp, sock, table
    <3>4. CASE CloseCas3(Main) BY <3>4 DEF CloseCas3, table
    <3>5. CASE ClosePush(Main) BY <3>5 DEF ClosePush, sock, table
    <3>6. CASE CloseZero(Main) BY <3>6 DEF CloseZero, table
    <3>7. CASE CloseOp0(Main) BY <1>1, <3>7 DEF CloseOp0, sock, table
    <3>8. CASE CloseSt0(Main) BY <3>8 DEF CloseSt0, sock, table
    <3>9. CASE LinkCheck(Main) BY <3>9 DEF LinkCheck, sock, table
    <3>10. CASE LinkNull(Main) BY <3>10 DEF LinkNull, sock
    <3>11. CASE LinkFree(Main) BY <3>11 DEF LinkFree, Return, sock
    <3> QED
      BY <1>5, <3>1, <3>2, <3>3, <3>4, <3>5, <3>6, <3>7, <3>8, <3>9, <3>10, <3>11 DEF Close
  <2>4. ~Accepting'
    <3>1. PICK l \in CloseLabels \cup {"idle"} : Go(Main, l)
      BY <1>5, CloseControl
    <3> QED
      BY <1>0, <3>1, OthersMove DEF Accepting, CloseLabels
  <2> QED
    BY <2>3, <2>4 DEF StatusInv
<1>6. CASE UNCHANGED vars
  BY <1>6 DEF vars, StatusInv, CloseOrder, Accepting, Waiting
<1> QED
  BY <1>0, <1>2, <1>3, <1>4, <1>5, <1>6, EarlyActions

Closing == {t \in Threads : pc[t] \in {"close_push", "close_zero"}}

\* One thread carries connect_status_ from 2 over 3 to 0, and posts CLOSE on
\* the way; there is no way back from there.
CloseInv ==
    /\ \A t \in Closing : status = 3 /\ Closing = {t}
    /\ Waiting("CLOSE") \/ session = "closed" =>
          status \in {0, 3} /\ \A t \in Threads : pc[t] # "close_push"
    /\ CloseOnce

\* The steps that are neither close() nor Exec: all they do here is post
\* events other than CLOSE.
LEMMA Bystanders ==
    ASSUME TypeInv, [Next]_vars, ~Exec, \A t \in Threads : ~Close(t)
    PROVE  /\ UNCHANGED <<status, session>>
           /\ \A t \in Threads : \A l \in {"close_cas3", "close_push", "close_zero"} :
                 pc[t] = l <=> pc'[t] = l
           /\ evq' = evq \/ \E e \in Events \ {"PENDING", "CLOSE"} : Push(e)
<1> USE ThreadsInTypes
<1>0. pc \in [Threads -> Labels]
  BY DEF TypeInv, Types
<1> DEFINE Same == \A t \in Threads : \A l \in {"close_cas3", "close_push", "close_zero"} :
                      pc[t] = l <=> pc'[t] = l
<1> DEFINE Posts == evq' = evq \/ \E e \in Events \ {"PENDING", "CLOSE"} : Push(e)
<1>1. CASE Accept
  <2>1. Same
    BY <1>0, <1>1 DEF Accept, AcceptNoMemory, AcceptPush, AcceptRead, AcceptTimer, Go
  <2>2. Posts /\ UNCHANGED <<status, session>>
    BY <1>1 DEF Accept, AcceptNoMemory, AcceptPush, AcceptRead, AcceptTimer, sock, Events
  <2> QED
    BY <2>1, <2>2
<1>2. CASE Kernel
  BY <1>2
     DEF Kernel, RecvArrives, RecvPeerGone, RecvAborted,
         SendCompletes, SendAborted, TimerExpires, sock
<1>3. ASSUME NEW t \in Callers, Call(t) PROVE Same /\ Posts /\ UNCHANGED <<status, session>>
  BY <1>0, <1>3 DEF Call, CallSend, CallClose, Go, sock
<1>4. ASSUME NEW t \in Callers, Send(t) PROVE Same /\ Posts /\ UNCHANGED <<status, session>>
  <2>1. Same
    BY <1>0, <1>4, SendEffect DEF Go
  <2> QED
    BY <1>4, <2>1, SendEffect DEF Events
<1>5. ASSUME NEW w \in Workers, Handler(w) PROVE Same /\ Posts /\ UNCHANGED <<status, session>>
  <2>1. Same
    BY <1>0, <1>5 DEF Handler, RecvHandler, SentHandler, TimerHandler, Go
  <2> QED
    BY <1>5, <2>1 DEF Handler, RecvHandler, SentHandler, TimerHandler, sock
<1>6. ASSUME NEW w \in Workers, HandlerStep(w) \/ RecvPacket(w)
      PROVE  Same /\ Posts /\ UNCHANGED <<status, session>>
  <2>1. Same
    <3>1. PICK l \in HandlerLabels \cup {"idle", "close_cas"} : Go(w, l)
      BY <1>6, HandlerControl
    <3>2. pc[w] \in HandlerLabels
      BY <1>6, HandlerControl
    <3> QED
      BY <1>0, <3>1, <3>2 DEF Go, HandlerLabels, RecvLabels, SentLabels
  <2>2. Posts /\ session' = session
    BY <1>6, HandlerControl DEF Events
  <2>3. status' = status
    <3>1. CASE SentPop(w)
      BY <3>1, SentPopEffect
    <3>2. CASE ~SentPop(w)
      BY <1>6, <3>2
         DEF HandlerStep, RecvTooLong, RecvAgain, RecvDrop, SentError, SentDec,
             SentCheck, TimerPing, RecvPacket, sock
    <3> QED
      BY <3>1, <3>2
  <2> QED
    BY <2>1, <2>2, <2>3
<1>7. CASE UNCHANGED vars
  BY <1>7 DEF vars
<1> QED
  BY <1>1, <1>2, <1>3, <1>4, <1>5, <1>6, <1>7 DEF Next, Over

\* What Exec does to the close protocol: it tells the session.  Accepting a
\* pending socket does not change its status.
LEMMA ExecClose ==
    ASSUME CountInv, StatusInv, Exec
    PROVE  /\ status' = status
           /\ evq # <<>> /\ evq' = Tail(evq)
           /\ session' = "closed" => session = "closed" \/ Head(evq) = "CLOSE"
           /\ \A t \in Threads : \A l \in {"close_cas3", "close_push", "close_zero"} :
                 pc[t] = l <=> pc'[t] = l
<1> USE ThreadsInTypes
<1>0. evq \in Seq(Events) /\ PendingFirst /\ pc \in [Threads -> Labels]
  BY DEF CountInv, TypeInv, Types, EarlyInv
<1>1. \A t \in Threads : \A l \in {"close_cas3", "close_push", "close_zero"} :
         pc[t] = l <=> pc'[t] = l
  BY <1>0 DEF Exec, DeliverStale, DeliverRefused, DeliverPending, Deliver, Go
<1>2. CASE DeliverPending
  <2>1. status = 1
    BY <1>0, <1>2, PendingHead DEF DeliverPending, StatusInv, CloseOrder
  <2> QED
    BY <1>1, <1>2, <2>1 DEF DeliverPending
<1>3. CASE DeliverStale \/ DeliverRefused \/ Deliver
  BY <1>1, <1>3 DEF DeliverStale, DeliverRefused, Deliver, sock
<1> QED
  BY <1>2, <1>3 DEF Exec

\* At first nobody closes.
LEMMA InitClose == Init => CloseInv
BY DEF Init, CloseInv, Closing, Waiting, CloseOnce

\* Each step of close() either leaves status, the closing thread and the queue
\* as they are, or is one of the three that carry the close through.
LEMMA CloseSteps ==
    ASSUME TypeInv, NEW t \in Threads, Close(t)
    PROVE  \/ /\ evq' = evq
              /\ status' = status \/ (status = 1 /\ status' = 2)
              /\ \A u \in Threads : \A l \in {"close_push", "close_zero"} :
                    pc[u] = l <=> pc'[u] = l
              /\ \A u \in Threads : pc'[u] = "close_cas3" /\ pc[u] # "close_cas3" =>
                    opcount = 0 /\ u = t
           \/ /\ CloseCas3(t) /\ evq' = evq /\ status = 2 /\ status' = 3
              /\ pc' = [pc EXCEPT ![t] = "close_push"]
           \/ /\ ClosePush(t) /\ Push("CLOSE") /\ status' = status
              /\ pc' = [pc EXCEPT ![t] = "close_zero"]
           \/ /\ CloseZero(t) /\ evq' = evq /\ status' = 0
              /\ pc' = [pc EXCEPT ![t] = "close_op0"]
<1>0. pc \in [Threads -> Labels]
  BY DEF TypeInv, Types
<1> USE DEF Go
<1>1. CASE CloseCas(t) BY <1>0, <1>1 DEF CloseCas
<1>2. CASE CloseSock(t) BY <1>0, <1>2 DEF CloseSock
<1>3. CASE CloseOp(t) BY <1>0, <1>3 DEF CloseOp, sock
<1>4. CASE CloseCas3(t) BY <1>0, <1>4 DEF CloseCas3
<1>5. CASE ClosePush(t) BY <1>0, <1>5 DEF ClosePush, sock
<1>6. CASE CloseZero(t) BY <1>0, <1>6 DEF CloseZero
<1>7. CASE CloseOp0(t) BY <1>0, <1>7 DEF CloseOp0, Return, sock
<1>8. CASE CloseSt0(t) BY <1>0, <1>8 DEF CloseSt0, Return, sock
<1>9. CASE LinkCheck(t) BY <1>0, <1>9 DEF LinkCheck, Return, sock
<1>10. CASE LinkNull(t) BY <1>0, <1>10 DEF LinkNull, sock
<1>11. CASE LinkFree(t) BY <1>0, <1>11 DEF LinkFree, Return, sock
<1> QED
  BY <1>1, <1>2, <1>3, <1>4, <1>5, <1>6, <1>7, <1>8, <1>9, <1>10, <1>11 DEF Close

\* Posting anything else, or taking the first event, keeps CLOSE unique.
LEMMA OncePush ==
    ASSUME evq \in Seq(Events), CloseOnce, NEW e \in Events, Push(e), session' = session,
           e = "CLOSE" => ~Waiting("CLOSE") /\ session # "closed"
    PROVE  CloseOnce'
<1>1. /\ Len(evq) \in Nat /\ Len(evq') = Len(evq) + 1
      /\ \A i \in 1..Len(evq) : evq'[i] = evq[i]
      /\ evq'[Len(evq) + 1] = e
  BY PushWaiting
<1>2. CASE e = "CLOSE"
  BY <1>1, <1>2 DEF CloseOnce, Waiting
<1>3. CASE e # "CLOSE"
  BY <1>1, <1>3 DEF CloseOnce
<1> QED
  BY <1>2, <1>3

\* Taking the first event keeps CLOSE unique, in the queue or reported.
LEMMA OnceTail ==
    ASSUME evq \in Seq(Events), CloseOnce, evq # <<>>, evq' = Tail(evq),
           session' = "closed" => session = "closed" \/ Head(evq) = "CLOSE"
    PROVE  CloseOnce'
<1>1. /\ Len(evq') = Len(evq) - 1 /\ Len(evq) \in Nat \ {0}
      /\ \A i \in 1..Len(evq') : i + 1 \in 1..Len(evq) /\ evq'[i] = evq[i + 1]
      /\ Head(evq) = evq[1] /\ 1 \in 1..Len(evq)
  BY TailWaiting
<1>2. \A i, j \in 1..Len(evq') : evq'[i] = "CLOSE" /\ evq'[j] = "CLOSE" => i = j
  <2> SUFFICES ASSUME NEW i \in 1..Len(evq'), NEW j \in 1..Len(evq'),
                      evq'[i] = "CLOSE", evq'[j] = "CLOSE"
               PROVE  i = j
    OBVIOUS
  <2>1. i + 1 = j + 1
    BY <1>1 DEF CloseOnce
  <2> QED
    BY <1>1, <2>1
<1>3. session' = "closed" => \A i \in 1..Len(evq') : evq'[i] # "CLOSE"
  <2> SUFFICES ASSUME session' = "closed", NEW i \in 1..Len(evq'), evq'[i] = "CLOSE"
               PROVE  FALSE
    OBVIOUS
  <2>1. i + 1 \in 1..Len(evq) /\ evq[i + 1] = "CLOSE"
    BY <1>1
  <2>2. Head(evq) = "CLOSE"
    BY <2>1 DEF CloseOnce
  <2>3. 1 = i + 1
    BY <1>1, <2>1, <2>2 DEF CloseOnce
  <2> QED
    BY <1>1, <2>3
<1> QED
  BY <1>2, <1>3 DEF CloseOnce

\* CloseInv is preserved: the exchange of 2 for 3 picks the one thread that
\* posts CLOSE.
LEMMA CloseStep == CountInv /\ StatusInv /\ CloseInv /\ [Next]_vars => CloseInv'
<1> SUFFICES ASSUME CountInv, StatusInv, CloseInv, [Next]_vars PROVE CloseInv'
  OBVIOUS
<1>0. evq \in Seq(Events) /\ pc \in [Threads -> Labels] /\ TypeInv
  BY DEF CountInv, TypeInv, Types
<1>1. CASE Exec
  <2>1. Closing' = Closing /\ status' = status
    BY <1>1, ExecClose DEF Closing
  <2>2. CloseOnce'
    BY <1>0, <1>1, ExecClose, OnceTail DEF CloseInv
  <2>3. Waiting("CLOSE")' \/ session' = "closed" => Waiting("CLOSE") \/ session = "closed"
    <3>1. Head(evq) = "CLOSE" => Waiting("CLOSE")
      BY <1>0, <1>1, ExecClose, TailWaiting DEF Waiting
    <3> QED
      BY <1>0, <1>1, <3>1, ExecClose, TailWaiting
  <2>4. (\A t \in Threads : pc[t] # "close_push") => \A t \in Threads : pc'[t] # "close_push"
    BY <1>1, ExecClose
  <2> QED
    BY <2>1, <2>2, <2>3, <2>4 DEF CloseInv
<1>2. ASSUME NEW t \in Threads, Close(t) PROVE CloseInv'
  <2>0. session' = session
    BY <1>2, CloseFrame
  <2>1. CASE /\ evq' = evq
             /\ status' = status \/ (status = 1 /\ status' = 2)
             /\ \A u \in Threads : \A l \in {"close_push", "close_zero"} :
                   pc[u] = l <=> pc'[u] = l
    <3>1. Closing' = Closing
      BY <2>1 DEF Closing
    <3>2. CloseOnce' /\ (Waiting("CLOSE")' <=> Waiting("CLOSE"))
      BY <2>0, <2>1 DEF CloseInv, CloseOnce, Waiting
    <3> QED
      BY <2>0, <2>1, <3>1, <3>2 DEF CloseInv
  <2>2. CASE /\ evq' = evq /\ status = 2 /\ status' = 3
             /\ pc' = [pc EXCEPT ![t] = "close_push"]
    <3>1. Closing = {} /\ Closing' = {t}
      BY <1>0, <2>2 DEF CloseInv, Closing
    <3>2. CloseOnce' /\ ~Waiting("CLOSE")' /\ session' # "closed"
      BY <2>0, <2>2 DEF CloseInv, CloseOnce, Waiting
    <3> QED
      BY <2>2, <3>1, <3>2 DEF CloseInv
  <2>3. CASE /\ ClosePush(t) /\ Push("CLOSE") /\ status' = status
             /\ pc' = [pc EXCEPT ![t] = "close_zero"]
    <3>1. pc[t] = "close_push"
      BY <2>3 DEF ClosePush
    <3>2. t \in Closing /\ Closing = {t} /\ status = 3
      BY <3>1 DEF CloseInv, Closing
    <3>3. Closing' = {t}
      BY <1>0, <2>3, <3>2 DEF Closing
    <3>4. \A u \in Threads : pc'[u] # "close_push"
      BY <1>0, <2>3, <3>2 DEF Closing
    <3>5. ~Waiting("CLOSE") /\ session # "closed"
      BY <3>1 DEF CloseInv
    <3>6. CloseOnce'
      BY <1>0, <2>0, <2>3, <3>5, OncePush DEF CloseInv, Events
    <3> QED
      BY <2>3, <3>2, <3>3, <3>4, <3>6 DEF CloseInv
  <2>4. CASE /\ CloseZero(t) /\ evq' = evq /\ status' = 0
             /\ pc' = [pc EXCEPT ![t] = "close_op0"]
    <3>1. Closing = {t}
      BY <2>4 DEF CloseZero, CloseInv, Closing
    <3>2. Closing' = {} /\ \A u \in Threads : pc'[u] # "close_push"
      BY <1>0, <2>4, <3>1 DEF Closing
    <3>3. CloseOnce'
      BY <2>0, <2>4 DEF CloseInv, CloseOnce
    <3> QED
      BY <2>4, <3>2, <3>3 DEF CloseInv
  <2> QED
    BY <1>0, <1>2, <2>1, <2>2, <2>3, <2>4, CloseSteps
<1>3. CASE ~Exec /\ \A t \in Threads : ~Close(t)
  <2>1. /\ UNCHANGED <<status, session>>
        /\ \A t \in Threads : \A l \in {"close_cas3", "close_push", "close_zero"} :
              pc[t] = l <=> pc'[t] = l
        /\ evq' = evq \/ \E e \in Events \ {"PENDING", "CLOSE"} : Push(e)
    BY <1>0, <1>3, Bystanders
  <2>2. Closing' = Closing
    BY <2>1 DEF Closing
  <2>3. Waiting("CLOSE")' <=> Waiting("CLOSE")
    BY <1>0, <2>1, PushWaiting DEF Waiting
  <2>4. CloseOnce'
    <3>1. CASE evq' = evq
      BY <2>1, <3>1 DEF CloseInv, CloseOnce
    <3>2. CASE \E e \in Events \ {"PENDING", "CLOSE"} : Push(e)
      BY <1>0, <2>1, <3>2, OncePush DEF CloseInv
    <3> QED
      BY <2>1, <3>1, <3>2
  <2> QED
    BY <2>1, <2>2, <2>3, <2>4 DEF CloseInv
<1> QED
  BY <1>1, <1>2, <1>3

\* Once a thread found operator_count_ = 0 and decided to report the close,
\* nobody reads and nobody will.
Silent == rd = "none" /\ Reading = {} /\ ~Accepting

Committed ==
    \/ status \in {0, 3}
    \/ \E t \in Threads : \E l \in {"close_cas3", "close_push", "close_zero"} : pc[t] = l

SilentInv == Committed => Silent

\* At first nobody is committed to a close.
LEMMA InitSilent == Init => SilentInv
BY ThreadsInTypes DEF Init, SilentInv, Committed

\* operator_count_ = 0 as a thread inside close() reads it.
LEMMA ZeroIsSilent ==
    ASSUME CountInv, opcount = 0, NEW t \in Threads, pc[t] \in CloseLabels
    PROVE  Silent
<1>1. Outstanding(rd) \in Nat /\ Outstanding(wr) \in Nat
  BY DEF Outstanding
<1>2. Cardinality(Handlers) = 0 /\ Outstanding(rd) = 0
  BY <1>1, HandlersCount DEF CountInv, OpCountExact
<1>3. rd = "none" /\ Handlers = {}
  BY <1>2, HandlersCount DEF Outstanding
<1>4. Reading = {}
  BY <1>3 DEF Handlers, Reading
<1>5. ~Accepting
  BY DEF CountInv, EarlyInv, Early, Accepting, Quiet, CloseLabels
<1> QED
  BY <1>3, <1>4, <1>5 DEF Silent

\* Silence lasts: a read starts only in accept(), which is over, or in the
\* handler of a read.
LEMMA SilenceLasts ==
    ASSUME CountInv, StatusInv, Silent, [Next]_vars, ~DeliverPending
    PROVE  Silent'
<1> USE ThreadsInTypes
<1>0. evq \in Seq(Events) /\ PendingFirst /\ pc \in [Threads -> Labels] /\ TypeInv /\ EarlyInv
  BY DEF CountInv, TypeInv, Types, EarlyInv
<1>1. CASE Exec
  <2>1. rd' = rd /\ \E l \in {"idle", "close_cas"} : pc' = [pc EXCEPT ![Main] = l]
    BY <1>0, <1>1 DEF Exec, DeliverStale, DeliverRefused, Deliver, Go, io
  <2> QED
    BY <1>0, <2>1 DEF Silent, Reading, Accepting, RecvLabels
<1>2. CASE Accept
  <2>1. AcceptTimer
    BY <1>2 DEF Silent, Accepting, Accept, AcceptNoMemory, AcceptPush, AcceptRead
  <2> QED
    BY <1>0, <2>1 DEF AcceptTimer, Silent, Reading, Accepting, RecvLabels, Go
<1>3. CASE Kernel
  BY <1>3 DEF Kernel, RecvArrives, RecvPeerGone, RecvAborted,
              SendCompletes, SendAborted, TimerExpires, Silent, Reading, Accepting
<1>4. ASSUME NEW t \in Callers, Call(t) PROVE Silent'
  <2>1. rd' = rd /\ \E l \in {"send_lock", "close_cas"} : pc' = [pc EXCEPT ![t] = l]
    BY <1>4 DEF Call, CallSend, CallClose, Go, io
  <2> QED
    BY <1>0, <2>1 DEF Silent, Reading, Accepting, RecvLabels
<1>5. ASSUME NEW t \in Callers, Send(t) PROVE Silent'
  <2>1. rd' = rd /\ (Go(t, "idle") \/ Go(t, "close_cas"))
    BY <1>0, <1>5, SendEffect
  <2> QED
    BY <1>0, <2>1 DEF Go, Silent, Reading, Accepting, RecvLabels
<1>6. ASSUME NEW w \in Workers, Handler(w) PROVE Silent'
  <2>1. ~RecvHandler(w)
    BY DEF Silent, RecvHandler
  <2>2. rd' = rd /\ (pc' = pc \/ \E l \in {"sent_lock", "sent_err", "tick_push"} :
                                   pc' = [pc EXCEPT ![w] = l])
    BY <1>6, <2>1 DEF Handler, SentHandler, TimerHandler, Go
  <2> QED
    BY <1>0, <2>2 DEF Silent, Reading, Accepting, RecvLabels
<1>7. ASSUME NEW w \in Workers, HandlerStep(w) \/ RecvPacket(w) PROVE Silent'
  <2>1. pc[w] \notin RecvLabels
    BY DEF Silent, Reading
  <2>2. rd' = rd /\ \E l \in {"sent_dec", "sent_chk", "close_cas", "idle"} :
                      pc' = [pc EXCEPT ![w] = l]
    BY <1>7, <2>1
       DEF HandlerStep, RecvTooLong, RecvAgain, RecvDrop, SentError, SentPop, SentDec,
           SentCheck, TimerPing, RecvPacket, RecvLabels, Go, Return, io
  <2> QED
    BY <1>0, <2>2 DEF Silent, Reading, Accepting, RecvLabels
<1>8. ASSUME NEW t \in Threads, Close(t) PROVE Silent'
  <2>1. rd' = rd /\ \E l \in CloseLabels \cup {"idle"} : pc' = [pc EXCEPT ![t] = l]
    BY <1>8, CloseFrame, CloseControl DEF Go
  <2> QED
    BY <1>0, <2>1 DEF Silent, Reading, Accepting, RecvLabels, CloseLabels
<1>9. CASE UNCHANGED vars
  BY <1>9 DEF vars, Silent, Reading, Accepting
<1> QED
  BY <1>1, <1>2, <1>3, <1>4, <1>5, <1>6, <1>7, <1>8, <1>9 DEF Next, Over

\* SilentInv is preserved: a thread commits to the close only on
\* operator_count_ = 0, and that is for good.
LEMMA SilentStep == CountInv /\ StatusInv /\ SilentInv /\ [Next]_vars => SilentInv'
<1> SUFFICES ASSUME CountInv, StatusInv, SilentInv, [Next]_vars, Committed' PROVE Silent'
  BY DEF SilentInv
<1>0. /\ evq \in Seq(Events) /\ PendingFirst /\ pc \in [Threads -> Labels]
      /\ TypeInv /\ EarlyInv
  BY DEF CountInv, TypeInv, Types, EarlyInv
<1>1. CASE Exec
  <2>1. Committed
    BY <1>1, ExecClose DEF Committed
  <2>2. ~DeliverPending
    <3> SUFFICES ASSUME DeliverPending PROVE FALSE
      OBVIOUS
    <3>1. Waiting("PENDING") /\ pc[Main] = "idle" /\ linked
      BY <1>0, PendingHead DEF DeliverPending
    <3>2. status = 1
      BY <3>1 DEF StatusInv, CloseOrder
    <3>3. \A t \in Threads : pc[t] = "idle"
      BY <3>1 DEF CountInv, EarlyInv, Early, Quiet
    <3> QED
      BY <2>1, <3>2, <3>3 DEF Committed
  <2> QED
    BY <2>1, <2>2, SilenceLasts DEF SilentInv
<1>2. ASSUME NEW t \in Threads, Close(t) PROVE Silent'
  <2>1. ~DeliverPending
    <3>1. pc[t] \in CloseLabels
      BY <1>2, CloseControl
    <3>2. evq # <<>> /\ Head(evq) = "PENDING" => \A u \in Threads : u # Main => pc[u] = "idle"
      BY <1>0, PendingHead DEF EarlyInv, Early, Quiet
    <3> QED
      BY <3>1, <3>2 DEF DeliverPending, CloseLabels
  <2>2. Silent
    <3>1. CASE Committed
      BY <3>1 DEF SilentInv
    <3>2. CASE ~Committed
      <4>1. /\ evq' = evq
            /\ status' = status \/ (status = 1 /\ status' = 2)
            /\ \A u \in Threads : \A l \in {"close_push", "close_zero"} :
                  pc[u] = l <=> pc'[u] = l
            /\ \A u \in Threads : pc'[u] = "close_cas3" /\ pc[u] # "close_cas3" =>
                  opcount = 0 /\ u = t
        BY <1>0, <1>2, <3>2, CloseSteps DEF Committed, CloseCas3, ClosePush, CloseZero
      <4>2. PICK u \in Threads : pc'[u] = "close_cas3" /\ pc[u] # "close_cas3"
        BY <3>2, <4>1 DEF Committed
      <4> QED
        BY <1>2, <4>1, <4>2, ZeroIsSilent, CloseControl
    <3> QED
      BY <3>1, <3>2
  <2> QED
    BY <2>1, <2>2, SilenceLasts
<1>3. CASE ~Exec /\ \A t \in Threads : ~Close(t)
  <2>1. Committed
    BY <1>0, <1>3, Bystanders DEF Committed
  <2> QED
    BY <1>3, <2>1, SilenceLasts DEF SilentInv, Exec
<1> QED
  BY <1>1, <1>2, <1>3

\* DATA keeps out of the way of CLOSE.
LEMMA NoDataPush ==
    ASSUME evq \in Seq(Events), NoDataAfterClose, NEW e \in Events, Push(e), session' = session,
           e = "DATA" => ~Waiting("CLOSE") /\ session # "closed"
    PROVE  NoDataAfterClose'
<1>1. /\ Len(evq) \in Nat /\ Len(evq') = Len(evq) + 1
      /\ \A i \in 1..Len(evq) : evq'[i] = evq[i]
      /\ evq'[Len(evq) + 1] = e
  BY PushWaiting
<1>2. CASE e = "DATA"
  BY <1>1, <1>2 DEF NoDataAfterClose, Waiting
<1>3. CASE e # "DATA"
  BY <1>1, <1>3 DEF NoDataAfterClose
<1> QED
  BY <1>2, <1>3

\* Taking the first event keeps the order of the others.
LEMMA NoDataTail ==
    ASSUME evq \in Seq(Events), NoDataAfterClose, evq # <<>>, evq' = Tail(evq),
           session' = "closed" => session = "closed" \/ Head(evq) = "CLOSE"
    PROVE  NoDataAfterClose'
<1>1. /\ Len(evq') = Len(evq) - 1 /\ Len(evq) \in Nat \ {0}
      /\ \A i \in 1..Len(evq') : i + 1 \in 1..Len(evq) /\ evq'[i] = evq[i + 1]
      /\ Head(evq) = evq[1] /\ 1 \in 1..Len(evq)
  BY TailWaiting
<1>2. \A i, j \in 1..Len(evq') : evq'[i] = "CLOSE" /\ evq'[j] = "DATA" => j < i
  <2> SUFFICES ASSUME NEW i \in 1..Len(evq'), NEW j \in 1..Len(evq'),
                      evq'[i] = "CLOSE", evq'[j] = "DATA"
               PROVE  j < i
    OBVIOUS
  <2>1. j + 1 < i + 1
    BY <1>1 DEF NoDataAfterClose
  <2> QED
    BY <1>1, <2>1
<1>3. session' = "closed" => \A i \in 1..Len(evq') : evq'[i] # "DATA"
  <2> SUFFICES ASSUME session' = "closed", NEW i \in 1..Len(evq'), evq'[i] = "DATA"
               PROVE  FALSE
    OBVIOUS
  <2>1. i + 1 \in 1..Len(evq) /\ evq[i + 1] = "DATA"
    BY <1>1
  <2>2. Head(evq) = "CLOSE"
    BY <2>1 DEF NoDataAfterClose
  <2>3. i + 1 < 1
    BY <1>1, <2>1, <2>2 DEF NoDataAfterClose
  <2> QED
    BY <1>1, <2>3
<1> QED
  BY <1>2, <1>3 DEF NoDataAfterClose

\* Only the read handler posts DATA.
LEMMA DataIsReceived ==
    ASSUME TypeInv, [Next]_vars, Push("DATA")
    PROVE  \E w \in Workers : RecvPacket(w)
<1>0. evq \in Seq(Events) /\ "DATA" \in Events
  BY DEF TypeInv, Types, Events
<1>1. Len(evq') = Len(evq) + 1 /\ Len(evq) \in Nat /\ evq'[Len(evq) + 1] = "DATA"
  BY <1>0, PushWaiting
<1>2. evq' # evq
  BY <1>1
<1>3. ASSUME NEW e \in Events, Push(e) PROVE e = "DATA"
  BY <1>0, <1>1, <1>3, PushWaiting
<1>4. ~Exec
  <2> SUFFICES ASSUME Exec PROVE FALSE
    OBVIOUS
  <2>1. evq # <<>> /\ evq' = Tail(evq)
    BY DEF Exec, DeliverStale, DeliverRefused, DeliverPending, Deliver
  <2> QED
    BY <1>0, <1>1, <2>1, TailWaiting
<1>5. ~Accept
  BY <1>2, <1>3 DEF Accept, AcceptNoMemory, AcceptPush, AcceptRead, AcceptTimer, Events
<1>6. ~Kernel
  BY <1>2 DEF Kernel, RecvArrives, RecvPeerGone, RecvAborted,
              SendCompletes, SendAborted, TimerExpires
<1>7. ASSUME NEW t \in Callers PROVE ~Call(t) /\ ~Send(t)
  BY <1>2, <1>3, SendEffect DEF Call, CallSend, CallClose, Events
<1>8. ASSUME NEW w \in Workers PROVE ~Handler(w)
  BY <1>2 DEF Handler, RecvHandler, SentHandler, TimerHandler
<1>9. ASSUME NEW w \in Workers PROVE ~HandlerStep(w)
  BY <1>2, <1>3
     DEF HandlerStep, RecvTooLong, RecvAgain, RecvDrop, SentError, SentPop, SentDec,
         SentCheck, TimerPing, Events
<1>10. ASSUME NEW t \in Threads PROVE ~Close(t)
  BY <1>2, <1>3, CloseControl DEF Events
<1>11. ~UNCHANGED vars
  BY <1>2 DEF vars
<1> QED
  BY <1>4, <1>5, <1>6, <1>7, <1>8, <1>9, <1>10, <1>11 DEF Next, Over

\* Every step keeps DATA before CLOSE.
LEMMA NoDataStep ==
    CountInv /\ StatusInv /\ CloseInv /\ SilentInv /\ NoDataAfterClose /\ [Next]_vars =>
        NoDataAfterClose'
<1> SUFFICES ASSUME CountInv, StatusInv, CloseInv, SilentInv, NoDataAfterClose, [Next]_vars
             PROVE  NoDataAfterClose'
  OBVIOUS
<1>0. evq \in Seq(Events) /\ TypeInv
  BY DEF CountInv, TypeInv, Types
<1>1. CASE Exec
  BY <1>0, <1>1, ExecClose, NoDataTail
<1>2. ASSUME NEW t \in Threads, Close(t) PROVE NoDataAfterClose'
  <2>1. session' = session /\ (evq' = evq \/ Push("CLOSE"))
    BY <1>2, CloseFrame, CloseControl
  <2> QED
    BY <1>0, <2>1, NoDataPush DEF NoDataAfterClose, Events
<1>3. CASE ~Exec /\ \A t \in Threads : ~Close(t)
  <2>1. session' = session /\ (evq' = evq \/ \E e \in Events \ {"PENDING", "CLOSE"} : Push(e))
    BY <1>0, <1>3, Bystanders
  <2>2. Push("DATA") => ~Waiting("CLOSE") /\ session # "closed"
    <3> SUFFICES ASSUME Push("DATA") PROVE ~Waiting("CLOSE") /\ session # "closed"
      OBVIOUS
    <3>1. \E w \in Workers : RecvPacket(w)
      BY <1>0, <1>3, DataIsReceived
    <3>2. Reading # {}
      BY <3>1 DEF RecvPacket, Reading, RecvLabels
    <3>3. status \notin {0, 3}
      BY <3>2 DEF SilentInv, Committed, Silent
    <3> QED
      BY <3>3 DEF CloseInv
  <2>3. CASE evq' = evq
    BY <2>1, <2>3 DEF NoDataAfterClose
  <2>4. ASSUME NEW e \in Events, Push(e) PROVE NoDataAfterClose'
    BY <1>0, <2>1, <2>2, <2>4, NoDataPush
  <2> QED
    BY <2>1, <2>3, <2>4
<1> QED
  BY <1>1, <1>2, <1>3

SocketInv == CountInv /\ StatusInv /\ CloseInv /\ SilentInv /\ NoDataAfterClose

\* The inductive invariant of the close protocol.
LEMMA SocketInvariant == Spec => []SocketInv
<1>1. Init => SocketInv
  <2>1. Init => NoDataAfterClose
    BY DEF Init, NoDataAfterClose
  <2> QED
    BY <2>1, InitTypes, InitEarly, InitIO, InitCount, InitStatus, InitClose, InitSilent
       DEF SocketInv, CountInv
<1>2. SocketInv /\ [Next]_vars => SocketInv'
  BY TypesStep, EarlyStep, IOStep, CountStep, StatusStep, CloseStep, SilentStep, NoDataStep
     DEF SocketInv, CountInv
<1> QED
  BY <1>1, <1>2, PTL DEF Spec

\* OnClose is reported once, whoever closes and however often.
THEOREM CloseOnceHolds == Spec => []CloseOnce
BY SocketInvariant, PTL DEF SocketInv, CloseInv

\* No session is given data after OnClose.
THEOREM NoDataAfterCloseHolds == Spec => []NoDataAfterClose
BY SocketInvariant, PTL DEF SocketInv
-----------------------------------------------------------------------------
(* Buffered bytes have somebody to send them on.                            *)

\* A step that takes nobody away who carries the bytes on.
LEMMA FlightKept ==
    ASSUME BytesInFlight, sbuf' = sbuf, status' = 1 => status = 1,
           wr # "none" => wr' # "none",
           \A w \in Completing : w \in Completing',
           \A t \in Threads : pc[t] = "close_cas" /\ status' = 1 => pc'[t] = "close_cas"
    PROVE  BytesInFlight'
BY DEF BytesInFlight, Completing

\* Bytes left in send_buffer_ of a connected socket are carried on: whoever
\* stops carrying them hands over to a new async_send or to close().  A socket
\* whose EVENT_PENDING still waits is connected, so accept() revives none.
LEMMA FlightStep == CountInv /\ StatusInv /\ BytesInFlight /\ [Next]_vars => BytesInFlight'
<1> SUFFICES ASSUME CountInv, StatusInv, BytesInFlight, [Next]_vars PROVE BytesInFlight'
  OBVIOUS
<1> USE ThreadsInTypes
<1>0. /\ pc \in [Threads -> Labels] /\ evq \in Seq(Events) /\ PendingFirst
      /\ TypeInv /\ EarlyInv /\ IOInv
  BY DEF CountInv, TypeInv, Types, EarlyInv
<1>1. CASE Exec
  <2>1. /\ UNCHANGED io /\ sbuf' = sbuf /\ pc[Main] = "idle"
        /\ pc' = pc \/ \E l : Go(Main, l)
    BY <1>1 DEF Exec, DeliverStale, DeliverRefused, DeliverPending, Deliver
  <2>2. \A t \in Threads : pc[t] # "idle" => pc'[t] = pc[t]
    BY <1>0, <2>1 DEF Go
  <2>3. status' = 1 => status = 1
    <3>1. CASE DeliverPending
      BY <1>0, <3>1, PendingHead DEF DeliverPending, StatusInv, CloseOrder
    <3>2. CASE DeliverStale \/ DeliverRefused \/ Deliver
      BY <3>2 DEF DeliverStale, DeliverRefused, Deliver, sock
    <3> QED
      BY <1>1, <3>1, <3>2 DEF Exec
  <2> QED
    BY <2>1, <2>2, <2>3, FlightKept DEF Completing, io
<1>2. CASE Accept
  <2>1. \A t \in Threads : pc[t] \in {"close_cas", "sent_err", "sent_lock"} => pc'[t] = pc[t]
    BY <1>0, <1>2 DEF Accept, AcceptNoMemory, AcceptPush, AcceptRead, AcceptTimer, Go
  <2>2. UNCHANGED <<status, sbuf, wr>>
    BY <1>2 DEF Accept, AcceptNoMemory, AcceptPush, AcceptRead, AcceptTimer, sock, io
  <2> QED
    BY <2>1, <2>2, FlightKept DEF Completing
<1>3. CASE Kernel
  <2>1. /\ UNCHANGED <<status, sbuf, pc>> /\ (wr # "none" => wr' # "none")
    BY <1>3
       DEF Kernel, RecvArrives, RecvPeerGone, RecvAborted,
           SendCompletes, SendAborted, TimerExpires, sock
  <2> QED
    BY <2>1, FlightKept DEF Completing
<1>4. ASSUME NEW t \in Callers, Call(t) PROVE BytesInFlight'
  <2>1. UNCHANGED <<status, sbuf, wr>> /\ pc[t] = "idle" /\ \E l : Go(t, l)
    BY <1>4 DEF Call, CallSend, CallClose, sock, io
  <2>2. \A u \in Threads : pc[u] # "idle" => pc'[u] = pc[u]
    BY <1>0, <2>1 DEF Go
  <2> QED
    BY <2>1, <2>2, FlightKept DEF Completing
<1>5. ASSUME NEW t \in Callers, Send(t) PROVE BytesInFlight'
  <2>1. /\ pc[t] = "send_lock" /\ status' = status /\ \E l : Go(t, l)
        /\ sbuf.len \in Nat
    BY <1>0, <1>5, SendEffect, SizesAssumption DEF TypeInv, Types, Buffer
  <2>2. \A u \in Threads : pc[u] \in {"close_cas", "sent_err", "sent_lock"} => pc'[u] = pc[u]
    BY <1>0, <2>1 DEF Go
  <2>3. CASE wr' = IF wr = "none" THEN "wait" ELSE "twice"
    BY <2>3 DEF BytesInFlight
  <2>4. CASE wr' = wr /\ Go(t, "close_cas")
    BY <1>0, <2>4 DEF BytesInFlight, Go
  <2>5. CASE wr' = wr /\ sbuf.len > 0
    BY <2>1, <2>2, <2>5 DEF BytesInFlight
  <2> QED
    BY <1>0, <1>5, <2>3, <2>4, <2>5, SendEffect
<1>6. ASSUME NEW w \in Workers, RecvHandler(w) \/ TimerHandler(w) PROVE BytesInFlight'
  <2>1. UNCHANGED <<status, sbuf, wr>> /\ pc[w] = "idle" /\ (pc' = pc \/ \E l : Go(w, l))
    BY <1>6 DEF RecvHandler, TimerHandler, sock
  <2>2. \A u \in Threads : pc[u] # "idle" => pc'[u] = pc[u]
    BY <1>0, <2>1 DEF Go
  <2> QED
    BY <2>1, <2>2, FlightKept DEF Completing
<1>7. ASSUME NEW w \in Workers, SentHandler(w) PROVE BytesInFlight'
  <2>1. pc'[w] \in {"sent_err", "sent_lock"}
    BY <1>0, <1>7 DEF SentHandler, Go
  <2> QED
    BY <2>1 DEF BytesInFlight
<1>8. ASSUME NEW w \in Workers, RecvTooLong(w) \/ RecvPacket(w) \/ RecvAgain(w) \/ RecvDrop(w)
      PROVE  BytesInFlight'
  <2>1. UNCHANGED <<status, sbuf, wr>> /\ pc[w] \in RecvLabels /\ \E l : Go(w, l)
    BY <1>8 DEF RecvTooLong, RecvPacket, RecvAgain, RecvDrop, RecvLabels, sock, io
  <2>2. \A u \in Threads : pc[u] \in {"close_cas", "sent_err", "sent_lock"} => pc'[u] = pc[u]
    BY <1>0, <2>1 DEF Go, RecvLabels
  <2> QED
    BY <2>1, <2>2, FlightKept DEF Completing
<1>9. ASSUME NEW w \in Workers, SentError(w) PROVE BytesInFlight'
  <2>1. w \in Threads /\ pc'[w] = "close_cas"
    BY <1>0, <1>9 DEF SentError, Go
  <2> QED
    BY <2>1 DEF BytesInFlight
<1>10. ASSUME NEW w \in Workers, SentPop(w) PROVE BytesInFlight'
  <2>1. CASE wr' = IF wr = "none" THEN "wait" ELSE "twice"
    BY <2>1 DEF BytesInFlight
  <2>2. CASE status' = 1 => sbuf'.len = 0
    BY <2>2 DEF BytesInFlight
  <2> QED
    BY <1>0, <1>10, <2>1, <2>2, SentPopEffect
<1>11. ASSUME NEW w \in Workers, SentDec(w) \/ SentCheck(w) \/ TimerPing(w)
       PROVE  BytesInFlight'
  <2>1. /\ UNCHANGED <<status, sbuf, wr>> /\ \E l : Go(w, l)
        /\ pc[w] \in {"sent_dec", "sent_chk", "tick_push"}
    BY <1>11 DEF SentDec, SentCheck, TimerPing, Return, sock, io
  <2>2. \A u \in Threads : pc[u] \in {"close_cas", "sent_err", "sent_lock"} => pc'[u] = pc[u]
    BY <1>0, <2>1 DEF Go
  <2> QED
    BY <2>1, <2>2, FlightKept DEF Completing
<1>12. ASSUME NEW t \in Threads, Close(t) PROVE BytesInFlight'
  <2>1. PICK l \in CloseLabels \cup {"idle"} : pc[t] \in CloseLabels /\ Go(t, l)
    BY <1>12, CloseControl
  <2>2. \A u \in Threads : u # t => pc'[u] = pc[u]
    BY <1>0, <2>1 DEF Go
  <2>3. (status' = 1 => status = 1) /\ (pc[t] = "close_cas" => status' # 1)
    <3>1. CASE CloseCas(t) BY <3>1 DEF CloseCas
    <3>2. CASE CloseSock(t) BY <3>2 DEF CloseSock
    <3>3. CASE CloseOp(t) BY <3>3 DEF CloseOp, sock
    <3>4. CASE CloseCas3(t) BY <3>4 DEF CloseCas3
    <3>5. CASE ClosePush(t) BY <3>5 DEF ClosePush, sock
    <3>6. CASE CloseZero(t) BY <3>6 DEF CloseZero
    <3>7. CASE CloseOp0(t) BY <3>7 DEF CloseOp0, sock
    <3>8. CASE CloseSt0(t) BY <3>8 DEF CloseSt0, sock
    <3>9. CASE LinkCheck(t) \/ LinkNull(t) \/ LinkFree(t)
      BY <3>9 DEF LinkCheck, LinkNull, LinkFree, sock
    <3> QED
      BY <1>12, <3>1, <3>2, <3>3, <3>4, <3>5, <3>6, <3>7, <3>8, <3>9 DEF Close
  <2>4. \A w \in Completing : w \in Completing'
    BY <2>1, <2>2 DEF Completing, CloseLabels
  <2> QED
    BY <1>12, <2>2, <2>3, <2>4, CloseFrame, FlightKept
<1>13. CASE UNCHANGED vars
  BY <1>13, FlightKept DEF vars, Completing
<1> QED
  BY <1>1, <1>2, <1>3, <1>4, <1>5, <1>6, <1>7, <1>8, <1>9, <1>10, <1>11, <1>12, <1>13
     DEF Next, Over, Handler, HandlerStep

\* No byte is stranded: while connected, buffered bytes have an async_send in
\* flight, a handler about to start one, or a thread about to close.
THEOREM BytesInFlightHolds == Spec => []BytesInFlight
<1>1. Init => BytesInFlight
  BY DEF Init, BytesInFlight, Fresh
<1>2. SocketInv /\ BytesInFlight /\ [Next]_vars => BytesInFlight'
  BY FlightStep DEF SocketInv
<1> QED
  BY <1>1, <1>2, SocketInvariant, PTL DEF Spec
-----------------------------------------------------------------------------
(* The socket keeps the promise of SessionProtocol.                         *)

\* The session has been told that it is accepted, or will be before it is told
\* anything else.
Told == session \in {"open", "closed"} \/ Waiting("ACCEPT")

ActiveLabels == RecvLabels \cup {"send_lock", "tick_push", "acc_read", "acc_timer"}

\* Somebody is at work, or will be, who reports to the session.
Active ==
    \/ rd # "none" \/ timer # "off"
    \/ \E t \in Threads : pc[t] \in ActiveLabels

\* ACCEPT is posted first, once, and to a session that exists.
HeardInv ==
    /\ Active => Told
    /\ Told => session # "none"
    /\ Waiting("PENDING") => ~Told
    /\ pc[Main] \in {"acc_nomem", "acc_push"} =>
          session = "created" /\ ~Told /\ ~Waiting("CLOSE")

\* A pending connection has no session, and nothing is reported to it.
LEMMA InitHeard == Init => HeardInv
BY ThreadsInTypes
   DEF Init, HeardInv, Active, ActiveLabels, RecvLabels, Told, Waiting

\* The steps of everyone but Exec leave the session alone, and accept() alone
\* posts ACCEPT.
LEMMA OtherPosts ==
    ASSUME TypeInv, [Next]_vars, ~Exec, ~AcceptPush
    PROVE  /\ session' = session
           /\ evq' = evq \/ \E e \in Events \ {"PENDING", "ACCEPT"} : Push(e)
<1> USE DEF Events
<1>1. CASE Accept
  BY <1>1 DEF Accept, AcceptNoMemory, AcceptRead, AcceptTimer
<1>2. CASE Kernel
  BY <1>2 DEF Kernel, RecvArrives, RecvPeerGone, RecvAborted,
              SendCompletes, SendAborted, TimerExpires
<1>3. ASSUME NEW t \in Callers, Call(t) PROVE UNCHANGED <<evq, session>>
  BY <1>3 DEF Call, CallSend, CallClose
<1>4. ASSUME NEW t \in Callers, Send(t)
      PROVE  session' = session /\ (evq' = evq \/ Push("ERROR"))
  BY <1>4, SendEffect
<1>5. ASSUME NEW w \in Workers, Handler(w) PROVE UNCHANGED <<evq, session>>
  BY <1>5 DEF Handler, RecvHandler, SentHandler, TimerHandler
<1>6. ASSUME NEW w \in Workers, HandlerStep(w) \/ RecvPacket(w)
      PROVE  session' = session /\ (evq' = evq \/ \E e \in {"DATA", "PING", "ERROR"} : Push(e))
  BY <1>6, HandlerControl
<1>7. ASSUME NEW t \in Threads, Close(t)
      PROVE  session' = session /\ (evq' = evq \/ Push("CLOSE"))
  BY <1>7, CloseControl, CloseFrame
<1>8. CASE UNCHANGED vars
  BY <1>8 DEF vars
<1> QED
  BY <1>1, <1>2, <1>3, <1>4, <1>5, <1>6, <1>7, <1>8 DEF Next, Over

\* A session that was told stays told: ACCEPT leaves the queue for OnAccept.
LEMMA ToldStays == TypeInv /\ EarlyInv /\ Told /\ [Next]_vars => Told'
<1> SUFFICES ASSUME TypeInv, EarlyInv, Told, [Next]_vars PROVE Told'
  OBVIOUS
<1>0. evq \in Seq(Events) /\ PendingFirst /\ "ACCEPT" \in Events
  BY DEF TypeInv, Types, EarlyInv, Events
<1>1. CASE Exec
  <2>1. evq # <<>> /\ evq' = Tail(evq)
    BY <1>1 DEF Exec, DeliverStale, DeliverRefused, DeliverPending, Deliver
  <2>2. CASE session \in {"open", "closed"}
    <3>1. ~DeliverPending
      BY <1>0, <2>2, PendingHead DEF DeliverPending, EarlyInv, Early, Quiet
    <3> QED
      BY <1>1, <2>2, <3>1 DEF Exec, DeliverStale, DeliverRefused, Deliver, Told
  <2>3. ASSUME NEW i \in 1..Len(evq), evq[i] = "ACCEPT" PROVE Told'
    <3>1. CASE i = 1
      <4>1. Head(evq) = "ACCEPT"
        BY <1>0, <2>1, <2>3, <3>1, TailWaiting
      <4> QED
        BY <1>1, <4>1 DEF Exec, DeliverStale, DeliverRefused, DeliverPending, Deliver, Told
    <3>2. CASE i # 1
      <4>1. i - 1 \in 1..Len(evq') /\ (i - 1) + 1 = i
        BY <1>0, <2>1, <3>2, TailWaiting
      <4>2. evq'[i - 1] = "ACCEPT"
        BY <1>0, <2>1, <2>3, <4>1, TailWaiting
      <4> QED
        BY <4>1, <4>2 DEF Told, Waiting
    <3> QED
      BY <3>1, <3>2
  <2> QED
    BY <2>2, <2>3 DEF Told, Waiting
<1>2. CASE AcceptPush
  BY <1>0, <1>2, PushWaiting DEF AcceptPush, Told
<1>3. CASE ~Exec /\ ~AcceptPush
  <2>1. session' = session /\ (evq' = evq \/ \E e \in Events \ {"PENDING", "ACCEPT"} : Push(e))
    BY <1>3, OtherPosts
  <2>2. Waiting("ACCEPT") => Waiting("ACCEPT")'
    BY <1>0, <2>1, PushWaiting DEF Waiting
  <2> QED
    BY <2>1, <2>2 DEF Told
<1> QED
  BY <1>1, <1>2, <1>3

\* Nobody else tells it.
LEMMA ToldByAccept == TypeInv /\ [Next]_vars /\ session' \in {"none", "created"} /\ Told' =>
                         Told \/ AcceptPush
<1> SUFFICES ASSUME TypeInv, [Next]_vars, session' \in {"none", "created"}, Told', ~AcceptPush
             PROVE  Told
  OBVIOUS
<1>0. evq \in Seq(Events)
  BY DEF TypeInv, Types
<1>1. CASE Exec
  <2>1. evq # <<>> /\ evq' = Tail(evq)
    BY <1>1 DEF Exec, DeliverStale, DeliverRefused, DeliverPending, Deliver
  <2> QED
    BY <1>0, <2>1, TailWaiting DEF Told
<1>2. CASE ~Exec
  <2>1. evq' = evq \/ \E e \in Events \ {"PENDING", "ACCEPT"} : Push(e)
    BY <1>2, OtherPosts
  <2> QED
    BY <1>0, <2>1, PushWaiting DEF Told, Waiting
<1> QED
  BY <1>1, <1>2
\* While EVENT_PENDING waits, or accept() runs, HeardInv is preserved: nobody
\* but the logic thread moves, and it takes accept() to ACCEPT first.
LEMMA EarlyHeard ==
    SocketInv /\ HeardInv /\ Early /\ [Next]_vars => HeardInv'
<1> SUFFICES ASSUME SocketInv, HeardInv, Early, [Next]_vars PROVE HeardInv'
  OBVIOUS
<1> USE ThreadsInTypes
<1>0. /\ evq \in Seq(Events) /\ PendingFirst /\ pc \in [Threads -> Labels]
      /\ Quiet /\ TypeInv /\ EarlyInv /\ CountInv /\ StatusInv /\ CloseInv
      /\ {"ERROR", "ACCEPT", "CLOSE"} \subseteq Events \ {"PENDING"}
  BY DEF SocketInv, CountInv, TypeInv, Types, EarlyInv, Events
<1>1. /\ rd = "none" /\ timer = "off"
      /\ \A t \in Threads : t # Main => pc[t] = "idle"
  BY <1>0 DEF Quiet
<1>2. ASSUME NEW l, Go(Main, l), l \notin ActiveLabels, rd' = "none", timer' = "off"
      PROVE  ~Active'
  BY <1>0, <1>1, <1>2 DEF Go, Active, ActiveLabels, RecvLabels
<1>3. CASE Exec
  <2>1. evq # <<>> /\ evq' = Tail(evq) /\ pc[Main] = "idle"
    BY <1>3 DEF Exec, DeliverStale, DeliverRefused, DeliverPending, Deliver
  <2>2. Waiting("PENDING")
    BY <2>1 DEF Early, Accepting
  <2>3. ~Told /\ ~Waiting("PENDING")'
    BY <1>0, <2>1, <2>2, PendingTail DEF HeardInv
  <2>4. Head(evq) = "PENDING"
    BY <1>0, <2>2, PendingHead
  <2>5. session' \in {"none", "created"} /\ ~Told'
    <3>1. session' \in {"none", "created"}
      BY <1>0, <1>3, <2>4 DEF Quiet, Exec, DeliverStale, DeliverRefused, DeliverPending, Deliver
    <3> QED
      BY <1>0, <2>1, <2>3, <3>1, TailWaiting DEF Told
  <2>6. ~Active'
    <3>1. rd' = "none" /\ timer' = "off"
      BY <1>1, <1>3 DEF Exec, DeliverStale, DeliverRefused, DeliverPending, Deliver, io
    <3>2. pc' = pc \/ \E l \in {"close_cas", "acc_push", "acc_nomem"} : Go(Main, l)
      BY <1>3 DEF Exec, DeliverStale, DeliverRefused, DeliverPending, Deliver
    <3>3. CASE pc' = pc
      BY <1>1, <2>1, <3>1, <3>3 DEF Active, ActiveLabels, RecvLabels
    <3> QED
      BY <1>2, <3>1, <3>2, <3>3 DEF ActiveLabels, RecvLabels
  <2>7. pc'[Main] \in {"acc_nomem", "acc_push"} => session' = "created" /\ ~Waiting("CLOSE")'
    <3>1. CASE DeliverPending
      <4>1. status = 1
        BY <1>0, <2>2, <3>1 DEF DeliverPending, StatusInv, CloseOrder
      <4>2. ~Waiting("CLOSE")
        BY <1>0, <4>1 DEF CloseInv
      <4> QED
        BY <1>0, <2>1, <3>1, <4>2, TailWaiting DEF DeliverPending
    <3>2. CASE DeliverStale \/ DeliverRefused \/ Deliver
      BY <1>0, <2>1, <3>2 DEF DeliverStale, DeliverRefused, Deliver, Go
    <3> QED
      BY <1>3, <3>1, <3>2 DEF Exec
  <2> QED
    BY <2>3, <2>5, <2>6, <2>7 DEF HeardInv
<1>4. CASE AcceptNoMemory
  <2>1. ~Active'
    BY <1>1, <1>2, <1>4 DEF AcceptNoMemory, io, ActiveLabels, RecvLabels
  <2>2. session = "created" /\ ~Told
    BY <1>4 DEF AcceptNoMemory, HeardInv
  <2>3. session' = session /\ ~Told'
    BY <1>0, <1>4, <2>2, PushWaiting DEF AcceptNoMemory, Told
  <2>4. pc'[Main] = "close_cas"
    BY <1>0, <1>4 DEF AcceptNoMemory, Go
  <2> QED
    BY <2>1, <2>3, <2>4 DEF HeardInv
<1>5. CASE AcceptPush
  <2>1. session = "created" /\ session' = session /\ pc'[Main] = "acc_read"
    BY <1>0, <1>5 DEF AcceptPush, HeardInv, Go
  <2>2. Told'
    BY <1>0, <1>5, PushWaiting DEF AcceptPush, Told
  <2>3. ~Waiting("PENDING")'
    <3>1. ~Waiting("PENDING")
      BY <1>0, <1>5 DEF AcceptPush, EarlyInv, CloseLabels
    <3> QED
      BY <1>0, <1>5, <3>1, PendingPush DEF AcceptPush
  <2> QED
    BY <2>1, <2>2, <2>3 DEF HeardInv
<1>6. CASE AcceptRead
  <2>1. Told
    BY <1>6 DEF AcceptRead, HeardInv, Active, ActiveLabels
  <2>2. UNCHANGED <<evq, session>> /\ pc'[Main] = "acc_timer"
    BY <1>0, <1>6 DEF AcceptRead, Go
  <2> QED
    BY <2>1, <2>2 DEF HeardInv, Told, Waiting
<1>7. CASE AcceptTimer
  <2>1. FALSE
    BY <1>0, <1>7 DEF AcceptTimer, Early, Accepting, EarlyInv, CloseLabels
  <2> QED
    BY <2>1
<1>8. CASE CallClose(Main) \/ Close(Main)
  <2>1. \E l \in CloseLabels \cup {"idle"} : Go(Main, l)
    BY <1>8, CloseControl DEF CallClose, CloseLabels
  <2>2. /\ rd' = "none" /\ timer' = "off" /\ session' = session
        /\ evq' = evq \/ Push("CLOSE")
    BY <1>1, <1>8, CloseControl, CloseFrame DEF CallClose, io
  <2>3. ~Active'
    BY <1>2, <2>1, <2>2 DEF ActiveLabels, RecvLabels, CloseLabels
  <2>4. \A e \in {"ACCEPT", "PENDING"} : Waiting(e)' <=> Waiting(e)
    BY <1>0, <2>2, PushWaiting DEF Waiting
  <2>5. Told' <=> Told
    BY <2>2, <2>4 DEF Told
  <2>6. pc'[Main] \notin {"acc_nomem", "acc_push"}
    BY <1>0, <2>1 DEF Go, CloseLabels
  <2> QED
    BY <2>2, <2>3, <2>4, <2>5, <2>6 DEF HeardInv
<1>9. CASE UNCHANGED vars
  BY <1>9 DEF vars, HeardInv, Active, Told, Waiting
<1> QED
  BY <1>0, <1>3, <1>4, <1>5, <1>6, <1>7, <1>8, <1>9, EarlyActions DEF Accept

\* Later, who starts to work has a session that was told: a caller has the
\* handle from OnAccept, a handler its operation from accept().
LEMMA ActiveIsTold ==
    TypeInv /\ HeardInv /\ ~Early /\ [Next]_vars => (Active' => Active \/ Told)
<1> SUFFICES ASSUME TypeInv, HeardInv, ~Early, [Next]_vars, ~Active, ~Told PROVE ~Active'
  OBVIOUS
<1> USE ThreadsInTypes
<1>0. pc \in [Threads -> Labels]
  BY DEF TypeInv, Types
<1>1. /\ rd = "none" /\ timer = "off"
      /\ \A t \in Threads : pc[t] \notin ActiveLabels
  BY DEF Active
<1>2. ASSUME NEW t \in Threads, NEW l, Go(t, l), l \notin ActiveLabels,
             rd' = "none", timer' = "off"
      PROVE  ~Active'
  BY <1>0, <1>1, <1>2 DEF Go, Active
<1>3. CASE Exec
  <2>1. rd' = "none" /\ timer' = "off"
    BY <1>1, <1>3 DEF Exec, DeliverStale, DeliverRefused, DeliverPending, Deliver, io
  <2>2. pc' = pc \/ \E l \in {"close_cas", "acc_push", "acc_nomem"} : Go(Main, l)
    BY <1>3 DEF Exec, DeliverStale, DeliverRefused, DeliverPending, Deliver
  <2>3. CASE pc' = pc
    BY <1>1, <2>1, <2>3 DEF Active
  <2> QED
    BY <1>2, <2>1, <2>2, <2>3 DEF ActiveLabels, RecvLabels
<1>4. CASE Accept
  <2>1. FALSE
    BY <1>1, <1>4
       DEF Early, Accepting, Accept, AcceptNoMemory, AcceptPush, AcceptRead, AcceptTimer,
           ActiveLabels
  <2> QED
    BY <2>1
<1>5. CASE Kernel
  BY <1>1, <1>5
     DEF Kernel, RecvArrives, RecvPeerGone, RecvAborted,
         SendCompletes, SendAborted, TimerExpires, Active
<1>6. ASSUME NEW t \in Callers, Call(t) PROVE ~Active'
  BY <1>1, <1>2, <1>6
     DEF Call, CallSend, CallClose, Told, io, ActiveLabels, RecvLabels
<1>7. ASSUME NEW t \in Callers, Send(t) PROVE FALSE
  BY <1>1, <1>7, SendEffect DEF ActiveLabels
<1>8. ASSUME NEW w \in Workers, Handler(w) PROVE ~Active'
  BY <1>1, <1>2, <1>8
     DEF Handler, RecvHandler, SentHandler, TimerHandler, ActiveLabels, RecvLabels
<1>9. ASSUME NEW w \in Workers, HandlerStep(w) \/ RecvPacket(w) PROVE ~Active'
  <2>1. SentError(w) \/ SentPop(w) \/ SentDec(w) \/ SentCheck(w)
    BY <1>1, <1>9
       DEF HandlerStep, RecvTooLong, RecvAgain, RecvDrop, RecvPacket, TimerPing,
           ActiveLabels, RecvLabels
  <2>2. rd' = "none" /\ timer' = "off"
        /\ \E l \in {"close_cas", "sent_dec", "sent_chk", "idle"} : Go(w, l)
    BY <1>1, <2>1, SentPopEffect DEF SentError, SentDec, SentCheck, Return, io
  <2> QED
    BY <1>2, <2>2 DEF ActiveLabels, RecvLabels
<1>10. ASSUME NEW t \in Threads, Close(t) PROVE ~Active'
  <2>1. \E l \in CloseLabels \cup {"idle"} : Go(t, l)
    BY <1>10, CloseControl
  <2>2. rd' = "none" /\ timer' = "off"
    BY <1>1, <1>10, CloseControl, CloseFrame
  <2> QED
    BY <1>2, <2>1, <2>2 DEF ActiveLabels, RecvLabels, CloseLabels
<1>11. CASE UNCHANGED vars
  BY <1>1, <1>11 DEF vars, Active
<1> QED
  BY <1>3, <1>4, <1>5, <1>6, <1>7, <1>8, <1>9, <1>10, <1>11 DEF Next, Over

\* HeardInv is inductive.
LEMMA HeardStep == SocketInv /\ HeardInv /\ [Next]_vars => HeardInv'
<1> SUFFICES ASSUME SocketInv, HeardInv, ~Early, [Next]_vars PROVE HeardInv'
  BY EarlyHeard
<1>0. TypeInv /\ EarlyInv
  BY DEF SocketInv, CountInv
<1>1. ~Early'
  BY <1>0, NoNewEarly
<1>2. Active' => Told'
  BY <1>0, ActiveIsTold, ToldStays DEF HeardInv
<1>3. Told' => session' # "none"
  <2> SUFFICES ASSUME Told', session' = "none" PROVE FALSE
    OBVIOUS
  <2>1. ~AcceptPush
    BY DEF AcceptPush, Early, Accepting
  <2>2. Told
    BY <1>0, <2>1, ToldByAccept
  <2>3. session # "none"
    BY <2>2 DEF HeardInv
  <2>4. Exec
    BY <1>0, <2>1, <2>3, OtherPosts
  <2> QED
    BY <2>3, <2>4 DEF Exec, DeliverStale, DeliverRefused, DeliverPending, Deliver
<1> QED
  BY <1>1, <1>2, <1>3 DEF HeardInv, Early, Accepting

\* SessionProtocol speaks of the queue as the socket does.
LEMMA PromiseWords ==
    ASSUME TypeInv
    PROVE  /\ Promise!Accepted <=> Told
           /\ Promise!Closed <=> session = "closed" \/ Waiting("CLOSE")
BY DEF Promise!Accepted, Promise!Closed, Promise!Queued, Told, Waiting

\* Every step of the socket's threads is a step of the promise, or none at all.
LEMMA PromiseStep == SocketInv /\ HeardInv /\ [Next]_vars => [Promise!Next]_(Promise!vars)
<1> SUFFICES ASSUME SocketInv, HeardInv, [Next]_vars
             PROVE  Promise!Next \/ UNCHANGED <<evq, session>>
  BY DEF Promise!vars
<1> USE ThreadsInTypes
<1>0. evq \in Seq(Events) /\ PendingFirst /\ TypeInv /\ EarlyInv
  BY DEF SocketInv, CountInv, TypeInv, Types, EarlyInv
<1>1. ASSUME Told, NEW e \in {"PING", "ERROR"}, Push(e), session' = session
      PROVE  Promise!Next
  BY <1>1 DEF HeardInv, Push, Promise!Next, Promise!PostNotice, Promise!Post
<1>2. CASE Exec
  <2>1. CASE Head(evq) = "PENDING"
    <3>1. Waiting("PENDING")
      BY <1>0, <1>2, <2>1, PendingHead
         DEF Exec, DeliverStale, DeliverRefused, DeliverPending, Deliver
    <3>2. session \in {"none", "created"}
      BY <1>0, <3>1 DEF EarlyInv, Early, Quiet
    <3>3. Promise!TakePending
      BY <1>2, <2>1, <3>2
         DEF Exec, DeliverStale, DeliverRefused, DeliverPending, Deliver, Promise!TakePending
    <3> QED
      BY <3>3 DEF Promise!Next
  <2>2. CASE Head(evq) # "PENDING"
    <3>1. Promise!TakeEvent
      BY <1>2, <2>2
         DEF Exec, DeliverStale, DeliverRefused, DeliverPending, Deliver, Promise!TakeEvent
    <3> QED
      BY <3>1 DEF Promise!Next
  <2> QED
    BY <2>1, <2>2
<1>3. CASE Accept
  <2>1. CASE AcceptNoMemory
    BY <2>1
       DEF AcceptNoMemory, HeardInv, Push, Promise!Next, Promise!PostNotice, Promise!Post
  <2>2. CASE AcceptPush
    <3>1. session = "created" /\ ~Promise!Accepted /\ ~Promise!Closed
      BY <1>0, <2>2, PromiseWords DEF AcceptPush, HeardInv
    <3> QED
      BY <2>2, <3>1 DEF AcceptPush, Push, Promise!Next, Promise!PostAccept, Promise!Post
  <2>3. CASE AcceptRead \/ AcceptTimer
    BY <2>3 DEF AcceptRead, AcceptTimer
  <2> QED
    BY <1>3, <2>1, <2>2, <2>3 DEF Accept
<1>4. CASE Kernel
  BY <1>4
     DEF Kernel, RecvArrives, RecvPeerGone, RecvAborted,
         SendCompletes, SendAborted, TimerExpires
<1>5. ASSUME NEW t \in Callers, Call(t) PROVE UNCHANGED <<evq, session>>
  BY <1>5 DEF Call, CallSend, CallClose
<1>6. ASSUME NEW t \in Callers, Send(t) PROVE Promise!Next \/ UNCHANGED <<evq, session>>
  <2>1. session' = session /\ (evq' = evq \/ Push("ERROR")) /\ pc[t] = "send_lock"
    BY <1>0, <1>6, SendEffect
  <2>2. Told
    BY <2>1 DEF HeardInv, Active, ActiveLabels
  <2> QED
    BY <1>1, <2>1, <2>2
<1>7. ASSUME NEW w \in Workers, Handler(w) PROVE UNCHANGED <<evq, session>>
  BY <1>7 DEF Handler, RecvHandler, SentHandler, TimerHandler
<1>8. ASSUME NEW w \in Workers, RecvTooLong(w) \/ TimerPing(w) PROVE Promise!Next
  <2>1. session' = session /\ \E e \in {"PING", "ERROR"} : Push(e)
    BY <1>8 DEF RecvTooLong, TimerPing
  <2>2. pc[w] \in ActiveLabels
    BY <1>8 DEF RecvTooLong, TimerPing, ActiveLabels, RecvLabels
  <2>3. Told
    BY <2>2 DEF HeardInv, Active
  <2> QED
    BY <1>1, <2>1, <2>3
<1>9. ASSUME NEW w \in Workers, RecvPacket(w) PROVE Promise!Next
  <2>1. w \in Reading /\ Push("DATA") /\ session' = session
    BY <1>9 DEF RecvPacket, Reading, RecvLabels
  <2>2. Promise!Accepted
    <3>1. pc[w] \in ActiveLabels
      BY <2>1 DEF Reading, ActiveLabels
    <3> QED
      BY <1>0, <3>1, PromiseWords DEF HeardInv, Active
  <2>3. ~Promise!Closed
    <3>1. status \notin {0, 3}
      BY <2>1 DEF SocketInv, SilentInv, Committed, Silent
    <3> QED
      BY <1>0, <3>1, PromiseWords DEF SocketInv, CloseInv
  <2> QED
    BY <2>1, <2>2, <2>3 DEF Push, Promise!Next, Promise!PostData, Promise!Post
<1>10. ASSUME NEW w \in Workers,
              RecvAgain(w) \/ RecvDrop(w) \/ SentError(w) \/ SentPop(w) \/ SentDec(w) \/ SentCheck(w)
       PROVE  UNCHANGED <<evq, session>>
  BY <1>10 DEF RecvAgain, RecvDrop, SentError, SentPop, SentDec, SentCheck
<1>11. ASSUME NEW t \in Threads, Close(t) PROVE Promise!Next \/ UNCHANGED <<evq, session>>
  <2>1. session' = session
    BY <1>11, CloseFrame
  <2>2. CASE ClosePush(t)
    <3>1. t \in Closing /\ pc[t] = "close_push" /\ Push("CLOSE")
      BY <2>2 DEF ClosePush, Closing
    <3>2. ~Promise!Closed
      BY <1>0, <3>1, PromiseWords DEF SocketInv, CloseInv
    <3> QED
      BY <2>1, <3>1, <3>2 DEF Push, Promise!Next, Promise!PostClose, Promise!Post
  <2>3. CASE ~ClosePush(t)
    BY <1>0, <1>11, <2>1, <2>3, CloseSteps
  <2> QED
    BY <2>2, <2>3
<1>12. CASE UNCHANGED vars
  BY <1>12 DEF vars
<1> QED
  BY <1>2, <1>3, <1>4, <1>5, <1>6, <1>7, <1>8, <1>9, <1>10, <1>11, <1>12
     DEF Next, Over, HandlerStep

\* The socket's threads keep the promise of SessionProtocol, however many call
\* and work: OnAccept first and once, then data, OnClose once, no data after it.
THEOREM KeepsPromiseHolds == Spec => KeepsPromise
<1>1. Init => HeardInv /\ Promise!Init
  BY InitHeard DEF Init, Promise!Init
<1>2. SocketInv /\ HeardInv /\ [Next]_vars =>
         HeardInv' /\ [Promise!Next]_(Promise!vars)
  BY HeardStep, PromiseStep
<1>3. Spec => []HeardInv
  BY <1>1, <1>2, SocketInvariant, PTL DEF Spec
<1> QED
  BY <1>1, <1>2, <1>3, SocketInvariant, PTL DEF Spec, KeepsPromise, Promise!Spec
-----------------------------------------------------------------------------
(* No connection is left in the handle table, with the logic thread as the   *)
(* only caller.                                                               *)

\* A worker holds send_buffer_guard_ from handle_send() on, to the end of the
\* close() that this may lead to.
LockInv ==
    \A w \in Workers :
       /\ pc[w] \in {"sent_dec", "sent_chk"} => lock = w
       /\ lock = w => pc[w] \in {"sent_dec", "sent_chk"} \cup (CloseLabels \ {"close_sock"})
       /\ lock = w /\ pc[w] = "close_cas" => status # 1

\* close() has changed connect_status_ or seen it changed, and the socket is closed
\* unless the thread that changed it is about to close it.
SockInv ==
    /\ \A t \in Threads : pc[t] \in CloseLabels \ {"close_cas"} => status # 1
    /\ status # 1 /\ open => \E t \in Threads : pc[t] = "close_sock"

\* The workers in close() that do not hold the guard: they come from handle_recv(),
\* or from a send that failed.
Dropping == {w \in Workers : pc[w] \in CloseLabels /\ lock # w}

\* After a failed send its bytes stay in the buffer, so no send starts any more.
Clogged == sbuf.len > 0 /\ wr = "none" /\ Completing = {}

\* One of them came from handle_recv() at most, when the reading had ended.
DropInv ==
    \/ Clogged
    \/ /\ \A u, v \in Dropping : u = v
       /\ Dropping # {} => rd = "none" /\ Reading = {}

\* Once a thread decided to report the close, a send that still starts is bound to
\* fail, and its handler to call close().
DoomedInv ==
    Committed /\ linked =>
       /\ wr # "ok" /\ (wr = "wait" => ~open)
       /\ \A w \in Workers : pc[w] \notin {"sent_lock", "sent_dec"}

\* On the way from the report to LinkDown().
Leaving ==
    \/ status = 3 /\ \E t \in Threads : pc[t] \in {"close_push", "close_zero"}
    \/ status = 0 /\ \E t \in Threads : pc[t] \in {"close_op0", "close_st0", "link_chk", "link_null"}

\* While the socket is not closed yet, the thread that reports goes all the way.
LeavingInv == status \in {0, 3} /\ linked /\ open /\ sbuf.len = 0 => Leaving

ReportInv == status = 3 => Leaving

\* Somebody will take a closed connection out of the table.
RescueInv ==
    status = 0 /\ linked =>
       \/ wr # "none"
       \/ \E w \in Workers : pc[w] = "sent_err"
       \/ \E t \in Threads : pc[t] \in CloseLabels \ {"link_free"}

StrandInv ==
    LockInv /\ SockInv /\ DropInv /\ DoomedInv /\ LeavingInv /\ ReportInv /\ RescueInv
\* What a step of close() changes.
LEMMA CloseMoves ==
    ASSUME TypeInv, NEW t \in Threads, Close(t)
    PROVE  /\ \A u \in Threads \ {t} : pc'[u] = pc[u] /\ (lock' = u <=> lock = u)
           /\ IF pc'[t] = "idle" THEN lock' # t ELSE lock' = lock
           /\ \/ /\ pc[t] = "close_cas" /\ status = 1 /\ status' = 2
                 /\ pc'[t] = "close_sock" /\ UNCHANGED <<open, linked>>
              \/ /\ pc[t] = "close_sock" /\ pc'[t] = "close_op" /\ open' = FALSE
                 /\ UNCHANGED <<status, linked>>
              \/ /\ pc[t] = "close_cas3" /\ status = 2 /\ status' = 3
                 /\ pc'[t] = "close_push" /\ UNCHANGED <<open, linked>>
              \/ /\ pc[t] = "close_zero" /\ pc'[t] = "close_op0" /\ status' = 0
                 /\ UNCHANGED <<open, linked>>
              \/ /\ pc[t] = "link_null" /\ pc'[t] = "link_free" /\ linked' = FALSE
                 /\ UNCHANGED <<status, open>>
              \/ /\ UNCHANGED <<status, open, linked>>
                 /\ \/ pc[t] = "close_cas" /\ pc'[t] = "close_op" /\ status # 1
                    \/ pc[t] = "close_op" /\ pc'[t] = IF opcount = 0 THEN "close_cas3" ELSE "close_op0"
                    \/ pc[t] = "close_cas3" /\ pc'[t] = "close_op0" /\ status # 2
                    \/ pc[t] = "close_push" /\ pc'[t] = "close_zero"
                    \/ pc[t] = "close_op0" /\ pc'[t] = IF opcount = 0 THEN "close_st0" ELSE "idle"
                    \/ pc[t] = "close_st0" /\ pc'[t] = IF status = 0 THEN "link_chk" ELSE "idle"
                    \/ pc[t] = "link_chk" /\ pc'[t] = IF linked THEN "link_null" ELSE "idle"
                    \/ pc[t] = "link_free" /\ pc'[t] = "idle"
<1>0. pc \in [Threads -> Labels] /\ NoThread \notin Threads
  BY ThreadsAssumption DEF TypeInv, Types
<1> USE DEF Go
<1>1. CASE CloseCas(t) BY <1>0, <1>1 DEF CloseCas, table
<1>2. CASE CloseSock(t) BY <1>0, <1>2 DEF CloseSock, table
<1>3. CASE CloseOp(t) BY <1>0, <1>3 DEF CloseOp, sock, table
<1>4. CASE CloseCas3(t) BY <1>0, <1>4 DEF CloseCas3, table
<1>5. CASE ClosePush(t) BY <1>0, <1>5 DEF ClosePush, sock, table
<1>6. CASE CloseZero(t) BY <1>0, <1>6 DEF CloseZero, table
<1>7. CASE CloseOp0(t) BY <1>0, <1>7 DEF CloseOp0, Return, sock, table
<1>8. CASE CloseSt0(t) BY <1>0, <1>8 DEF CloseSt0, Return, sock, table
<1>9. CASE LinkCheck(t) BY <1>0, <1>9 DEF LinkCheck, Return, sock, table
<1>10. CASE LinkNull(t) BY <1>0, <1>10 DEF LinkNull, sock
<1>11. CASE LinkFree(t) BY <1>0, <1>11 DEF LinkFree, Return, sock
<1> QED
  BY <1>1, <1>2, <1>3, <1>4, <1>5, <1>6, <1>7, <1>8, <1>9, <1>10, <1>11 DEF Close

\* The other steps leave the socket and the table alone, and every thread inside
\* close() where it is; they enter close() at its first statement.
LEMMA OutsideClose ==
    ASSUME TypeInv, [Next]_vars, \A t \in Threads : ~Close(t)
    PROVE  /\ UNCHANGED <<open, linked>>
           /\ \A t \in Threads :
                 /\ pc[t] \in CloseLabels => pc'[t] = pc[t] /\ (lock' = t <=> lock = t)
                 /\ pc'[t] \in CloseLabels => pc'[t] \in {pc[t], "close_cas"}
<1> USE ThreadsInTypes, ThreadsAssumption
<1>0. pc \in [Threads -> Labels] /\ NoThread \notin Threads
  BY DEF TypeInv, Types
<1> DEFINE Stay == \A t \in Threads :
                 /\ pc[t] \in CloseLabels => pc'[t] = pc[t] /\ (lock' = t <=> lock = t)
                 /\ pc'[t] \in CloseLabels => pc'[t] \in {pc[t], "close_cas"}
<1> USE DEF Go
<1>1. CASE Exec
  <2>1. UNCHANGED <<open, linked, lock>>
    BY <1>1 DEF Exec, DeliverStale, DeliverRefused, DeliverPending, Deliver, sock, table
  <2>2. pc[Main] = "idle" /\ (pc' = pc \/ \E l \in {"close_cas", "acc_push", "acc_nomem"} :
                                             pc' = [pc EXCEPT ![Main] = l])
    BY <1>1 DEF Exec, DeliverStale, DeliverRefused, DeliverPending, Deliver
  <2> QED
    BY <1>0, <2>1, <2>2 DEF CloseLabels
<1>2. CASE Accept
  BY <1>0, <1>2 DEF Accept, AcceptNoMemory, AcceptPush, AcceptRead, AcceptTimer, sock, table,
                    CloseLabels
<1>3. CASE Kernel
  BY <1>3 DEF Kernel, RecvArrives, RecvPeerGone, RecvAborted,
              SendCompletes, SendAborted, TimerExpires, sock, table
<1>4. ASSUME NEW t \in Callers, Call(t) PROVE Stay /\ UNCHANGED <<open, linked>>
  BY <1>0, <1>4 DEF Call, CallSend, CallClose, sock, table, CloseLabels
<1>5. ASSUME NEW t \in Callers, Send(t) PROVE Stay /\ UNCHANGED <<open, linked>>
  <2>1. /\ pc[t] = "send_lock" /\ lock = NoThread /\ lock' \in {lock, t}
        /\ UNCHANGED <<open, linked>>
        /\ \E l \in {"idle", "close_cas"} : pc' = [pc EXCEPT ![t] = l]
    BY <1>5, SendEffect DEF table
  <2> QED
    BY <1>0, <2>1 DEF CloseLabels
<1>6. ASSUME NEW w \in Workers, Handler(w) PROVE Stay /\ UNCHANGED <<open, linked>>
  <2>1. UNCHANGED <<open, linked, lock>>
    BY <1>6 DEF Handler, RecvHandler, SentHandler, TimerHandler, sock, table
  <2>2. pc[w] = "idle"
        /\ (pc' = pc \/ \E l \in HandlerLabels : pc' = [pc EXCEPT ![w] = l])
    BY <1>6 DEF Handler, RecvHandler, SentHandler, TimerHandler, HandlerLabels,
                RecvLabels, SentLabels
  <2> QED
    BY <1>0, <2>1, <2>2 DEF CloseLabels, HandlerLabels, RecvLabels, SentLabels
<1>7. ASSUME NEW w \in Workers, HandlerStep(w) \/ RecvPacket(w)
      PROVE  Stay /\ UNCHANGED <<open, linked>>
  <2>1. PICK l \in HandlerLabels \cup {"idle", "close_cas"} : pc' = [pc EXCEPT ![w] = l]
    BY <1>7, HandlerControl
  <2>2. pc[w] \in HandlerLabels
    BY <1>7, HandlerControl
  <2>3. UNCHANGED <<open, linked>> /\ (lock' = lock \/ lock' = w \/ lock = w)
        /\ (lock' # lock => {lock, lock'} = {w, NoThread})
    <3>1. CASE SentPop(w)
      BY <3>1, SentPopEffect DEF table
    <3>2. CASE SentCheck(w)
      BY <3>2 DEF SentCheck, Return, sock, table
    <3>3. CASE ~SentPop(w) /\ ~SentCheck(w)
      BY <1>7, <3>3
         DEF HandlerStep, RecvTooLong, RecvAgain, RecvDrop, SentError, SentDec,
             TimerPing, RecvPacket, sock, table
    <3> QED
      BY <3>1, <3>2, <3>3
  <2>4. \A t \in Threads : t # w => pc'[t] = pc[t] /\ (lock' = t <=> lock = t)
    BY <1>0, <2>1, <2>3
  <2>5. pc'[w] = l
    BY <1>0, <2>1
  <2> QED
    BY <2>2, <2>3, <2>4, <2>5 DEF CloseLabels, HandlerLabels, RecvLabels, SentLabels
<1>8. CASE UNCHANGED vars
  BY <1>8 DEF vars
<1> QED
  BY <1>1, <1>2, <1>3, <1>4, <1>5, <1>6, <1>7, <1>8 DEF Next, Over

\* What has ended does not come back.
LEMMA NoWayBack ==
    ASSUME CountInv, StatusInv, [Next]_vars
    PROVE  /\ status' = 1 => status = 1
           /\ status \in {0, 3} => status' \in {0, 3}
           /\ status' = 0 => status = 0 \/ \E t \in Threads : CloseZero(t)
           /\ open' => open
           /\ linked' => linked
<1>0. TypeInv
  BY DEF CountInv
<1>1. ASSUME NEW t \in Threads, Close(t)
      PROVE  /\ status' = 1 => status = 1
             /\ status \in {0, 3} => status' \in {0, 3}
             /\ open' => open
             /\ linked' => linked
  <2>1. (status' = 1 => status = 1) /\ (status \in {0, 3} => status' \in {0, 3})
    BY <1>0, <1>1, CloseSteps
  <2>2. UNCHANGED <<open, linked>> \/ (open' = FALSE /\ UNCHANGED linked)
        \/ (UNCHANGED open /\ linked' = FALSE)
    BY <1>0, <1>1, CloseMoves
  <2> QED
    BY <2>1, <2>2
<1>2. ASSUME NEW t \in Threads, Close(t), status' = 0 PROVE status = 0 \/ CloseZero(t)
  BY <1>0, <1>2, CloseSteps
<1>3. CASE \A t \in Threads : ~Close(t)
  <2>1. status' = status
    BY <1>0, <1>3, Bystanders, ExecClose
  <2> QED
    BY <1>0, <1>3, <2>1, OutsideClose
<1> QED
  BY <1>1, <1>2, <1>3
\* A worker that does not get hold of the guard, and does not lose it.
LEMMA LockKept ==
    ASSUME LockInv, status' = 1 => status = 1, NEW w \in Workers,
           \/ pc'[w] = pc[w] /\ (lock' = w <=> lock = w)
           \/ lock' # w /\ pc'[w] \notin {"sent_dec", "sent_chk"}
    PROVE  /\ pc'[w] \in {"sent_dec", "sent_chk"} => lock' = w
           /\ lock' = w => pc'[w] \in {"sent_dec", "sent_chk"} \cup (CloseLabels \ {"close_sock"})
           /\ lock' = w /\ pc'[w] = "close_cas" => status' # 1
BY DEF LockInv

\* Only handle_send() takes the guard on a worker, and its close() finds
\* connect_status_ changed already.
LEMMA LockStep == CountInv /\ StatusInv /\ LockInv /\ [Next]_vars => LockInv'
<1> SUFFICES ASSUME CountInv, StatusInv, LockInv, [Next]_vars, NEW w \in Workers
             PROVE  /\ pc'[w] \in {"sent_dec", "sent_chk"} => lock' = w
                    /\ lock' = w =>
                          pc'[w] \in {"sent_dec", "sent_chk"} \cup (CloseLabels \ {"close_sock"})
                    /\ lock' = w /\ pc'[w] = "close_cas" => status' # 1
  BY DEF LockInv
<1> USE ThreadsInTypes, ThreadsAssumption
<1>0. /\ pc \in [Threads -> Labels] /\ TypeInv /\ w # Main /\ w \notin Callers
      /\ w # NoThread /\ (status' = 1 => status = 1)
  BY NoWayBack DEF CountInv, TypeInv, Types
<1> DEFINE Keeps == \/ pc'[w] = pc[w] /\ (lock' = w <=> lock = w)
                    \/ lock' # w /\ pc'[w] \notin {"sent_dec", "sent_chk"}
<1> SUFFICES ASSUME ~Keeps
             PROVE  /\ pc'[w] \in {"sent_dec", "sent_chk"} => lock' = w
                    /\ lock' = w =>
                          pc'[w] \in {"sent_dec", "sent_chk"} \cup (CloseLabels \ {"close_sock"})
                    /\ lock' = w /\ pc'[w] = "close_cas" => status' # 1
  BY <1>0, LockKept
<1>1. CASE Exec \/ Accept
  <2>1. lock' = lock /\ (pc' = pc \/ \E l : Go(Main, l))
    BY <1>1 DEF Exec, DeliverStale, DeliverRefused, DeliverPending, Deliver,
                Accept, AcceptNoMemory, AcceptPush, AcceptRead, AcceptTimer
  <2> QED
    BY <1>0, <2>1 DEF Go
<1>2. CASE Kernel \/ UNCHANGED vars
  BY <1>2 DEF vars, Kernel, RecvArrives, RecvPeerGone, RecvAborted,
              SendCompletes, SendAborted, TimerExpires
<1>3. ASSUME NEW t \in Callers, Call(t) \/ Send(t) PROVE Keeps
  <2>1. lock' = lock \/ (lock = NoThread /\ lock' = t)
    BY <1>0, <1>3, SendEffect DEF Call, CallSend, CallClose
  <2>2. \E l : Go(t, l)
    BY <1>0, <1>3, SendEffect DEF Call, CallSend, CallClose
  <2> QED
    BY <1>0, <2>1, <2>2 DEF Go
<1>4. ASSUME NEW u \in Workers, Handler(u) PROVE Keeps
  <2>1. lock' = lock /\ pc[u] = "idle"
        /\ (pc' = pc \/ \E l \in HandlerLabels \ {"sent_dec", "sent_chk"} : Go(u, l))
    BY <1>4 DEF Handler, RecvHandler, SentHandler, TimerHandler, HandlerLabels,
                RecvLabels, SentLabels
  <2>2. lock # u
    BY <2>1 DEF LockInv, CloseLabels
  <2> QED
    BY <1>0, <2>1, <2>2 DEF Go
<1>5. ASSUME NEW u \in Workers,
             RecvTooLong(u) \/ RecvAgain(u) \/ RecvDrop(u) \/ SentError(u) \/ TimerPing(u)
             \/ RecvPacket(u)
      PROVE  Keeps
  <2>1. /\ lock' = lock /\ pc[u] \in HandlerLabels \ {"sent_dec", "sent_chk"}
        /\ \E l \in HandlerLabels \cup {"close_cas", "idle"} :
              Go(u, l) /\ l \notin {"sent_dec", "sent_chk"}
    BY <1>5 DEF RecvTooLong, RecvAgain, RecvDrop, SentError, TimerPing, RecvPacket,
                HandlerLabels, RecvLabels, SentLabels
  <2>2. lock # u
    BY <2>1 DEF LockInv, CloseLabels, HandlerLabels, RecvLabels, SentLabels
  <2> QED
    BY <1>0, <2>1, <2>2 DEF Go
<1>6. CASE \E u \in Workers : SentPop(u)
  <2>1. PICK u \in Workers : SentPop(u)
    BY <1>6
  <2>2. lock = NoThread /\ lock' = u /\ Go(u, "sent_dec")
    BY <1>0, <2>1, SentPopEffect
  <2>3. u = w
    BY <1>0, <2>2 DEF Go
  <2> QED
    BY <1>0, <2>2, <2>3 DEF Go
<1>7. CASE \E u \in Workers : SentDec(u) \/ SentCheck(u)
  <2>1. PICK u \in Workers : SentDec(u) \/ SentCheck(u)
    BY <1>7
  <2>2. lock = u
    BY <2>1 DEF SentDec, SentCheck, LockInv
  <2>3. CASE SentDec(u)
    BY <1>0, <2>2, <2>3 DEF SentDec, Go
  <2>4. CASE SentCheck(u)
    BY <1>0, <2>2, <2>4 DEF SentCheck, Return, Go, sock, CloseLabels
  <2> QED
    BY <2>1, <2>3, <2>4
<1>8. CASE \E t \in Threads : Close(t)
  <2>1. PICK t \in Threads : Close(t)
    BY <1>8
  <2>2. t = w
    BY <1>0, <2>1, CloseMoves
  <2>3. lock' = lock /\ lock = w /\ pc'[w] \in CloseLabels
    <3>1. pc'[w] \in CloseLabels \cup {"idle"}
      BY <1>0, <2>1, <2>2, CloseControl DEF Go
    <3>2. lock' = w
      BY <3>1 DEF CloseLabels
    <3> QED
      BY <1>0, <2>1, <2>2, <3>1, <3>2, CloseMoves
  <2>4. pc'[w] \notin {"close_cas", "close_sock"}
    BY <1>0, <2>1, <2>2, <2>3, CloseMoves DEF LockInv
  <2> QED
    BY <2>3, <2>4 DEF CloseLabels
<1> QED
  BY <1>1, <1>2, <1>3, <1>4, <1>5, <1>6, <1>7, <1>8 DEF Next, Over, HandlerStep

\* The socket is closed by the thread that changed connect_status_, next.
LEMMA SockStep == CountInv /\ StatusInv /\ SockInv /\ [Next]_vars => SockInv'
<1> SUFFICES ASSUME CountInv, StatusInv, SockInv, [Next]_vars PROVE SockInv'
  OBVIOUS
<1>0. TypeInv /\ (status' = 1 => status = 1) /\ (open' => open)
  BY NoWayBack DEF CountInv
<1>1. CASE \A t \in Threads : ~Close(t)
  <2>1. status' = status
    BY <1>0, <1>1, Bystanders, ExecClose
  <2>2. /\ \A t \in Threads : pc[t] = "close_sock" => pc'[t] = "close_sock"
        /\ \A t \in Threads : pc'[t] \in CloseLabels \ {"close_cas"} => pc'[t] = pc[t]
    BY <1>0, <1>1, OutsideClose DEF CloseLabels
  <2> QED
    BY <1>0, <2>1, <2>2 DEF SockInv
<1>2. ASSUME NEW t \in Threads, Close(t) PROVE SockInv'
  <2>1. /\ \A u \in Threads \ {t} : pc'[u] = pc[u]
        /\ \/ pc[t] = "close_cas" /\ status' = 2 /\ pc'[t] = "close_sock"
           \/ pc[t] = "close_sock" /\ open' = FALSE /\ status' = status
           \/ pc[t] = "close_cas" /\ status' = status /\ status # 1 /\ pc'[t] = "close_op"
           \/ pc[t] \in CloseLabels \ {"close_cas", "close_sock"}
    BY <1>0, <1>2, CloseMoves, CloseControl
  <2>2. \A u \in Threads : pc'[u] \in CloseLabels \ {"close_cas"} => status' # 1
    <3>1. status' = 2 \/ status # 1
      BY <2>1 DEF SockInv, CloseLabels
    <3> QED
      BY <1>0, <2>1, <3>1 DEF SockInv
  <2>3. status' # 1 /\ open' => \E u \in Threads : pc'[u] = "close_sock"
    <3>1. CASE pc[t] = "close_cas" /\ status' = 2 /\ pc'[t] = "close_sock"
      BY <3>1
    <3>2. CASE pc[t] = "close_sock" /\ open' = FALSE
      BY <3>2
    <3>3. CASE pc[t] # "close_sock" /\ status # 1
      BY <1>0, <2>1, <3>3 DEF SockInv
    <3> QED
      BY <2>1, <3>1, <3>2, <3>3 DEF SockInv
  <2> QED
    BY <2>2, <2>3 DEF SockInv
<1> QED
  BY <1>1, <1>2
\* A worker gets into close() without the guard from one of two handlers.
LEMMA NewDropping ==
    ASSUME TypeInv, LockInv, [Next]_vars, NEW w \in Dropping', w \notin Dropping
    PROVE  RecvDrop(w) \/ SentError(w)
<1> USE ThreadsInTypes, ThreadsAssumption
<1>0. /\ pc \in [Threads -> Labels] /\ w \in Workers /\ w # Main /\ w \notin Callers
      /\ pc'[w] \in CloseLabels /\ lock' # w
  BY DEF TypeInv, Types, Dropping
<1>1. ASSUME NEW t \in Threads, Close(t) PROVE FALSE
  <2>1. pc'[t] # "idle" => lock' = lock /\ pc[t] \in CloseLabels
    BY <1>1, CloseMoves, CloseControl
  <2>2. t # w => pc'[w] = pc[w] /\ (lock' = w <=> lock = w)
    BY <1>0, <1>1, CloseMoves
  <2> QED
    BY <1>0, <2>1, <2>2 DEF Dropping, CloseLabels
<1>2. pc'[w] = "close_cas" /\ pc[w] \notin CloseLabels
  BY <1>0, <1>1, OutsideClose DEF Dropping
<1>3. pc'[w] # pc[w]
  BY <1>0, <1>2
<1>4. ~Exec /\ ~Accept /\ ~Kernel /\ ~UNCHANGED vars
  BY <1>0, <1>3
     DEF Exec, DeliverStale, DeliverRefused, DeliverPending, Deliver,
         Accept, AcceptNoMemory, AcceptPush, AcceptRead, AcceptTimer, vars,
         Kernel, RecvArrives, RecvPeerGone, RecvAborted, SendCompletes, SendAborted,
         TimerExpires, Go
<1>5. ASSUME NEW t \in Callers, Call(t) \/ Send(t) PROVE FALSE
  <2>1. \E l : Go(t, l)
    BY <1>5, SendEffect DEF Call, CallSend, CallClose
  <2> QED
    BY <1>0, <1>3, <2>1 DEF Go
<1>6. ASSUME NEW u \in Workers, Handler(u) PROVE FALSE
  BY <1>0, <1>2, <1>3, <1>6 DEF Handler, RecvHandler, SentHandler, TimerHandler, Go
<1>7. ASSUME NEW u \in Workers, HandlerStep(u) \/ RecvPacket(u) PROVE RecvDrop(w) \/ SentError(w)
  <2>1. u = w
    BY <1>0, <1>3, <1>7, HandlerControl DEF Go
  <2>2. ~RecvTooLong(w) /\ ~RecvPacket(w) /\ ~RecvAgain(w) /\ ~SentPop(w) /\ ~SentDec(w)
        /\ ~TimerPing(w)
    BY <1>0, <1>2
       DEF RecvTooLong, RecvPacket, RecvAgain, SentPop, SentDec, TimerPing, Go
  <2>3. ~SentCheck(w)
    BY <1>0, <1>2 DEF SentCheck, Return, Go, LockInv
  <2> QED
    BY <1>7, <2>1, <2>2, <2>3 DEF HandlerStep
<1> QED
  BY <1>1, <1>4, <1>5, <1>6, <1>7 DEF Next, Over

\* Nobody empties a clogged buffer.
LEMMA CloggedStays == CountInv /\ Clogged /\ [Next]_vars => Clogged'
<1> SUFFICES ASSUME CountInv, Clogged, [Next]_vars PROVE Clogged'
  OBVIOUS
<1> USE ThreadsInTypes, ThreadsAssumption
<1>0. /\ pc \in [Threads -> Labels] /\ TypeInv
      /\ sbuf.len > 0 /\ wr = "none" /\ Completing = {} /\ sbuf.len \in Nat
  BY SizesAssumption DEF CountInv, TypeInv, Types, Buffer, Clogged
<1>1. ASSUME NEW t \in Threads, NEW l, l \notin {"sent_err", "sent_lock"},
             pc' = pc \/ Go(t, l)
      PROVE  Completing' = {}
  BY <1>0, <1>1 DEF Completing, Go
<1>2. CASE Exec
  <2>1. UNCHANGED <<sbuf, wr>>
        /\ (pc' = pc \/ \E l \in {"close_cas", "acc_push", "acc_nomem"} : Go(Main, l))
    BY <1>2 DEF Exec, DeliverStale, DeliverRefused, DeliverPending, Deliver, io
  <2> QED
    BY <1>0, <1>1, <2>1 DEF Clogged
<1>3. CASE Accept
  <2>1. UNCHANGED <<sbuf, wr>>
        /\ \E l \in {"close_cas", "acc_read", "acc_timer", "idle"} : Go(Main, l)
    BY <1>3 DEF Accept, AcceptNoMemory, AcceptPush, AcceptRead, AcceptTimer, io
  <2> QED
    BY <1>0, <1>1, <2>1 DEF Clogged
<1>4. CASE Kernel
  BY <1>0, <1>4 DEF Kernel, RecvArrives, RecvPeerGone, RecvAborted,
                    SendCompletes, SendAborted, TimerExpires, Clogged, Completing
<1>5. ASSUME NEW t \in Callers, Call(t) PROVE Clogged'
  <2>1. UNCHANGED <<sbuf, wr>> /\ \E l \in {"send_lock", "close_cas"} : Go(t, l)
    BY <1>5 DEF Call, CallSend, CallClose, io
  <2> QED
    BY <1>0, <1>1, <2>1 DEF Clogged
<1>6. ASSUME NEW t \in Callers, Send(t) PROVE Clogged'
  <2>1. /\ sbuf' \in Buffer(BufCap) /\ sbuf'.len >= sbuf.len /\ wr' = wr
        /\ \E l \in {"idle", "close_cas"} : Go(t, l)
    BY <1>0, <1>6, SendEffect
  <2>2. sbuf'.len > 0
    BY <1>0, <2>1, SizesAssumption DEF Buffer
  <2> QED
    BY <1>0, <1>1, <2>1, <2>2 DEF Clogged
<1>7. ASSUME NEW w \in Workers, Handler(w) PROVE Clogged'
  <2>1. UNCHANGED <<sbuf, wr>>
        /\ (pc' = pc \/ \E l \in {"recv_first", "recv_drop", "tick_push"} : Go(w, l))
    BY <1>0, <1>7 DEF Handler, RecvHandler, SentHandler, TimerHandler
  <2> QED
    BY <1>0, <1>1, <2>1 DEF Clogged
<1>8. ASSUME NEW w \in Workers, HandlerStep(w) \/ RecvPacket(w) PROVE Clogged'
  <2>1. ~SentPop(w) /\ ~SentError(w)
    BY <1>0 DEF SentPop, SentError, Completing
  <2>2. /\ UNCHANGED <<sbuf, wr>>
        /\ \E l \in HandlerLabels \cup {"close_cas", "idle"} :
              Go(w, l) /\ l \notin {"sent_err", "sent_lock"}
    BY <1>8, <2>1
       DEF HandlerStep, RecvTooLong, RecvAgain, RecvDrop, SentDec, SentCheck, TimerPing,
           RecvPacket, Return, HandlerLabels, RecvLabels, SentLabels, io
  <2> QED
    BY <1>0, <1>1, <2>2 DEF Clogged
<1>9. ASSUME NEW t \in Threads, Close(t) PROVE Clogged'
  <2>1. UNCHANGED <<sbuf, wr>> /\ \E l \in CloseLabels \cup {"idle"} : Go(t, l)
    BY <1>9, CloseFrame, CloseControl
  <2> QED
    BY <1>0, <1>1, <2>1 DEF Clogged, CloseLabels
<1>10. CASE UNCHANGED vars
  BY <1>0, <1>10 DEF vars, Clogged, Completing
<1> QED
  BY <1>2, <1>3, <1>4, <1>5, <1>6, <1>7, <1>8, <1>9, <1>10 DEF Next, Over

\* A second handler in close() without the guard comes from a failed send, whose
\* bytes stay in the buffer; from the read it can come only once.
LEMMA DropStep ==
    CountInv /\ StatusInv /\ LockInv /\ DropInv /\ [Next]_vars => DropInv'
<1> SUFFICES ASSUME CountInv, StatusInv, LockInv, DropInv, [Next]_vars, ~Clogged PROVE DropInv'
  BY CloggedStays DEF DropInv
<1> USE ThreadsInTypes, ThreadsAssumption
<1>0. /\ pc \in [Threads -> Labels] /\ evq \in Seq(Events) /\ PendingFirst
      /\ TypeInv /\ EarlyInv /\ IOInv
  BY DEF CountInv, TypeInv, Types, EarlyInv
<1>1. /\ \A u, v \in Dropping : u = v
      /\ Dropping # {} => rd = "none" /\ Reading = {}
  BY DEF DropInv
<1>2. ASSUME NEW w \in Workers, RecvDrop(w) PROVE DropInv'
  <2>1. w \in Reading /\ rd = "none" /\ Reading = {w}
    BY <1>0, <1>2 DEF RecvDrop, Reading, RecvLabels, IOInv, ReadInv
  <2>2. Dropping = {}
    BY <1>1, <2>1
  <2>3. rd' = "none" /\ lock' = lock /\ pc' = [pc EXCEPT ![w] = "close_cas"]
    BY <1>2, <2>1 DEF RecvDrop, Go, io
  <2>4. Reading' = {}
    BY <1>0, <2>1, <2>3 DEF Reading, RecvLabels
  <2>5. \A u \in Dropping' : u = w
    BY <1>0, <2>2, <2>3 DEF Dropping
  <2> QED
    BY <2>3, <2>4, <2>5 DEF DropInv
<1>3. ASSUME NEW w \in Workers, SentError(w) PROVE DropInv'
  <2>1. w \in Completing /\ wr = "none" /\ Completing = {w} /\ 0 < issued /\ issued <= sbuf.len
    BY <1>0, <1>3 DEF SentError, Completing, IOInv, WriteInv
  <2>2. UNCHANGED <<wr, sbuf>> /\ pc' = [pc EXCEPT ![w] = "close_cas"]
    BY <1>3 DEF SentError, Go, io
  <2>3. Completing' = {}
    BY <1>0, <2>1, <2>2 DEF Completing
  <2>4. sbuf.len > 0
    BY <1>0, <2>1, SizesAssumption DEF TypeInv, Types, Buffer
  <2> QED
    BY <2>1, <2>2, <2>3, <2>4 DEF DropInv, Clogged
<1>4. CASE \A w \in Workers : ~RecvDrop(w) /\ ~SentError(w)
  <2>1. Dropping' \subseteq Dropping
    <3>1. \A w \in Dropping' : w \in Workers
      BY DEF Dropping
    <3> QED
      BY <1>0, <1>4, <3>1, NewDropping
  <2>2. Dropping # {} => Silent /\ ~DeliverPending
    <3> SUFFICES ASSUME NEW w \in Dropping PROVE Silent /\ ~DeliverPending
      BY <1>1
    <3>1. w \in Threads /\ w # Main /\ pc[w] # "idle"
      BY DEF Dropping, CloseLabels
    <3>2. ~Early
      BY <1>0, <3>1 DEF EarlyInv, Quiet
    <3> QED
      BY <1>0, <1>1, <3>2, PendingHead DEF Silent, Early, DeliverPending
  <2>3. Dropping' # {} => Silent'
    BY <2>1, <2>2, SilenceLasts
  <2> QED
    BY <1>1, <2>1, <2>3 DEF DropInv, Silent
<1> QED
  BY <1>2, <1>3, <1>4
\* While the socket is open and nothing is buffered, nobody gets on with close()
\* that would let the logic thread send in the middle of it.
LEMMA NoSender ==
    ASSUME Callers = {Main}, CountInv, LockInv, SockInv, DropInv, open, sbuf.len = 0,
           NEW t \in Threads, pc[t] \in CloseLabels \ {"close_cas", "close_sock"}
    PROVE  ~(pc[Main] = "send_lock" /\ lock = NoThread)
<1> SUFFICES ASSUME pc[Main] = "send_lock", lock = NoThread PROVE FALSE
  OBVIOUS
<1>1. PICK u \in Threads : pc[u] = "close_sock"
  BY DEF SockInv
<1>2. t \in Workers /\ u \in Workers /\ t # u
  BY <1>1, ThreadsAssumption DEF Threads, CloseLabels
<1>3. lock # t /\ lock # u
  BY <1>2, ThreadsInTypes, ThreadsAssumption
<1>4. t \in Dropping /\ u \in Dropping
  BY <1>1, <1>2, <1>3 DEF Dropping, CloseLabels
<1>5. ~Clogged
  BY DEF Clogged
<1> QED
  BY <1>2, <1>4, <1>5 DEF DropInv

\* Committed to the close, with nothing buffered: no operation is left.
LEMMA ZeroCount ==
    ASSUME CountInv, SilentInv, DoomedInv, Committed, linked, sbuf.len = 0
    PROVE  opcount = 0
<1>1. wr = "none" /\ Completing = {}
  BY SizesAssumption DEF CountInv, TypeInv, Types, IOInv, WriteInv
<1>2. rd = "none" /\ Reading = {}
  BY DEF SilentInv, Silent
<1>3. Handlers = {}
  BY <1>1, <1>2 DEF Handlers, SentLabels, Completing, Reading, DoomedInv
<1> QED
  BY <1>1, <1>2, <1>3, HandlersCount DEF CountInv, OpCountExact, Outstanding

\* operator_count_ = 0 as a thread inside close() reads it: no send either.
LEMMA ZeroIsIdle ==
    ASSUME CountInv, opcount = 0
    PROVE  wr = "none" /\ Handlers = {}
<1>1. Outstanding(rd) \in Nat /\ Outstanding(wr) \in Nat
  BY DEF Outstanding
<1>2. Cardinality(Handlers) = 0 /\ Outstanding(wr) = 0
  BY <1>1, HandlersCount DEF CountInv, OpCountExact
<1> QED
  BY <1>2, HandlersCount DEF Outstanding

\* Who commits to the close does so on operator_count_ = 0.
LEMMA NewCommitted ==
    ASSUME CountInv, StatusInv, [Next]_vars, Committed', ~Committed
    PROVE  opcount = 0 /\ \E t \in Threads : CloseOp(t)
<1>0. TypeInv /\ pc \in [Threads -> Labels]
  BY DEF CountInv, TypeInv, Types
<1>1. PICK t \in Threads : Close(t)
  BY <1>0, Bystanders, ExecClose DEF Committed
<1>2. /\ status' \notin {0, 3}
      /\ \A u \in Threads \ {t} : pc'[u] = pc[u]
      /\ pc'[t] \in {"close_cas3", "close_push", "close_zero"} =>
            pc[t] = "close_op" /\ opcount = 0
  <2>1. status \notin {0, 3} /\ pc[t] \notin {"close_cas3", "close_push", "close_zero"}
    BY DEF Committed
  <2>2. \A u \in Threads \ {t} : pc'[u] = pc[u]
    BY <1>0, <1>1, CloseMoves
  <2>3. status' \notin {0, 3}
    <3>1. status' = status \/ status' = 2
      BY <1>0, <1>1, <2>1, CloseMoves
    <3> QED
      BY <2>1, <3>1
  <2>4. pc'[t] \in {"close_cas3", "close_push", "close_zero"} => pc[t] = "close_op" /\ opcount = 0
    BY <1>0, <1>1, <2>1, CloseMoves
  <2> QED
    BY <2>2, <2>3, <2>4
<1>3. PICK u \in Threads : pc'[u] \in {"close_cas3", "close_push", "close_zero"}
  BY <1>2 DEF Committed
<1>4. u = t
  BY <1>2, <1>3 DEF Committed
<1>5. CloseOp(t)
  BY <1>1, <1>2, <1>3, <1>4
     DEF Close, CloseCas, CloseSock, CloseCas3, ClosePush, CloseZero, CloseOp0, CloseSt0,
         LinkCheck, LinkNull, LinkFree
<1> QED
  BY <1>2, <1>3, <1>4, <1>5

\* DoomedInv is preserved: what the logic thread sends once the close is to be
\* reported, it sends on a closed socket.
LEMMA DoomedStep ==
    ASSUME Callers = {Main}, CountInv, StatusInv, SilentInv, StrandInv, [Next]_vars
    PROVE  DoomedInv'
<1> SUFFICES ASSUME Committed', linked' PROVE
       /\ wr' # "ok" /\ (wr' = "wait" => ~open')
       /\ \A w \in Workers : pc'[w] \notin {"sent_lock", "sent_dec"}
  BY DEF DoomedInv
<1> USE ThreadsInTypes, ThreadsAssumption DEF StrandInv
<1>0. /\ pc \in [Threads -> Labels] /\ TypeInv /\ EarlyInv /\ IOInv
      /\ linked /\ (open' => open)
  BY NoWayBack DEF CountInv, TypeInv, Types
<1> DEFINE Goal ==
       /\ wr' # "ok" /\ (wr' = "wait" => ~open')
       /\ \A w \in Workers : pc'[w] \notin {"sent_lock", "sent_dec"}
<1>1. CASE ~Committed
  <2>1. PICK t \in Threads : CloseOp(t)
    BY <1>1, NewCommitted
  <2>2. wr = "none" /\ Handlers = {}
    BY <1>1, NewCommitted, ZeroIsIdle
  <2>3. wr' = "none" /\ \E l \in {"close_cas3", "close_op0"} : pc' = [pc EXCEPT ![t] = l]
    BY <2>1, <2>2 DEF CloseOp, Go, io
  <2> QED
    BY <1>0, <2>2, <2>3 DEF Handlers, SentLabels
<1>2. CASE Committed
  <2>1. /\ wr # "ok" /\ (wr = "wait" => ~open)
        /\ \A w \in Workers : pc[w] \notin {"sent_lock", "sent_dec"}
    BY <1>0, <1>2 DEF DoomedInv
  <2>2. ASSUME NEW t \in Threads, NEW l, l \notin {"sent_lock", "sent_dec"},
               pc' = pc \/ Go(t, l), wr' \in {wr, "none"}
        PROVE  Goal
    BY <1>0, <2>1, <2>2 DEF Go
  <2>3. CASE Exec
    <3>1. wr' = wr /\ (pc' = pc \/ \E l \in {"close_cas", "acc_push", "acc_nomem"} : Go(Main, l))
      BY <2>3 DEF Exec, DeliverStale, DeliverRefused, DeliverPending, Deliver, io
    <3> QED
      BY <2>2, <3>1
  <2>4. CASE Accept
    <3>1. wr' = wr /\ \E l \in {"close_cas", "acc_read", "acc_timer", "idle"} : Go(Main, l)
      BY <2>4 DEF Accept, AcceptNoMemory, AcceptPush, AcceptRead, AcceptTimer, io
    <3> QED
      BY <2>2, <3>1
  <2>5. CASE Kernel
    BY <2>1, <2>5 DEF Kernel, RecvArrives, RecvPeerGone, RecvAborted,
                      SendCompletes, SendAborted, TimerExpires, sock
  <2>6. ASSUME NEW t \in Callers, Call(t) PROVE Goal
    <3>1. wr' = wr /\ \E l \in {"send_lock", "close_cas"} : Go(t, l)
      BY <2>6 DEF Call, CallSend, CallClose, io
    <3> QED
      BY <2>2, <3>1
  <2>7. ASSUME NEW t \in Callers, Send(t) PROVE Goal
    <3>1. /\ t = Main /\ pc[Main] = "send_lock" /\ lock = NoThread /\ open' = open
          /\ \E l \in {"idle", "close_cas"} : Go(t, l)
          /\ \/ wr' = wr
             \/ sbuf.len = 0 /\ wr' = IF wr = "none" THEN "wait" ELSE "twice"
      BY <1>0, <2>7, SendEffect
    <3>2. CASE wr' = wr
      BY <2>2, <3>1, <3>2
    <3>3. CASE sbuf.len = 0 /\ wr' = IF wr = "none" THEN "wait" ELSE "twice"
      <4>1. ~open
        <5> SUFFICES ASSUME open PROVE FALSE
          OBVIOUS
        <5>1. \E u \in Threads : pc[u] \in CloseLabels \ {"close_cas", "close_sock"}
          <6>1. CASE status \in {0, 3}
            <7>1. Leaving
              BY <1>0, <3>3, <6>1 DEF LeavingInv
            <7> QED
              BY <7>1 DEF Leaving, CloseLabels
          <6>2. CASE status \notin {0, 3}
            BY <1>2, <6>2 DEF Committed, CloseLabels
          <6> QED
            BY <6>1, <6>2
        <5> QED
          BY <3>1, <3>3, <5>1, NoSender
      <4>2. wr' # "ok" /\ (wr' = "wait" => ~open')
        BY <1>0, <3>3, <4>1
      <4>3. \A w \in Workers : pc'[w] \notin {"sent_lock", "sent_dec"}
        BY <1>0, <2>1, <3>1 DEF Go
      <4> QED
        BY <4>2, <4>3
    <3> QED
      BY <3>1, <3>2, <3>3
  <2>8. ASSUME NEW w \in Workers, Handler(w) PROVE Goal
    <3>1. /\ wr' \in {wr, "none"}
          /\ pc' = pc \/ \E l \in {"recv_first", "recv_drop", "sent_err", "tick_push"} : Go(w, l)
      BY <2>1, <2>8 DEF Handler, RecvHandler, SentHandler, TimerHandler
    <3> QED
      BY <2>2, <3>1
  <2>9. ASSUME NEW w \in Workers, HandlerStep(w) \/ RecvPacket(w) PROVE Goal
    <3>1. ~SentPop(w) /\ ~SentDec(w)
      BY <2>1 DEF SentPop, SentDec
    <3>2. wr' = wr /\ \E l \in {"recv_drop", "recv_more", "idle", "close_cas"} : Go(w, l)
      BY <2>9, <3>1
         DEF HandlerStep, RecvTooLong, RecvAgain, RecvDrop, SentError, SentCheck, TimerPing,
             RecvPacket, Return, io
    <3> QED
      BY <2>2, <3>2
  <2>10. ASSUME NEW t \in Threads, Close(t) PROVE Goal
    <3>1. wr' = wr /\ \E l \in CloseLabels \cup {"idle"} : Go(t, l)
      BY <2>10, CloseFrame, CloseControl
    <3> QED
      BY <2>2, <3>1 DEF CloseLabels
  <2>11. CASE UNCHANGED vars
    BY <2>1, <2>11 DEF vars
  <2> QED
    BY <2>3, <2>4, <2>5, <2>6, <2>7, <2>8, <2>9, <2>10, <2>11 DEF Next, Over
<1> QED
  BY <1>1, <1>2
\* Once the close is to be reported the buffer does not run empty: only the
\* handler of a successful send takes bytes out of it.
LEMMA StillBuffered ==
    ASSUME CountInv, DoomedInv, Committed, linked, [Next]_vars, sbuf'.len = 0
    PROVE  sbuf.len = 0
<1>0. TypeInv /\ sbuf.len \in Nat
  BY SizesAssumption DEF CountInv, TypeInv, Types, Buffer
<1>1. ASSUME NEW t \in Callers, Send(t) PROVE sbuf.len = 0
  <2>1. sbuf'.len >= sbuf.len
    BY <1>0, <1>1, SendEffect
  <2> QED
    BY <1>0, <2>1
<1>2. CASE \A t \in Callers : ~Send(t)
  <2>1. \A w \in Workers : ~SentPop(w)
    BY DEF SentPop, DoomedInv
  <2>2. \A t \in Threads : Close(t) => sbuf' = sbuf
    BY CloseFrame
  <2>3. sbuf' = sbuf
    BY <1>2, <2>1, <2>2
       DEF Next, Over, vars, Exec, DeliverStale, DeliverRefused, DeliverPending, Deliver,
           Accept, AcceptNoMemory, AcceptPush, AcceptRead, AcceptTimer,
           Kernel, RecvArrives, RecvPeerGone, RecvAborted, SendCompletes, SendAborted,
           TimerExpires, Call, CallSend, CallClose, Handler, RecvHandler, SentHandler,
           TimerHandler, HandlerStep, RecvTooLong, RecvAgain, RecvDrop, SentError, SentDec,
           SentCheck, TimerPing, RecvPacket
  <2> QED
    BY <2>3
<1> QED
  BY <1>1, <1>2

\* The thread that writes 3 into connect_status_ goes on to write 0.
LEMMA ReportStep == CountInv /\ StatusInv /\ ReportInv /\ [Next]_vars => ReportInv'
<1> SUFFICES ASSUME CountInv, StatusInv, ReportInv, [Next]_vars, status' = 3 PROVE Leaving'
  BY DEF ReportInv
<1>0. TypeInv
  BY DEF CountInv
<1>1. CASE \A t \in Threads : ~Close(t)
  <2>1. status = 3
    BY <1>0, <1>1, Bystanders, ExecClose
  <2>2. PICK t \in Threads : pc[t] \in {"close_push", "close_zero"}
    BY <2>1 DEF ReportInv, Leaving
  <2>3. pc'[t] = pc[t]
    BY <1>0, <1>1, <2>2, OutsideClose DEF CloseLabels
  <2> QED
    BY <2>2, <2>3 DEF Leaving
<1>2. ASSUME NEW t \in Threads, Close(t) PROVE Leaving'
  <2>1. CASE pc[t] = "close_cas3" /\ status = 2
    <3>1. pc'[t] = "close_push"
      BY <1>0, <1>2, <2>1, CloseMoves
    <3> QED
      BY <3>1 DEF Leaving
  <2>2. CASE status = 3
    <3>1. PICK u \in Threads : pc[u] \in {"close_push", "close_zero"}
      BY <2>2 DEF ReportInv, Leaving
    <3>2. u # t => pc'[u] = pc[u]
      BY <1>0, <1>2, CloseMoves
    <3>3. u = t => pc'[u] = "close_zero"
      <4>1. pc[t] = "close_zero" => status' = 0
        BY <1>0, <1>2, CloseMoves
      <4>2. pc[t] = "close_push" => pc'[t] = "close_zero"
        BY <1>0, <1>2, CloseMoves
      <4> QED
        BY <3>1, <4>1, <4>2
    <3> QED
      BY <3>1, <3>2, <3>3 DEF Leaving
  <2>3. status = 3 \/ (pc[t] = "close_cas3" /\ status = 2)
    <3>1. status' \in {status, 0, 2} \/ (pc[t] = "close_cas3" /\ status = 2)
      BY <1>0, <1>2, CloseMoves
    <3> QED
      BY <3>1
  <2> QED
    BY <2>1, <2>2, <2>3
<1> QED
  BY <1>1, <1>2

\* LeavingInv is preserved: with nothing buffered, no operation keeps the thread
\* that reported the close from LinkDown().
LEMMA LeavingStep ==
    CountInv /\ StatusInv /\ SilentInv /\ StrandInv /\ [Next]_vars => LeavingInv'
<1> SUFFICES ASSUME CountInv, StatusInv, SilentInv, StrandInv, [Next]_vars,
                    status' \in {0, 3}, linked', open', sbuf'.len = 0
             PROVE  Leaving'
  BY DEF LeavingInv
<1> USE DEF StrandInv
<1>0. TypeInv /\ linked /\ open
  BY NoWayBack DEF CountInv
<1>1. CASE status' = 3
  BY <1>1, ReportStep DEF ReportInv
<1>2. CASE \E t \in Threads : CloseZero(t)
  <2>1. PICK t \in Threads : CloseZero(t)
    BY <1>2
  <2>2. pc'[t] = "close_op0" /\ status' = 0
    BY <1>0, <2>1 DEF CloseZero, Go, TypeInv, Types
  <2> QED
    BY <2>1, <2>2 DEF Leaving
<1>3. CASE status' = 0 /\ \A t \in Threads : ~CloseZero(t)
  <2>1. status = 0 /\ Committed
    BY <1>3, NoWayBack DEF Committed
  <2>2. sbuf.len = 0
    BY <1>0, <2>1, StillBuffered
  <2>3. opcount = 0
    BY <1>0, <2>1, <2>2, ZeroCount
  <2>4. PICK t \in Threads : pc[t] \in {"close_op0", "close_st0", "link_chk", "link_null"}
    BY <1>0, <2>1, <2>2 DEF LeavingInv, Leaving
  <2>5. CASE pc'[t] = pc[t]
    BY <1>3, <2>4, <2>5 DEF Leaving
  <2>6. CASE pc'[t] # pc[t]
    <3>1. Close(t)
      <4>1. ASSUME \A u \in Threads : ~Close(u) PROVE FALSE
        BY <1>0, <2>4, <2>6, <4>1, OutsideClose DEF CloseLabels
      <4>2. PICK u \in Threads : Close(u)
        BY <4>1
      <4> QED
        BY <1>0, <2>6, <4>2, CloseMoves
    <3>2. pc'[t] \in {"close_st0", "link_chk", "link_null"} \/ linked' = FALSE
      BY <1>0, <2>1, <2>3, <2>4, <3>1, CloseMoves
    <3> QED
      BY <1>3, <3>2 DEF Leaving
  <2> QED
    BY <2>5, <2>6
<1> QED
  BY <1>1, <1>2, <1>3

\* RescueInv is preserved: who leaves close() before LinkDown() has seen an
\* operation, and the operation ends in close() again.
LEMMA RescueStep ==
    CountInv /\ StatusInv /\ SilentInv /\ StrandInv /\ [Next]_vars => RescueInv'
<1> SUFFICES ASSUME CountInv, StatusInv, SilentInv, StrandInv, [Next]_vars,
                    status' = 0, linked'
             PROVE  \/ wr' # "none"
                    \/ \E w \in Workers : pc'[w] = "sent_err"
                    \/ \E t \in Threads : pc'[t] \in CloseLabels \ {"link_free"}
  BY DEF RescueInv
<1> USE ThreadsInTypes DEF StrandInv
<1> DEFINE Goal == \/ wr' # "none"
                   \/ \E w \in Workers : pc'[w] = "sent_err"
                   \/ \E t \in Threads : pc'[t] \in CloseLabels \ {"link_free"}
<1>0. TypeInv /\ linked /\ pc \in [Threads -> Labels]
  BY NoWayBack DEF CountInv, TypeInv, Types
<1>1. CASE \E t \in Threads : CloseZero(t)
  <2>1. PICK t \in Threads : CloseZero(t)
    BY <1>1
  <2>2. pc'[t] = "close_op0"
    BY <1>0, <2>1 DEF CloseZero, Go
  <2> QED
    BY <2>1, <2>2 DEF CloseLabels
<1>2. CASE \A t \in Threads : ~CloseZero(t)
  <2>1. status = 0 /\ Committed
    BY <1>2, NoWayBack DEF Committed
  <2>2. wr # "ok" /\ \A w \in Workers : pc[w] \notin {"sent_lock", "sent_dec"}
    BY <1>0, <2>1 DEF DoomedInv
  <2>3. ASSUME wr # "none", wr' = "none" PROVE Goal
    <3>1. PICK w \in Workers : SentHandler(w)
      <4>1. \A t \in Callers : Send(t) => wr' # "none"
        BY <1>0, <2>3, SendEffect
      <4>2. \A w \in Workers : ~SentPop(w)
        BY <2>2 DEF SentPop
      <4>3. \A t \in Threads : Close(t) => wr' = wr
        BY CloseFrame
      <4> QED
        BY <2>3, <4>1, <4>2, <4>3
           DEF Next, Over, vars, io, Exec, DeliverStale, DeliverRefused, DeliverPending, Deliver,
               Accept, AcceptNoMemory, AcceptPush, AcceptRead, AcceptTimer,
               Kernel, RecvArrives, RecvPeerGone, RecvAborted, SendCompletes, SendAborted,
               TimerExpires, Call, CallSend, CallClose, Handler, RecvHandler,
               TimerHandler, HandlerStep, RecvTooLong, RecvAgain, RecvDrop, SentError, SentDec,
               SentCheck, TimerPing, RecvPacket
    <3>2. pc'[w] = "sent_err"
      BY <1>0, <2>2, <3>1 DEF SentHandler, Go
    <3> QED
      BY <3>2
  <2>4. ASSUME NEW w \in Workers, pc[w] = "sent_err", pc'[w] # "sent_err" PROVE Goal
    <3>1. SentError(w)
      <4>1. \A t \in Threads : ~Close(t)
        <5> SUFFICES ASSUME NEW t \in Threads, Close(t) PROVE FALSE
          OBVIOUS
        <5>1. t = w
          BY <1>0, <2>4, CloseMoves
        <5> QED
          BY <2>4, <5>1, CloseControl DEF CloseLabels
      <4>2. \A t \in Callers : ~Call(t) /\ ~Send(t)
        <5> SUFFICES ASSUME NEW t \in Callers, Call(t) \/ Send(t) PROVE FALSE
          OBVIOUS
        <5>1. t # w /\ \E l : Go(t, l)
          BY <1>0, SendEffect, ThreadsAssumption DEF Call, CallSend, CallClose
        <5> QED
          BY <1>0, <2>4, <5>1 DEF Go
      <4>3. ~Exec /\ ~Accept /\ ~Kernel /\ ~UNCHANGED vars
        BY <1>0, <2>4, ThreadsAssumption
           DEF Exec, DeliverStale, DeliverRefused, DeliverPending, Deliver, Go,
               Accept, AcceptNoMemory, AcceptPush, AcceptRead, AcceptTimer, vars,
               Kernel, RecvArrives, RecvPeerGone, RecvAborted, SendCompletes, SendAborted,
               TimerExpires
      <4>4. \A v \in Workers : ~Handler(v)
        BY <1>0, <2>4 DEF Handler, RecvHandler, SentHandler, TimerHandler, Go
      <4>5. PICK v \in Workers : HandlerStep(v) \/ RecvPacket(v)
        BY <4>1, <4>2, <4>3, <4>4 DEF Next, Over
      <4>6. v = w
        BY <1>0, <2>4, <4>5, HandlerControl DEF Go
      <4> QED
        BY <2>4, <4>5, <4>6
           DEF HandlerStep, RecvTooLong, RecvAgain, RecvDrop, SentPop, SentDec, SentCheck,
               TimerPing, RecvPacket
    <3>2. pc'[w] = "close_cas"
      BY <1>0, <3>1 DEF SentError, Go
    <3> QED
      BY <3>2 DEF CloseLabels
  <2>5. ASSUME NEW t \in Threads, pc[t] \in CloseLabels \ {"link_free"} PROVE Goal
    <3>1. CASE ~Close(t)
      <4>1. pc'[t] = pc[t]
        <5>1. CASE \A u \in Threads : ~Close(u)
          BY <1>0, <2>5, <5>1, OutsideClose
        <5>2. CASE \E u \in Threads : Close(u)
          BY <1>0, <3>1, <5>2, CloseMoves
        <5> QED
          BY <5>1, <5>2
      <4> QED
        BY <2>5, <4>1
    <3>2. CASE Close(t)
      <4>1. \/ pc'[t] \in CloseLabels \ {"link_free"}
            \/ linked' = FALSE
            \/ pc[t] = "close_op0" /\ opcount # 0
        BY <1>0, <2>1, <2>5, <3>2, CloseMoves DEF CloseLabels
      <4>2. CASE pc[t] = "close_op0" /\ opcount # 0
        <5>1. wr # "none" \/ Handlers # {}
          <6>1. rd = "none"
            BY <2>1 DEF SilentInv, Silent
          <6>2. Handlers = {} => Cardinality(Handlers) = 0
            BY HandlersCount
          <6> QED
            BY <4>2, <6>1, <6>2 DEF CountInv, OpCountExact, Outstanding
        <5>2. wr' = wr
          BY <3>2, CloseFrame
        <5>3. Handlers # {} => \E w \in Workers : pc[w] = "sent_err"
          BY <2>1, <2>2 DEF SilentInv, Silent, Reading, Handlers, SentLabels
        <5>4. \A w \in Workers : pc[w] = "sent_err" => pc'[w] = "sent_err"
          BY <1>0, <3>2, <4>2, CloseMoves
        <5> QED
          BY <5>1, <5>2, <5>3, <5>4
      <4> QED
        BY <4>1, <4>2
    <3> QED
      BY <3>1, <3>2
  <2> QED
    BY <1>0, <2>1, <2>3, <2>4, <2>5 DEF RescueInv
<1> QED
  BY <1>1, <1>2

\* A closed connection that nobody works for any more has left the handle table,
\* as long as the logic thread is the only one that uses the handle: the thread that
\* reads operator_count_ = 0 after it reported the close takes it out, and if it reads
\* an operation, that one was begun on a closed socket and its handler closes again.
THEOREM NotStrandedHolds ==
    ASSUME Callers = {Main}
    PROVE  Spec => []NotStranded
<1>1. Init => StrandInv
  <2> SUFFICES ASSUME Init PROVE StrandInv
    OBVIOUS
  <2>1. status = 1 /\ lock = NoThread /\ \A t \in Threads : pc[t] = "idle"
    BY DEF Init
  <2>2. LockInv
    BY <2>1, ThreadsInTypes, ThreadsAssumption DEF LockInv
  <2>3. Dropping = {}
    BY <2>1, ThreadsInTypes DEF Dropping, CloseLabels
  <2>4. SockInv /\ DropInv
    BY <2>1, <2>3 DEF SockInv, DropInv, CloseLabels
  <2>5. ~Committed
    BY <2>1 DEF Committed
  <2> QED
    BY <2>1, <2>2, <2>4, <2>5 DEF StrandInv, DoomedInv, LeavingInv, ReportInv, RescueInv
<1>2. SocketInv /\ StrandInv /\ [Next]_vars => StrandInv'
  <2> SUFFICES ASSUME SocketInv, StrandInv, [Next]_vars PROVE StrandInv'
    OBVIOUS
  <2>1. LockInv' /\ SockInv' /\ DropInv'
    BY LockStep, SockStep, DropStep DEF SocketInv, StrandInv
  <2>2. DoomedInv'
    BY DoomedStep DEF SocketInv
  <2>3. LeavingInv' /\ ReportInv' /\ RescueInv'
    BY LeavingStep, ReportStep, RescueStep DEF SocketInv, StrandInv
  <2> QED
    BY <2>1, <2>2, <2>3 DEF StrandInv
<1>3. SocketInv /\ StrandInv => NotStranded
  <2> SUFFICES ASSUME SocketInv, StrandInv, status = 0, opcount = 0,
                      \A t \in Threads : pc[t] = "idle", linked
               PROVE  FALSE
    BY DEF NotStranded
  <2>1. wr = "none"
    BY ZeroIsIdle DEF SocketInv
  <2> QED
    BY <2>1, ThreadsInTypes DEF StrandInv, RescueInv, CloseLabels
<1> QED
  BY <1>1, <1>2, <1>3, SocketInvariant, PTL DEF Spec
=============================================================================
