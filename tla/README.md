# Formal model of XStudio

XStudio is a C++ server library: a network layer over asio (`src/src/net`), virtual
links over it (`net_module`), common services such as a thread pool, timers and
handle tables (`common`), game objects (`core`), a server frame (`framework`) and
database access (`database`, `nosql`). This directory holds TLA+ modules that
model its concurrent core, TLC configurations that check them on small instances
and TLAPS proofs for instances of any size.

Run everything from this directory:

    tlc -workers 2 -config MCNetSocket.cfg MCNetSocket
    tlapm NetBufferProofs.tla
    tlapm NetSocketProofs.tla
    tlc -workers 2 -config MCThreadPool.cfg MCThreadPool
    tlapm ThreadPoolProofs.tla
    tlc -workers 2 -config MCAsyncDatabase.cfg MCAsyncDatabase
    tlapm AsyncDatabaseProofs.tla
    tlc -workers 2 -config MCHandleTable.cfg MCHandleTable
    tlapm HandleTableProofs.tla
    tlc -workers 2 -config MCNetLinks.cfg MCNetLinks
    tlapm NetLinksProofs.tla
    tlc -workers 2 -config MCTimerWheel.cfg MCTimerWheel
    tlapm TimerWheelProofs.tla
    tlc -workers 2 -config MCBagTransaction.cfg MCBagTransaction

All paths below are relative to the repository root; `Socket.cpp` is
`src/net/asio_Socket.cpp` and `SocketMgr.cpp` is `src/net/asio_SocketMgr.cpp`.

## Inventory

| Component | State it keeps | Operations | Who calls it |
|---|---|---|---|
| Socket (`asio_Socket`) | `connect_status_`, `operator_count_`, socket, two buffers, keep-alive timer, handle, session pointer | `pending`, `accept`, `connect`, `send`, `close`, completion handlers | logic thread, io threads, any sender |
| Socket manager (`asio_SocketMgr`) | handle table `handles`, pool `free_handles`, event queue, timer map | `Push`, `Kick`, `Exec`, `LinkUp`, `LinkDown`, `CloseAll`, `WaitForClose`, `NewTimer`, `DelTimer`, `Final` | all |
| Server (`asio_Server`) | acceptor, acceptor count, status | `StartServer`, `StopServer`, `post_accept`, `handle_accept` | logic thread, io threads |
| io threads (`asio_Network`) | io_service, worker threads | start, exit | logic thread |
| Buffer (`asio_NetBuffer`) | allocation, offset, length | `push`, `put`, `pop`, `reset`, `enough`, `space` | socket |
| Virtual links (`net_module`) | relay, pipe and socket maps, per-link state and sequence tokens | handshake, forward, shutdown | session callbacks |
| Thread pool (`thread_pool.h`) | task queue, flags, three synchronisation objects | `commit`, `shutdown`, `restart`, worker loop | any thread |
| Timer wheel (`timer.cpp`) | wheel of linked timers, clock | `insert`, `remove`, `pause`, `resume`, `step` | one thread |
| Handle table (`auto_handle.h`), free list | chunks, generations, free slots | `new_handle`, `del_handle`, `exchange` | any thread |
| Bag, team (`core`) | slots, undo log; member array | put, delete, swap, move, commit, cancel; append, remove | one thread |
| Object events, object tree (`core`) | handlers, emission counter; children | register, remove, emit; insert, remove, destroy | one thread, re-entrant |
| Server frame (`framework`) | id blocks, parameters, refresh times, posted events | `GetSID`, `set`/`sync`, refresh, post/execute | logic thread, others |
| Asynchronous database | request and response queues, service thread | start, stop, request, response, escape | logic thread, service thread |

How they interact. A worker of the io_service runs a completion handler of a
socket, which pushes events on the queue of the socket manager; the logic thread
pops them in `ProcessNetEvent -> Exec` and calls the `INetworkSession`. In the
other direction application threads call `SendPacket*` and `CloseLink` with a
handle, which the manager resolves to a socket. Handlers are not wrapped in a
strand: any handler runs on any idle worker, several at a time, and all of them
share the two atomics `connect_status_` and `operator_count_`, on which the whole
closing protocol rests. `net_module` sits on the session callbacks; the server
frame drives `ProcessNetEvent`, timers and the database from one loop.

What is hard, and what makes each component correct:

* Socket: many threads may close at once, handlers may be at work or
  outstanding, senders may come late. It must count exactly, report the close
  once and last, keep one async_send at a time, leave no byte and no handle
  behind.
* Socket manager and server: a handle may be reused while events for its old
  owner wait in the queue; handles, once free, must be free once; stopping must end.
* Dialled sockets: the connect timeout races the completion; a reconnect meets
  the old buffers.
* Virtual links: the three-way handshake and the shutdown over an ordered pipe.
* Thread pool, database: wake-ups may be lost between test and wait; shutdown
  meets queued work.
* Timer wheel: every timer fires in its tick, also across the wraps.
* Handle table: an old handle must never resolve to a new object.
* Bag: a failed transaction restores the bag. Team: a member is in it once.
* Object events: removal and destruction from inside a callback.
* Id sequence: no id twice, also after a crash.

`PROJECT.json` lists the hazards at their lines with the properties that cover
them.

## What is modelled

### NetBuffer
`asio_NetBuffer` as a record of its three counters (`size`, `tag`, `len`); each
operator is the buffer a call leaves behind. `Sound` is what the unsigned
subtraction in `space()` presumes.

### NetSocket
The life of an accepted connection, from the moment `asio_Server` put its
`EVENT_PENDING` on the queue until its handle is back in the pool. A step is one
access to what threads share; everything thread-local around it belongs to the
step. `pc[t]` is where thread `t` stands in the code:

| Actions | Code |
|---|---|
| `DeliverStale`, `DeliverRefused`, `DeliverPending`, `Deliver` | `Exec`, SocketMgr.cpp 218-329 |
| `AcceptNoMemory`, `AcceptPush`, `AcceptRead`, `AcceptTimer` | `accept`, Socket.cpp 201-249 |
| `RecvHandler`, `RecvTooLong`, `RecvPacket`, `RecvAgain`, `RecvDrop` | `handle_recv`, 304-378 |
| `CallSend`, `Send` (`SendFits`, `SendOverflows`) | `SendPacket*`, `send`, 380-445 |
| `SentHandler`, `SentError`, `SentPop`, `SentDec`, `SentCheck` | `handle_send`, 448-479 |
| `TimerHandler`, `TimerPing` | `handle_timer`, 546-562 |
| `CallClose`, `CloseCas` ... `CloseSt0` | `CloseLink`, `CloseAll`, `close`, 481-521 |
| `LinkCheck`, `LinkNull`, `LinkFree` | `LinkDown`, SocketMgr.cpp 360-371 |
| `RecvArrives`, `RecvPeerGone`, `RecvAborted`, `SendCompletes`, `SendAborted`, `TimerExpires` | asio and the kernel |

State: `status` is `connect_status_`, `opcount` is `operator_count_`, `open` is
`socket_.is_open()`, `rd` and `wr` are the outstanding read and send or their
queued completions, `sbuf` and `lock` are `send_buffer_` and its mutex, `evq` is
this socket's part of `event_queue_`, `linked` says whether `handles[handle_]`
still points here, `freed` counts how often the handle was pushed on
`free_handles`, and `session` is what the `INetworkSession` has been told.

Abstracted: bytes (only lengths are kept), the receive buffer (a read
yields some packets, none, or one that is too long), sizes of packets, logging,
times. `send(data)` is the chain with an empty tail. A cancelled timer also runs
`handle_timer`; it then finds a status other than 1 and returns, and is left out.
`shutdown` and `close` of the asio socket are one step, since no shared field of
ours lies between them.

### SessionProtocol
The abstract specification: what a session may be told and in which order. It
knows one queue and the session, no threads, no counters and no buffers. It is
what the code keeps, so it admits `OnAlive` and `OnError` after `OnClose` (see
finding 3). `NetSocket` implements it
(`KeepsPromise == Promise!Spec`, with `queue <- evq`).

### ThreadPool
`thread_pool.h` from construction on: callers commit, one of them (`Owner`) shuts
down and restarts, workers run `schedual`. A step is one access to `stop`, `tasks`,
the condition variable or a mutex:

| Actions | Code (`src/common/thread_pool.h`) |
|---|---|
| `Commit`, `CommitPush`, `CommitNotify` | `commit`, 147-167, from callers and from inside tasks |
| `Lock`, `Test`, `Block`, `Spurious`, `CheckStop`, `Pop` | `get_one_task`, 171-189 |
| `Loop`, `Execute` | `schedual`, 192-200 |
| `Shutdown`, `ShutdownNotify`, `Join` | `shutdown`, 120-130 |
| `Reopen`, `Spawn` | `restart`, 133-143, after its `shutdown` |

`restart` starts all of `Workers`, one at a time. Whether a shutdown is the first half
of a restart is chosen when it returns, since nothing before depends on it. Tasks
are numbers in the order of `commit`; what they compute and their futures are left
out. The wait's `tasks.empty()` is not under `m_lock_queue`: a race with a concurrent push whose
outcome, the queue before or after the push, is what the interleavings give.

### Executor
The abstract specification of the pool: accepted tasks are taken at most once, in
order; while halted none is taken and none runs. `ThreadPool` implements it with
`running` as the jobs in the workers' hands and `halted` as an empty `pool`.

### NetLinks
What NetSocket takes for granted about its surroundings: the handle pool, the
server that accepts into it, and dialled connections, for several sockets, the logic
thread (`Logic`) and the io threads (`Workers`). A step is a whole handler, because the
interleavings inside one are NetSocket's subject, with two exceptions: `handle_accept`, since
it races `StopServer`, and `LinkDown`, which tests `handles[]`, clears the entry and only then
takes the lock to push the handle, so that two threads may do so for one socket.

| Actions | Code |
|---|---|
| `LinkUp`, `Close`, `Accept` (operators) | SocketMgr.cpp 338-351, Socket.cpp 481-521, 201-249 |
| `LinkDown` (the test, in the step of the handler), `LinkClear`, `LinkPush` | SocketMgr.cpp 360-371 |
| `StartServer`, `StartPost` | Server.cpp 26-64 |
| `AcceptPending`, `AcceptRefused`, `AcceptFailed`, `PostCheck`, `PostLink`, `Leave` | `handle_accept`, `post_accept`, Server.cpp 99-147 |
| `CloseServer`, `StopWaited`, `StopSweep`, `StopDelete` | `CloseServer`, `StopServer`, `CloseAll` |
| `ExecPending`, `ReadEnds`, `CloseLink` | the two ways a connection begins and ends |
| `Connect`, `ConnectFails`, `ConnectOk`, `ConnectError`, `ConnectLate`, `TimerExpires`, `Timeout`, `Retry` | net.cpp 48-64, Socket.cpp 110-187, 251-302 |

`sock[s]` is a socket object, from `new` to its end; `free` and `table` are
`free_handles` and `handles[]`; of the event queue only `EVENT_PENDING` is kept, the one
event that finds its socket by handle. `crashed` is set when the code would go through a
null pointer or index `handles[]` with the invalid handle, and nothing happens after it.
`down[t]` is where thread `t` stands in `LinkDown`, and for which socket. `twice`, `failed`
and, of a socket, `told` and `stray` are history that properties speak about: two threads
passed the test for one socket (from then on a handle may be in the pool twice and two sockets
may share it), accepts that failed, how often the session heard of the present dial, and a
`CloseLink` or a cancelled retry that did not end a dial. `accept` may fail for want of memory
and `connect` before it dials; of the latter only the handle it keeps (`kind` is "lost") is
left. A cancelled retry timer dials again, as `do_connect` does not look at the error.

### RequestPipe and AsyncDatabase
`RequestPipe` is what an asynchronous database promises: until it is closed, every request
whose call returns a response (`wants`) is answered and no other is, in the order of the
requests, each once. `AsyncDatabase` implements it
(`KeepsOrder == Promise!Spec`, `pending` is what is in either queue or in the hand of the
service thread, `closed` that `async_close` is through). `answered` is history:

| Actions | Code (`src/database/database.cpp`) | RequestPipe |
|---|---|---|
| `Start`, `OwnerWait`, `OwnerSpurious`, `OwnerReturn` | `start`, `async_connect`, 128-143, 244-254 | stutter |
| `Post`, `EscapePost` | `async_post`, `async_escape_string`, 268-282, 312-319 | `Submit` |
| `EscapeWait`, `EscapeReturn` | 284-287 | stutter |
| `SvcReconnect`, `SvcNotify`, `SvcTest`, `SvcGet`, `SvcPut` | `svc`, 191-227 | stutter |
| `SvcRun` | the request itself, 213-222 | `Settle` when it gives no response |
| `Poll` | `get_response` from the server loop | `Answer` |
| `Stop`, `Joined` | `async_close`, 146-151, 291-299 | stutter, `Close` |

Both condition variables are modelled as the code uses them: no predicate, no
mutex held while notifying, spurious wake-ups. `m_working` is uninitialised, hence
`working \in BOOLEAN` in `Init`. `put_request` tests nothing: requests come while `stop` joins,
too, and are dropped with the object.

### HandleTable
`auto_handle_pool` (`src/common/auto_handle.h` 150-327). A step is one turn of a loop
of `new_handle`: `New` (entry), `Walk` (on to the next chunk), `ScanTaken` and
`ScanFree` (a slot); `Delete` is `del_handle` and `Exchange` is `exchange`.
`used` (in which round a slot was given out) and `kept` (a handle somebody
keeps) are history. `round` is not cut to 16 bits: the handle keeps fewer bits of it, and their
number divides 2^16.

### TimerSchedule and TimerWheel
`TimerSchedule` knows when each event is due and no wheel. `TimerWheel` is
`src/common/timer.cpp` with `adjust_cycle_next` of `datetime.cpp` and implements it
(`KeepsSchedule == Schedule!Spec`):

| Actions | Code (`src/common/timer.cpp`) | TimerSchedule |
|---|---|---|
| `Insert`, `Remove`, `Pause`, `Resume` | 106-172, 391-427 | `Set` |
| `StepCall`, `StepTick`, `StepReturn` | `step`, 207-251 | stutter, or `Tick` if the tick has no list |
| `ListCall` | `step_list`, 184-189 | `Call` |
| `CallbackReturn` | 189-201, with `insert_once` | `Return` |
| `ListCascade` | 195-201 | stutter |
| `ListDone` | 204 | `Tick` |

The widths of the levels are the constant `Radix`; `step` visits the list of the
lowest non-zero digit of the tick (`Visit`), `insert_once` uses the highest digit that
differs (`Bucket`). A handle of the wheel is its event: that an old handle resolves
to nothing is `HandleTable`. Callbacks call the same four operations. `PeriodAssumption`
restricts the model to periods that are multiples of `TIMER_PRECISION`; the code takes any
number of milliseconds, and with others the properties below are false (finding 11).

### BagTransaction
`XBagTrans` (`src/core/XBag.cpp` 233-573) over the slots of two bags (`XBag.h`), one
action per operation. `Undo` follows what the code does: its reference to the last command
outlives `pop_back`, so its loop compares a command with itself.

## Properties and runs

| Run | Configuration | Checks |
|---|---|---|
| `net_socket` | `MCNetSocket.cfg` | `TypeOK`, `OpCountExact`, `NoDataAfterClose`, `CloseOnce`, `SingleWriter`, `BytesInFlight`, `NotStranded`, and `KeepsPromise` |
| `net_socket_live` | `MCNetSocketLive.cfg` | `CloseReported`, `HandleReleased` under fairness |
| `net_socket_handle_freed` | `MCNetSocketFreed.cfg` | `HandleFreedOnce` is violated |
| `net_socket_stranded` | `MCNetSocketStranded.cfg` | `NotStranded` is violated with two application threads |
| `net_socket_late_event` | `MCNetSocketLate.cfg` | `CloseIsLast` is violated |
| `thread_pool` | `MCThreadPool.cfg` | `TypeOK`, `PopFindsTask`, `KeepsOrder`, `AwakeDrains` under fairness |
| `thread_pool_join` | `MCThreadPoolJoin.cfg` | `ShutdownReturns` is violated |
| `net_links` | `MCNetLinks.cfg` | `TypeOK`, `CountExact`, `AcceptsKept`, `ServerOutlives`, `OpenReachable`, `ReportedOnce`; `CloseServerReturns`, `DialReported` under fairness |
| `async_database` | `MCAsyncDatabase.cfg` | `TypeOK`, `KeepsOrder`; `RequestServed`, `EscapeReturns`, `StartReturns`, `StopReturns` under fairness |
| `handle_table` | `MCHandleTable.cfg` | `TypeOK`, `AllocaExact`, `KeptResolves`; `NewReturns` under fairness |
| `timer_wheel` | `MCTimerWheel.cfg` | `TypeOK`, `Placed`, `CycleKept`, `CalledOnce`, `KeepsSchedule`; `StepReturns` under fairness |
| `bag_transaction` | `MCBagTransaction.cfg` | `RollbackRestores` is violated |

* `OpCountExact`: `operator_count_` equals outstanding operations plus handlers at
  work in every state, so zero means that nobody can touch the socket any more.
* `NoDataAfterClose`, `CloseOnce`: `OnClose` is reported once and no data follows.
* `SingleWriter`, `BytesInFlight`: never two sends in flight, never bytes in the
  buffer that nobody is going to send.
* `NotStranded`: a closed connection with no work left is out of the handle table.
* `CloseReported`, `HandleReleased`: a lost peer or a close ends in `OnClose` and
  in the return of the handle.
* `PopFindsTask`: testing and popping the queue under two mutexes never takes from
  an empty one. `KeepsOrder`: the pool implements `Executor`.
* `AwakeDrains`: while a worker is awake every waiting task gets its turn. It is
  stated for an awake worker because with all of them asleep it is not true: see
  finding 4.

* `CountExact`, `ServerOutlives`, `CloseServerReturns`: `acceptor_count_` covers every
  accept and every handler that may still touch the server, so `StopServer` waits long
  enough, and not for ever. `AcceptsKept`: while the server is up every accept that ends, but a
  failed one, is replaced.
* `OpenReachable`: whichever of timeout, completion and redial comes first, no open connection
  is without its handle. `DialReported`, `ReportedOnce`: the session hears of a dial that is not
  repeated, and once. They name the cases in which the code breaks them (see findings 1, 9
  and 10).
* What `TypeOK`, `ServerOutlives` and `OpenReachable` say of handles holds until two threads
  pass the test of `LinkDown` for one socket (`twice`). After that it does not, which is
  finding 1; the run goes on beyond that point, and the other properties are checked there, too.
* `KeepsOrder` of the database: the implementation of `RequestPipe`. `RequestServed`: while
  the database is open every request is run and its response, if its call returns one, is
  run by the server loop. `EscapeReturns`, `StartReturns`, `StopReturns`: every
  wait ends, for a thread that sleeps before the notification; for one that does not, see
  findings 6 and 7.
* `KeptResolves`: a handle resolves to its object or to nothing, until the rounds
  of a handle have wrapped. `AllocaExact`, `NewReturns`: `new_handle` believes a
  chunk's counter; it is exact, and the search ends.
* `Placed`, `KeepsSchedule`, `CalledOnce`: no event is passed by, called early, or
  called twice at a tick, at the wraps of all levels, whatever callbacks do. `CycleKept`: a
  late event keeps its phase or its day. `StepReturns`: `step` never meets again what it
  called. All of them for periods that are multiples of the precision.
* `RollbackRestores`: a transaction that is neither committed nor logged changed
  nothing. It does not hold: see finding 5.

Deadlock is checked in the `net_socket`, `thread_pool` and `timer_wheel` runs: in `NetSocket`
the only state without a step that is allowed is `Over`, an ended connection. It is not checked
where the system may really stop: a database that was closed (`async_database`), a
table that is full or has given out its handles (`handle_table`), everything
closed, or `crashed` (`net_links`), a transaction that was committed
(`bag_transaction`).

Bounds. `net_socket`: the logic thread as only caller, two workers (symmetric),
`BufCap` 3, `PacketMax` 1, `PartMax` 2, `QBound` 2. Two workers and the logic
thread make three concurrent closers, one more than the two steps that compete
in `close`; a buffer of 3 with parts of up to 2 bytes gives messages that fit,
fill, overflow with the head kept, and partial sends that leave an offset; more
than two waiting events only repeat the same events (`QBound` stops new traffic,
never an event a running thread is about to post). About 4.7 million states.
The inductive invariant of the proofs was also checked with two callers and two
workers (12.4 million states), `StrandInv` with this configuration, and with three workers and
the smallest sizes (4.3 million states).
`net_socket_live`: one caller, one worker, every size 1: the smallest buffer that
blocks and overflows. With two workers it also passes, in about five minutes, and is
not part of the routine. The violation runs use the smallest sizes;
`net_socket_handle_freed` needs two workers, `net_socket_stranded` two callers.
`thread_pool`: two workers compete for the two mutexes, two callers (one the
owner) and the tasks themselves commit; commits stop beginning at three accepted
tasks, which fills the queue beyond the workers. Shutdowns and restarts are
unbounded.
`net_links`: three sockets (dials before the server leave one of them to it) on two handles, so that the pool runs dry and handles
are reused while events wait; one accept, whose replacement takes the second handle, or
two, which peers may use while `StartServer` is still posting; the logic thread and one io
thread, which is enough for two to be in `LinkDown` for one socket; dials with a timeout that are
repeated when they fail, and dials that are repeated when the connection is lost (a dial that
is never repeated adds no states, for `CloseLink` makes such a one of the latter; one without a
timeout never completes, finding 9); one dial outstanding per socket besides the one a late completion
belongs to (`MaxDials`). 747753 states, about two minutes; a second io thread or a fourth socket does not finish in
reasonable time.
`async_database`: two escaping threads, which can wake for each other's requests, and three
requests, so that both queues and the service thread hold one at the same time (9332
states).
`handle_table`: two chunks of two slots and room for a third: chunks fill, wrap, are
skipped when full, and grow; nine handles are two rounds and more over
`Rounds` 2, so the wrap that `KeptResolves` excludes does happen (218806 states).
`timer_wheel`: radix <<2, 2, 3>>, twelve ticks, so that every level cascades and
wraps; two events with periods of one and of three ticks, weekly and
monthly ones; steps of up to six ticks at once. `MaxEntries` 3 lets one event have a second
entry (768212 states).
`bag_transaction`: two bags of two slots for up to two goods each, logs of four commands.

Fairness (`Fairness` in NetSocket): the logic loop returns to `Exec`; a thread
inside a call or a handler keeps running and gets the mutex in the end; asio
fails the operations of a closed socket; a queued completion is picked up by some
worker (`asio_Network` keeps its workers inside `io_service::run`). `RecvPacket`,
calls by the application, and traffic from the peer are not fair. Strong fairness
stands where another thread's progress can disable a step for a while: the mutex,
the queue bound, and the logic thread busy in a call.
In `AsyncDatabase` the service thread, the owner and threads in a call keep running and the
server loop keeps polling (`src/framework/ServerBase.cpp` 150-206); a spurious wake-up,
a post or a close need never come. In `NetLinks` handlers, timers, cancelled accepts
and what the logic thread began go on; a dial need never be answered and a peer never come.
In `HandleTable` and `TimerWheel` the one thread goes on with the call it is in.
All of it is weak.

## What was found

1. `LinkDown` (SocketMgr.cpp 364) tests and clears the table entry without a
   lock, so two threads that leave `close()` together push the same handle twice
   on `free_handles`; two later connections then share a handle. The first of them cannot be
   reached any more, and an `EVENT_PENDING` may find the other's socket.
2. `close()` (Socket.cpp 510) re-reads `operator_count_` after it wrote
   `connect_status_ = 0`. A sender that counts up in between keeps it from
   calling `LinkDown`, and `handle_send` (477) closes only in status 2: the
   closed connection stays in the handle table. It needs a second application
   thread; with the logic thread alone `NotStranded` holds.
3. `handle_timer` (Socket.cpp 548-556) and an overflowing `send` (389, 423) post
   their event without being counted, possibly behind `EVENT_CLOSE`. The sample
   sessions delete themselves in `OnClose` (`sample/chat/chat_gate/CliSession.cpp`
   60) and are then called once more.
4. `shutdown` (thread_pool.h 122) sets `stop` and notifies without holding the
   mutex the workers wait under: a worker between its test and its sleep never
   wakes, and the join hangs. `commit` has the same window, and then a task waits
   for the next commit.
5. `XBagTrans::MoveTo` (XBag.cpp 524-533): of a move that does not fit whole, only the
   source is restored; the goods that did fit are duplicated, with an empty log.
   `README.md` 66 and 174 promise the rollback and safe handles.
6. `start` of the database (database.cpp 140-142) waits without a predicate for a
   notification that may have come; a spurious wake-up returns the uninitialised
   `m_working`, or lets a `stop` be overwritten by the service thread.
7. `async_escape_string` (268-288): the same lost wake-up, and after a spurious one
   the queued lambda writes to a frame that is gone.
8. `get_error_code` and `get_error_info` (369, 378) call themselves.
9. Dials: an asynchronous connect without a timeout never reports (Socket.cpp 256);
   a synchronous one takes success for failure (192); `CloseLink` on a socket that is
   dialling gives its handle away while the dial goes on (504), and a cancelled retry
   dials once more.
10. `LinkUp` fails when all handles are taken, which nobody looks at (`net.cpp` 58);
    a `connect` that fails before it dials (Socket.cpp 115-125) keeps the handle for good;
    an `EVENT_PENDING` whose handle went to a dialled socket is executed through a
    null server (SocketMgr.cpp 249); a failed accept leaves its socket in the table and has no
    successor (Server.cpp 115); `StartServer` counts handlers that are about to end as
    accepts and may post too few (59).
11. Timer: `resume` of a paused event does nothing (timer.cpp 170, 326), its delay
    is taken for an absolute time; a period below the precision makes `step` go on for
    ever (333). A period above it that is no multiple of it gets shorter by being cut to
    ticks, and inserted late it may be cut to the current tick: where the lowest digit of
    the tick is zero the event goes to `time_wheel_[0]` (380), which `step` never visits
    (250 ms at a precision of 100 ms, inserted at tick 8192, is one). It is never called and
    never deleted. The monthly rule assumes 31 days (datetime.cpp 363).
12. Handle table: after 64 rounds a stale handle may resolve to another object
    (auto_handle.h 261).
13. Met while reading, without a run: `WaitForClose` never gives up (SocketMgr.cpp 163);
    `ExecServerRefresh` executes a due entry for ever (ServerRefresh.cpp 109);
    `InitServerSequence` dereferences an id (ServerSequence.cpp 23); the handshake
    tokens of the virtual links never match (pipe_session.cpp 429).

`PROJECT.json` has each of them with the lines on both sides.

## What is proved

`NetBufferProofs`: `put`, `pop` and compacting keep a buffer sound, and
compacting makes as much room as there can be.

`NetSocketProofs`, for any sets of callers and workers, any buffer and packet
sizes and any bounds (assumptions: `ThreadsAssumption`, `SizesAssumption`):

| Theorem | States |
|---|---|
| `OpCountExactHolds` | `Spec => []OpCountExact` |
| `TypeOKHolds` | `Spec => []TypeOK` |
| `SingleWriterHolds` | `Spec => []SingleWriter` |
| `CloseOnceHolds` | `Spec => []CloseOnce` |
| `NoDataAfterCloseHolds` | `Spec => []NoDataAfterClose` |
| `BytesInFlightHolds` | `Spec => []BytesInFlight` |
| `KeepsPromiseHolds` | `Spec => KeepsPromise`, the implementation of `SessionProtocol` |
| `NotStrandedHolds` | `Spec => []NotStranded`, if `Callers = {Main}` |

The argument. `OpCountExact` is not inductive by itself: `AcceptRead` keeps it
only if no read is outstanding yet, `RecvAgain` only if its own handler is the one
whose read completed, `SentPop` only if no send is in flight. `CountInv` adds what
that takes: the types; `EarlyInv` (while `EVENT_PENDING` waits or `accept` runs, the
event is first in the queue and no operation, handler or sender is about); and
`ReadInv`/`WriteInv` (one read at most, outstanding or in a handler; one send at
most, and its bytes are still in the buffer, so a message that finds the buffer
empty finds no send in flight). From `CountInv` follow `OpCountExact`, `TypeOK` (a
sum of naturals is a natural) and `SingleWriter`. `StatusInv` orders the closing
steps of the logic thread before `accept` and keeps the status at 1 during it.
`CloseInv` says that whoever exchanged 2 for 3 is alone until status is 0, and that
once a `CLOSE` was posted the status is 3 or 0 and nobody is about to post
another: this gives `CloseOnce`. `SilentInv` says that once a closer has seen
an operation count of zero in status 2, and from then on, no read is outstanding, in a
handler or about to be started, for only `accept` starts the first one: this gives
`NoDataAfterClose`. The conjunction `SocketInv` is inductive. `BytesInFlight` is
inductive together with `StatusInv`: whoever stops
carrying the bytes has started the next send or goes to `close`, and `accept`, which
writes status 1 again, finds it 1. For `KeepsPromise`, `HeardInv` says that whoever
may post to the session (a read or a timer that is out, a handler, a sender) was
started after `EVENT_ACCEPT` was posted to a session that exists; `CloseInv` and
`SilentInv` give the guards of `PostClose` and `PostData`. Each action has a step
of its own in the proof of each part.

`NotStranded` is proved for the logic thread as the only caller, since with a second one it
is false (finding 2); the number of workers stays arbitrary. The danger is a thread that
leaves `close()` because it reads an operation count that a late `send` has just raised,
in status 0, where no handler closes any more but one whose operation failed. The
invariant `StrandInv` shows that such a send fails:

* `LockInv`, `SockInv`: a worker holds `send_buffer_guard_` from `handle_send` to the end
  of its `close()`, and then finds the status changed; and while the socket is still open,
  the thread that changed the status is about to close it.
* `DropInv`: of the workers in `close()` without the guard at most one came from the
  read. Any other came from a failed send, and that leaves its bytes in the buffer, so
  that no send finds it empty again.
* Together (`NoSender`): while the socket is open and the buffer empty, nobody is beyond the
  second statement of `close()` at a moment when the logic thread could put a message in.
* `LeavingInv`, `ReportInv`: so, until the socket is closed, whoever reports the close reads
  a count of zero afterwards and goes all the way to `LinkDown`.
* `DoomedInv`: hence a send that starts after a thread decided to report the close starts
  on a closed socket. It fails, and its handler calls `close()`.
* `RescueInv`: in status 0 with the handle still in the table somebody is on the way to
  `LinkDown`, or such a send is out. This gives `NotStranded`.

`ThreadPoolProofs`, for any callers, workers and number of tasks (assumption:
`PoolAssumption`):

| Theorem | States |
|---|---|
| `TypeOKHolds` | `Spec => []TypeOK` |
| `PopFindsTaskHolds` | `Spec => []PopFindsTask` |
| `KeepsOrderHolds` | `Spec => KeepsOrder`, the implementation of `Executor` |

The invariant `PoolInv` adds to the types where each thread may stand and that every
worker which has not ended is in `pool` (`PlaceInv`), that a worker between test
and pop holds `m_lock_task`, so the queue it found filled can only grow (`PopInv`),
and that the waiting tasks are the youngest, numbered in order, while jobs in hand
are older and distinct (`OrderInv`). The refinement follows action by action: push is
`Submit`, pop is `Take` (a worker that pops is in the pool, so it is not halted),
the end of a task is `Finish` (no other worker has the same one), the join is `Halt`.

`AsyncDatabaseProofs`, for any set of escaping threads and number of requests
(assumption: `DatabaseAssumption`):

| Theorem | States |
|---|---|
| `TypeOKHolds` | `Spec => []TypeOK` |
| `KeepsOrderHolds` | `Spec => KeepsOrder`, the implementation of `RequestPipe` |

A poll is `Answer` only if the head of the response queue is the smallest request
pending, larger than the last answered, and one that asks for a response (`WantInv`); a
request may leave the pipe otherwise only if it asks for none, or when the database is
closed. The invariant `PipeInv` says so of the whole
pipe: numbers rise within each queue and from `last` over the responses and the
request being served to the requests (`OrderInv`), and the service thread holds a request
exactly while it serves one (`Held`). `TypeOK` follows, for a request in hand is below
all waiting requests and above all responses.

`HandleTableProofs`, for any number of chunks, slots and rounds (assumption:
`TableAssumption`):

| Theorem | States |
|---|---|
| `TypeOKHolds` | `Spec => []TypeOK`, cursors in range where they index |
| `KeptResolvesHolds` | `Spec => []KeptResolves` |
| `AllocaExactHolds` | `Spec => []AllocaExact` |

`KeptResolves` needs that a slot which is given out again gets a later round than its last
one. `LapInv` says why: the search goes once over all slots per round, so what lies
ahead of the cursor was last given out in an earlier round. `CursorInv` says where
the cursors are, `PlaceInv` that an object carries its place and round, and `KeptInv`
that whoever has the slot of a dead object's handle got it in a later round; two
rounds that agree modulo `Rounds` are at least `Rounds` apart (`RoundsDiffer`).

`NetLinksProofs`, for any sets of sockets, io threads and options, any capacity and any numbers of
accepts and dials (assumption: `LinksAssumption`):

| Theorem | States |
|---|---|
| `TypeOKHolds` | `Spec => []TypeOK` |
| `CountExactHolds` | `Spec => []CountExact` |
| `ServerOutlivesHolds` | `Spec => []ServerOutlives` |
| `OpenReachableHolds` | `Spec => []OpenReachable` |
| `AcceptsKeptHolds` | `Spec => AcceptsKept` |
| `ReportedOnceHolds` | `Spec => []ReportedOnce` |

The argument. None of the five invariants is inductive. `LinksInv` has two parts. The first
holds always: `AcceptInv` ties the phases of `StopServer()` to its count (when the
count has come to zero no accept is left, and from then on none comes, `Swept`), which gives
`CountExact`, `AcceptsKept` and the first half of `ServerOutlives`; `LocalInv` says what a
socket's own handlers may still do: a dial that is not repeated was not reported while its
timer waits or its timeout is due, and the completion goes on only if the timer waits, which
gives `ReportedOnce`; `BaseInv` and `EventInv`, that sockets in the table and in
`LinkDown` know their handle and that each server socket has one `EVENT_PENDING` at most.

The second part is conditional, as are the three properties it is for: it holds until two
threads pass the test of `LinkDown()` for one socket (`twice`). The code does not exclude
that (finding 1), so nothing more can be proved of handles without the condition. `PoolInv`
says that a handle is free, once, or in the table, or on its way back with one thread, and a
bijection with the positions of the queue gives `TypeOK`. `GoneInv` says that a socket
whose handle is being put back, or is gone, is closed for good, with no timer and no handler
that could open it, unless `CloseLink()` met it while it dialled or a retry was cancelled;
this gives `OpenReachable`. `PendingInv` follows each `EVENT_PENDING`: until `CloseAll()`
its socket is still open, without a read, and in the table under the event's handle, because
nothing but this event may touch it. `SweepInv` says that a server socket which `CloseAll()`
left in the table has its read outstanding or is leaving. A socket cannot be both, so an event
that is executed after the deletion finds none of the server's: `ServerOutlives`.

Each action has a lemma of its own. Those that move one socket share `Moved`, `CloseStep` or
`DialStep`, those of the accepts `AcceptStep` and `PostStep`; `LinkClearStep` and
`LinkPushStep` carry the handle from the table to the pool.

`TimerWheelProofs`, for any set of events, any number of levels of any size, any steps, and any
cycles whose periods are multiples of the precision (assumptions: `TimerAssumption`,
`PeriodAssumption`):

| Theorem | States |
|---|---|
| `TimerInvariant` | `Spec => []IInv` |
| `TypeOKHolds` | `Spec => []TypeOK` |
| `PlacedHolds` | `Spec => []Placed` |
| `CycleKeptHolds` | `Spec => []CycleKept` |
| `CalledOnceHolds` | `Spec => CalledOnce` |
| `KeepsScheduleHolds` | `Spec => KeepsSchedule`, the implementation of `TimerSchedule` |

The arithmetic comes first. `Span[l]`, the ticks of one bucket of level `l`, divides
`Span[l + 1]`, and a time is the sum of its digits times the spans. From this follow the two
facts about lists that everything else uses: the list in which `insert_once` puts an
event for tick `t` is visited at some tick after the present one and by `t`, and it is never
the list that is being gone through, unless `t` is the present tick.

`Placed` speaks of the moments between two lists. Within one, `IInv` has to say more: which
list is open and how far it has been gone through (`Position`), that no event is overdue and
that one with an entry in the part already gone through has another one in a list yet to
come (`NotPassedBy`), and that whoever was called at this tick is not due at it again
(`CalledNotDue`). `insert`, `remove`, `pause`, `resume`, a cascade and the return of a
callback all set one event and add an entry at most. `Put` states what they have in common,
`PutKeeps` that this keeps the invariant, and one lemma per operation that it is a `Put`.

`CycleKept` rests on the lemmas about `adjust_cycle_next`: for every start, every period that is
a positive multiple of the precision and every set of
days it gives a time after the present one (`AdjustLater`), in phase for a period and on
one of the days for a weekly event. `PeriodAssumption` is a restriction of what is proved and
none of the code: finding 11 says what other periods do. Since `AdjustLater` is false for them,
all of the theorems rest on it. The refinement maps each event to its time, or to nothing when it does
not wait. `ListDone` and a tick without a list are `Tick`, which requires that nothing is
due any more (`NothingDue`): an event that were due at the tick would be in a list visited
by it, and that list has been gone through.

Only model-checked, and why: the liveness properties of all modules (`CloseReported`,
`HandleReleased`, `AwakeDrains`, `CloseServerReturns`, `DialReported`, `RequestServed`,
`EscapeReturns`, `StartReturns`, `StopReturns`, `NewReturns`, `StepReturns`), because fairness
is stated with ENABLED, which the provers do not know. Every safety property that a passing
run checks, and every refinement, is proved. `BagTransaction` has no theorem: the property its run checks is false.

## Not modelled, and why

* The C++ memory model beyond the two atomics: `socket_`, `timer_` and the
  `shared_ptr`s in `handles[]` are accessed by several threads without a lock,
  which is undefined behaviour; the models take each such access as atomic.
* Of the sockets: the synchronous connect (inverted, finding 9), a chain without a single
  byte, which `send` (Socket.cpp 410-445) does not refuse and which would start an
  `async_send` of nothing (`Send` puts one byte at least), what the buffers
  hold across a reconnect (NetSocket ends with the first close, NetLinks has no buffers,
  and their product is beyond TLC), `WaitForClose`, `Final`, and the timers of the socket
  manager, which its header marks as unfinished.
* Virtual links (`net_module`): no handshake completes (finding 13), so no
  state behind it is reachable; a model of it would be a model of another program.
* Id sequence: its initialisation dereferences an integer (finding 13).
* Server frame: the loop is in the fairness of the other modules; the rest is one
  locked vector, one table without concurrency, and wiring.
* Free list, team, object events and tree, other game objects: sequential; object
  events are in the plan.
* Of the timers: yearly events and the calendar. Times are ticks, months have two
  lengths, and rounding of dates held as floating point is left out.
* Pure I/O (MySQL, Redis), operating-system services (logger, console, file watcher),
  format conversions, samples, tests and tools.
* Vendored and generated code: pugixml, minilzo, the headers of protobuf and dbghelp, and
  others. It makes up most of the repository's lines, so the modules cover a small part
  of these although they cover the concurrent core.

## Plan

Written in this order; `P` marks proofs, `R` a refinement.

1. done: `NetBuffer` (P), `SessionProtocol`, `NetSocket` (P, R).
2. done: `Executor`, `ThreadPool` (P, R).
3. done: `NetLinks` (P): handle pool, server, dialled connections.
4. done: `RequestPipe`, `AsyncDatabase` (P, R).
5. done: `TimerSchedule`, `TimerWheel` (P, R).
6. done: `HandleTable` (P).
7. done: `BagTransaction`.
8. done: proofs of every safety property and refinement of the passing runs.
9. `ObjectEvents`: emission with registration and removal from callbacks.
