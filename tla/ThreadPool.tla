----------------------------- MODULE ThreadPool -----------------------------
(***************************************************************************)
(* thread_pool (src/src/common/thread_pool.h): threads that run committed  *)
(* tasks, from the moment the pool is constructed without any of them.     *)
(*                                                                         *)
(* A step is one access to stop, tasks, the condition variable or a mutex. *)
(* The wait of cv_task is as its predicate form is: test under m_lock_task,*)
(* release it and sleep in one step, and test again after a wake-up, which *)
(* may be spurious.  tasks.empty() in that test is not under m_lock_queue: *)
(* it reads the queue before or after a concurrent push.                   *)
(***************************************************************************)
EXTENDS Naturals, Sequences, FiniteSets

CONSTANTS
    Callers,      \* threads that commit tasks
    Owner,        \* the one of them that shuts the pool down and restarts it
    Workers,      \* the threads restart() starts
    Free,         \* nobody holds a mutex
    MaxTasks      \* model bound: no commit begins once so many were accepted

Threads == Callers \cup Workers

ASSUME PoolAssumption ==
    /\ Owner \in Callers
    /\ Workers # {}
    /\ Callers \cap Workers = {}
    /\ Free \notin Threads
    /\ MaxTasks \in Nat

VARIABLES
    stop,       \* stop
    tasks,      \* tasks, numbered in the order of commit
    accepted,   \* how many were pushed so far
    lockTask,   \* holder of m_lock_task
    lockQueue,  \* holder of m_lock_queue
    pool,       \* pool: the threads started and not yet joined
    job,        \* the task each worker took, 0 for none
    pc          \* where each thread stands

vars == <<stop, tasks, accepted, lockTask, lockQueue, pool, job, pc>>

CommitLabels == {"commit_lock", "commit_notify"}
OwnerLabels == {"sd_notify", "join", "reopen", "spawn"}
GuardedLabels == {"test", "block", "check_stop", "pop"}
WorkerLabels == GuardedLabels \cup {"loop", "lock", "asleep", "execute", "ended"}
Labels == {"idle"} \cup CommitLabels \cup OwnerLabels \cup WorkerLabels

Init ==
    /\ stop = FALSE
    /\ tasks = <<>>
    /\ accepted = 0
    /\ lockTask = Free
    /\ lockQueue = Free
    /\ pool = {}
    /\ job = [w \in Workers |-> 0]
    /\ pc = [t \in Threads |-> IF t \in Workers THEN "ended" ELSE "idle"]

Go(t, label) == pc' = [pc EXCEPT ![t] = label]

\* notify_all() while t goes on at label: every sleeper competes for the mutex.
NotifyAll(t, label) ==
    pc' = [u \in Threads |-> IF u = t THEN label
                             ELSE IF pc[u] = "asleep" THEN "lock" ELSE pc[u]]

-----------------------------------------------------------------------------
(* commit(), from any caller and from inside a task.  It throws once stop is *)
(* set, but stop may be set right after it looked.                           *)

Home(t) == IF t \in Workers THEN "execute" ELSE "idle"

Commit(t) ==
    /\ pc[t] = Home(t)
    /\ ~stop
    /\ accepted < MaxTasks
    /\ Go(t, "commit_lock")
    /\ UNCHANGED <<stop, tasks, accepted, lockTask, lockQueue, pool, job>>

CommitPush(t) ==
    /\ pc[t] = "commit_lock"
    /\ lockQueue = Free
    /\ lockQueue' = t
    /\ tasks' = Append(tasks, accepted + 1)
    /\ accepted' = accepted + 1
    /\ Go(t, "commit_notify")
    /\ UNCHANGED <<stop, lockTask, pool, job>>

CommitNotify(t) ==
    /\ pc[t] = "commit_notify"
    /\ lockQueue' = Free
    /\ NotifyAll(t, Home(t))
    /\ UNCHANGED <<stop, tasks, accepted, lockTask, pool, job>>

-----------------------------------------------------------------------------
(* schedual() and get_one_task() of a worker                               *)

Loop(w) ==
    /\ pc[w] = "loop"
    /\ Go(w, IF stop THEN "ended" ELSE "lock")
    /\ UNCHANGED <<stop, tasks, accepted, lockTask, lockQueue, pool, job>>

Lock(w) ==
    /\ pc[w] = "lock"
    /\ lockTask = Free
    /\ lockTask' = w
    /\ Go(w, "test")
    /\ UNCHANGED <<stop, tasks, accepted, lockQueue, pool, job>>

\* Mutant: m_lock_task covers the test only, not the pop.
TestUnlocks(w) ==
    /\ pc[w] = "test"
    /\ IF stop \/ tasks # <<>>
       THEN lockTask' = Free /\ Go(w, "check_stop")
       ELSE lockTask' = lockTask /\ Go(w, "block")
    /\ UNCHANGED <<stop, tasks, accepted, lockQueue, pool, job>>

\* Mutant: wait() without its predicate.
TestSleeps(w) ==
    /\ pc[w] = "test"
    /\ Go(w, "block")
    /\ UNCHANGED <<stop, tasks, accepted, lockTask, lockQueue, pool, job>>

Test(w) ==
    /\ pc[w] = "test"
    /\ Go(w, IF stop \/ tasks # <<>> THEN "check_stop" ELSE "block")
    /\ UNCHANGED <<stop, tasks, accepted, lockTask, lockQueue, pool, job>>

Block(w) ==
    /\ pc[w] = "block"
    /\ lockTask' = Free
    /\ Go(w, "asleep")
    /\ UNCHANGED <<stop, tasks, accepted, lockQueue, pool, job>>

Spurious(w) ==
    /\ pc[w] = "asleep"
    /\ Go(w, "lock")
    /\ UNCHANGED <<stop, tasks, accepted, lockTask, lockQueue, pool, job>>

\* Mutant: the null that get_one_task() returns on stop is executed.
CheckStopNull(w) ==
    /\ pc[w] = "check_stop"
    /\ IF stop
       THEN lockTask' = Free /\ Go(w, "execute")
       ELSE lockTask' = lockTask /\ Go(w, "pop")
    /\ UNCHANGED <<stop, tasks, accepted, lockQueue, pool, job>>

CheckStop(w) ==
    /\ pc[w] = "check_stop"
    /\ IF stop
       THEN lockTask' = Free /\ Go(w, "loop")
       ELSE lockTask' = lockTask /\ Go(w, "pop")
    /\ UNCHANGED <<stop, tasks, accepted, lockQueue, pool, job>>

\* Mutant: back() is executed and front() is dropped.
PopBack(w) ==
    /\ pc[w] = "pop"
    /\ lockQueue = Free
    /\ job' = [job EXCEPT ![w] = tasks[Len(tasks)]]
    /\ tasks' = Tail(tasks)
    /\ lockTask' = Free
    /\ Go(w, "execute")
    /\ UNCHANGED <<stop, accepted, lockQueue, pool>>

Pop(w) ==
    /\ pc[w] = "pop"
    /\ lockQueue = Free
    /\ job' = [job EXCEPT ![w] = Head(tasks)]
    /\ tasks' = Tail(tasks)
    /\ lockTask' = Free
    /\ Go(w, "execute")
    /\ UNCHANGED <<stop, accepted, lockQueue, pool>>

Execute(w) ==
    /\ pc[w] = "execute"
    /\ job' = [job EXCEPT ![w] = 0]
    /\ Go(w, "loop")
    /\ UNCHANGED <<stop, tasks, accepted, lockTask, lockQueue, pool>>

-----------------------------------------------------------------------------
(* shutdown(), also on its own the first half of restart()                 *)

Shutdown ==
    /\ pc[Owner] = "idle"
    /\ stop' = TRUE
    /\ Go(Owner, "sd_notify")
    /\ UNCHANGED <<tasks, accepted, lockTask, lockQueue, pool, job>>

ShutdownNotify ==
    /\ pc[Owner] = "sd_notify"
    /\ NotifyAll(Owner, "join")
    /\ UNCHANGED <<stop, tasks, accepted, lockTask, lockQueue, pool, job>>

Join ==
    /\ pc[Owner] = "join"
    /\ \A w \in pool : pc[w] = "ended"
    /\ pool' = {}
    /\ \E label \in {"idle", "reopen"} : Go(Owner, label)
    /\ UNCHANGED <<stop, tasks, accepted, lockTask, lockQueue, job>>

Reopen ==
    /\ pc[Owner] = "reopen"
    /\ stop' = FALSE
    /\ Go(Owner, "spawn")
    /\ UNCHANGED <<tasks, accepted, lockTask, lockQueue, pool, job>>

Spawn ==
    /\ pc[Owner] = "spawn"
    /\ \E w \in Workers \ pool :
          /\ pool' = pool \cup {w}
          /\ pc' = [pc EXCEPT ![w] = "loop",
                              ![Owner] = IF pool' = Workers THEN "idle" ELSE "spawn"]
    /\ UNCHANGED <<stop, tasks, accepted, lockTask, lockQueue, job>>

-----------------------------------------------------------------------------
CommitStep(t) == CommitPush(t) \/ CommitNotify(t)

GetTask(w) == Lock(w) \/ Test(w) \/ Block(w) \/ CheckStop(w) \/ Pop(w)

Schedual(w) == Loop(w) \/ GetTask(w) \/ Execute(w)

OwnerStep == ShutdownNotify \/ Join \/ Reopen \/ Spawn

Next ==
    \/ \E t \in Threads : Commit(t) \/ CommitStep(t)
    \/ \E w \in Workers : Schedual(w) \/ Spurious(w)
    \/ Shutdown \/ OwnerStep

Spec == Init /\ [][Next]_vars

\* Threads keep running, get a mutex they wait for, and tasks end.  Nobody has
\* to commit or to shut down, and a wake-up out of nothing is not promised.
Fairness ==
    /\ \A t \in Threads : SF_vars(CommitStep(t))
    /\ \A w \in Workers : SF_vars(Schedual(w))
    /\ WF_vars(OwnerStep)

FairSpec == Spec /\ Fairness
-----------------------------------------------------------------------------
(* Properties                                                              *)

Types ==
    /\ stop \in BOOLEAN
    /\ tasks \in Seq(Nat \ {0})
    /\ accepted \in Nat
    /\ lockTask \in Workers \cup {Free}
    /\ lockQueue \in Threads \cup {Free}
    /\ pool \subseteq Workers
    /\ job \in [Workers -> Nat]
    /\ pc \in [Threads -> Labels]

\* Every variable has its type, and a worker holds a task exactly while it
\* executes one: execute() is never called on the null of get_one_task().
TypeOK ==
    /\ Types
    /\ \A w \in Workers : job[w] # 0 <=> pc[w] \in {"execute"} \cup CommitLabels

\* get_one_task() never takes the front of an empty queue, which would be
\* undefined: it tests and pops under two different mutexes, and the queue it
\* found filled is still filled.
PopFindsTask == \A w \in Workers : pc[w] = "pop" => tasks # <<>>

\* The pool keeps the promise of Executor: tasks at most once and in order, and
\* after shutdown() returned nothing runs.
Promise == INSTANCE Executor WITH
    waiting <- tasks,
    running <- {job[w] : w \in Workers} \ {0},
    halted <- pool = {}
KeepsOrder == Promise!Spec

Awake == \E w \in pool : pc[w] \notin {"block", "asleep", "ended"}

\* While one worker is awake, every waiting task gets its turn.
AwakeDrains ==
    \A k \in 1..MaxTasks :
        (Awake /\ \E i \in 1..Len(tasks) : tasks[i] = k)
            ~> (stop \/ \A i \in 1..Len(tasks) : tasks[i] # k)

\* shutdown() wakes the threads and waits until they have ended
\* (thread_pool.h:123,126), so it comes back.
ShutdownReturns == pc[Owner] = "join" ~> pc[Owner] # "join"
=============================================================================
