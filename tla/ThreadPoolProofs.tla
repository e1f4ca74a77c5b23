-------------------------- MODULE ThreadPoolProofs --------------------------
(***************************************************************************)
(* Proofs about ThreadPool, for any number of callers, workers and tasks:  *)
(* it implements Executor.                                                 *)
(***************************************************************************)
EXTENDS ThreadPool, SequenceTheorems, TLAPS

Busy == {"execute"} \cup CommitLabels

\* Who stands where, and which threads the pool holds.
PlaceInv ==
    /\ \A c \in Callers : pc[c] \in {"idle"} \cup CommitLabels \cup OwnerLabels
    /\ \A w \in Workers : pc[w] \in WorkerLabels \cup CommitLabels
    /\ \A w \in Workers : pc[w] # "ended" => w \in pool
    /\ pc[Owner] = "reopen" => pool = {}

\* m_lock_task is held from the test to the pop, so the queue a worker found
\* filled stays filled.
PopInv ==
    \A w \in Workers :
        /\ pc[w] \in GuardedLabels => lockTask = w
        /\ pc[w] = "check_stop" => stop \/ tasks # <<>>
        /\ pc[w] = "pop" => tasks # <<>>

\* The waiting tasks are the youngest, in order; the others were taken once.
Taken == accepted - Len(tasks)

OrderInv ==
    /\ Len(tasks) <= accepted
    /\ \A i \in 1..Len(tasks) : tasks[i] = Taken + i
    /\ \A w \in Workers : job[w] <= Taken
    /\ \A v, w \in Workers : job[v] = job[w] /\ job[v] # 0 => v = w

PoolInv == TypeOK /\ PlaceInv /\ PopInv /\ OrderInv

\* The pool is constructed without threads and tasks.
LEMMA InitPool == Init => PoolInv
<1> SUFFICES ASSUME Init PROVE PoolInv
  OBVIOUS
<1> USE PoolAssumption
    DEF Init, Labels, CommitLabels, OwnerLabels, GuardedLabels, WorkerLabels
<1>1. TypeOK
  <2>1. tasks \in Seq(Nat \ {0})
    BY EmptySeq
  <2>2. pc \in [Threads -> Labels]
    OBVIOUS
  <2>3. \A w \in Workers : job[w] = 0 /\ pc[w] = "ended"
    BY DEF Threads
  <2> QED
    BY <2>1, <2>2, <2>3 DEF TypeOK, Types
<1>2. PlaceInv
  BY DEF PlaceInv, Threads
<1>3. PopInv
  BY DEF PopInv, Threads
<1>4. OrderInv
  BY DEF OrderInv, Taken
<1> QED
  BY <1>1, <1>2, <1>3, <1>4 DEF PoolInv

\* No label of a caller is a label of a worker, but for those of commit().
LEMMA ThreadFacts ==
    /\ Owner \in Callers /\ Owner \in Threads /\ Owner \notin Workers
    /\ Workers \subseteq Threads /\ Callers \subseteq Threads
    /\ \A t \in Threads : Home(t) = IF t \in Workers THEN "execute" ELSE "idle"
BY PoolAssumption DEF Threads, Home

\* Types are kept.
LEMMA TypesStep == TypeOK /\ PlaceInv /\ PopInv /\ [Next]_vars => TypeOK'
<1> SUFFICES ASSUME TypeOK, PlaceInv, PopInv, [Next]_vars PROVE TypeOK'
  OBVIOUS
<1> USE ThreadFacts DEF TypeOK, Types
<1>1. ASSUME NEW t \in Threads, Commit(t) PROVE TypeOK'
  BY <1>1 DEF Commit, Go, CommitLabels, Labels
<1>2. ASSUME NEW t \in Threads, CommitPush(t) PROVE TypeOK'
  BY <1>2 DEF CommitPush, Go, CommitLabels, Labels
<1>3. ASSUME NEW t \in Threads, CommitNotify(t) PROVE TypeOK'
  <2>1. pc' = [u \in Threads |-> IF u = t THEN Home(t)
                                 ELSE IF pc[u] = "asleep" THEN "lock" ELSE pc[u]]
    BY <1>3 DEF CommitNotify, NotifyAll
  <2>2. pc' \in [Threads -> Labels]
    BY <2>1 DEF Labels, WorkerLabels
  <2>3. \A w \in Workers : pc'[w] \in Busy <=> pc[w] \in Busy
    BY <1>3, <2>1 DEF CommitNotify, Busy, CommitLabels
  <2> QED
    BY <1>3, <2>2, <2>3 DEF CommitNotify, Busy
<1>4. ASSUME NEW w \in Workers, Loop(w) PROVE TypeOK'
  BY <1>4 DEF Loop, Go, CommitLabels, Labels, WorkerLabels
<1>5. ASSUME NEW w \in Workers, Lock(w) \/ Test(w) \/ Block(w) \/ CheckStop(w) \/ Spurious(w)
      PROVE TypeOK'
  BY <1>5 DEF Lock, Test, Block, CheckStop, Spurious, Go, CommitLabels, Labels,
              WorkerLabels, GuardedLabels
<1>6. ASSUME NEW w \in Workers, Pop(w) PROVE TypeOK'
  <2>1. tasks # <<>>
    BY <1>6 DEF Pop, PopInv
  <2>2. Head(tasks) \in Nat \ {0} /\ Tail(tasks) \in Seq(Nat \ {0})
    BY <2>1, HeadTailProperties
  <2> QED
    BY <1>6, <2>2 DEF Pop, Go, CommitLabels, Labels, WorkerLabels
<1>7. ASSUME NEW w \in Workers, Execute(w) PROVE TypeOK'
  BY <1>7 DEF Execute, Go, CommitLabels, Labels, WorkerLabels
<1>8. CASE Shutdown \/ Join \/ Reopen
  BY <1>8 DEF Shutdown, Join, Reopen, Go, CommitLabels, Labels, OwnerLabels
<1>9. CASE ShutdownNotify
  <2>1. pc' = [u \in Threads |-> IF u = Owner THEN "join"
                                 ELSE IF pc[u] = "asleep" THEN "lock" ELSE pc[u]]
    BY <1>9 DEF ShutdownNotify, NotifyAll
  <2>2. pc' \in [Threads -> Labels]
    BY <2>1 DEF Labels, WorkerLabels, OwnerLabels
  <2>3. \A w \in Workers : pc'[w] \in Busy <=> pc[w] \in Busy
    BY <2>1 DEF Busy, CommitLabels
  <2> QED
    BY <1>9, <2>2, <2>3 DEF ShutdownNotify, Busy
<1>10. CASE Spawn
  <2>1. PICK w \in Workers \ pool :
           /\ pool' = pool \cup {w}
           /\ pc' = [pc EXCEPT ![w] = "loop",
                               ![Owner] = IF pool' = Workers THEN "idle" ELSE "spawn"]
    BY <1>10 DEF Spawn
  <2>2. pc[w] = "ended"
    BY <2>1 DEF PlaceInv
  <2>3. pc' \in [Threads -> Labels]
    BY <2>1 DEF Labels, WorkerLabels, OwnerLabels
  <2>4. \A v \in Workers : pc'[v] \in Busy <=> pc[v] \in Busy
    BY <2>1, <2>2 DEF Busy, CommitLabels
  <2> QED
    BY <1>10, <2>1, <2>3, <2>4 DEF Spawn, Busy
<1>11. CASE UNCHANGED vars
  BY <1>11 DEF vars
<1> QED
  BY <1>1, <1>2, <1>3, <1>4, <1>5, <1>6, <1>7, <1>8, <1>9, <1>10, <1>11
     DEF Next, CommitStep, Schedual, GetTask, OwnerStep

\* Threads stay where they belong: only the owner starts and joins workers.
LEMMA PlaceStep == TypeOK /\ PlaceInv /\ [Next]_vars => PlaceInv'
<1> SUFFICES ASSUME TypeOK, PlaceInv, [Next]_vars PROVE PlaceInv'
  OBVIOUS
<1> USE ThreadFacts DEF TypeOK, Types, PlaceInv, CommitLabels, OwnerLabels,
                        WorkerLabels, GuardedLabels
<1>1. ASSUME NEW t \in Threads, Commit(t) \/ CommitPush(t) PROVE PlaceInv'
  <2>1. t \in Callers \/ t \in Workers
    BY DEF Threads
  <2>2. PICK l \in CommitLabels : pc' = [pc EXCEPT ![t] = l]
    BY <1>1 DEF Commit, CommitPush, Go
  <2>3. pool' = pool /\ pc[t] # "ended"
    BY <1>1 DEF Commit, CommitPush
  <2> QED
    BY <2>1, <2>2, <2>3
<1>2. ASSUME NEW t \in Threads, CommitNotify(t) PROVE PlaceInv'
  <2>1. pc' = [u \in Threads |-> IF u = t THEN Home(t)
                                 ELSE IF pc[u] = "asleep" THEN "lock" ELSE pc[u]]
    BY <1>2 DEF CommitNotify, NotifyAll
  <2>2. pool' = pool /\ pc[t] = "commit_notify" /\ (t \in Callers => t \notin Workers)
    BY <1>2, PoolAssumption DEF CommitNotify
  <2> QED
    BY <2>1, <2>2
<1>3. ASSUME NEW w \in Workers, Schedual(w) \/ Spurious(w) PROVE PlaceInv'
  <2>1. PICK l \in WorkerLabels : pc' = [pc EXCEPT ![w] = l]
    BY <1>3 DEF Schedual, GetTask, Spurious, Loop, Lock, Test, Block, CheckStop,
                Pop, Execute, Go
  <2>2. pool' = pool /\ pc[w] # "ended"
    BY <1>3 DEF Schedual, GetTask, Spurious, Loop, Lock, Test, Block, CheckStop,
                Pop, Execute
  <2>3. w \notin Callers
    BY PoolAssumption
  <2> QED
    BY <2>1, <2>2, <2>3
<1>4. CASE Shutdown \/ Reopen
  BY <1>4 DEF Shutdown, Reopen, Go
<1>5. CASE ShutdownNotify
  <2>1. pc' = [u \in Threads |-> IF u = Owner THEN "join"
                                 ELSE IF pc[u] = "asleep" THEN "lock" ELSE pc[u]]
    BY <1>5 DEF ShutdownNotify, NotifyAll
  <2>2. pool' = pool
    BY <1>5 DEF ShutdownNotify
  <2> QED
    BY <2>1, <2>2
<1>6. CASE Join
  BY <1>6 DEF Join, Go
<1>7. CASE Spawn
  <2>1. PICK w \in Workers \ pool :
           /\ pool' = pool \cup {w}
           /\ pc' = [pc EXCEPT ![w] = "loop",
                               ![Owner] = IF pool' = Workers THEN "idle" ELSE "spawn"]
    BY <1>7 DEF Spawn
  <2>2. w \notin Callers
    BY PoolAssumption
  <2> QED
    BY <2>1, <2>2
<1>8. CASE UNCHANGED vars
  BY <1>8 DEF vars
<1> QED
  BY <1>1, <1>2, <1>3, <1>4, <1>5, <1>6, <1>7, <1>8 DEF Next, CommitStep, OwnerStep

\* While a worker stands between test and pop, m_lock_task keeps every other
\* worker from popping; commit() only adds.
LEMMA PopStep == TypeOK /\ PlaceInv /\ PopInv /\ [Next]_vars => PopInv'
<1> SUFFICES ASSUME TypeOK, PlaceInv, PopInv, [Next]_vars PROVE PopInv'
  OBVIOUS
<1> USE ThreadFacts DEF TypeOK, Types, PopInv, GuardedLabels
<1>1. ASSUME NEW t \in Threads, Commit(t) PROVE PopInv'
  BY <1>1 DEF Commit, Go
<1>2. ASSUME NEW t \in Threads, CommitPush(t) PROVE PopInv'
  <2>1. tasks' # <<>>
    BY <1>2 DEF CommitPush
  <2> QED
    BY <1>2, <2>1 DEF CommitPush, Go
<1>3. ASSUME NEW t \in Threads, CommitNotify(t) PROVE PopInv'
  <2>1. pc' = [u \in Threads |-> IF u = t THEN Home(t)
                                 ELSE IF pc[u] = "asleep" THEN "lock" ELSE pc[u]]
    BY <1>3 DEF CommitNotify, NotifyAll
  <2> QED
    BY <1>3, <2>1 DEF CommitNotify
<1>4. ASSUME NEW w \in Workers, Loop(w) \/ Execute(w) \/ Spurious(w) PROVE PopInv'
  BY <1>4 DEF Loop, Execute, Spurious, Go
<1>5. ASSUME NEW w \in Workers, Lock(w) PROVE PopInv'
  <2>1. Free \notin Workers
    BY PoolAssumption DEF Threads
  <2> QED
    BY <1>5, <2>1 DEF Lock, Go
<1>6. ASSUME NEW w \in Workers, Test(w) \/ Block(w) \/ CheckStop(w) PROVE PopInv'
  BY <1>6 DEF Test, Block, CheckStop, Go
<1>7. ASSUME NEW w \in Workers, Pop(w) PROVE PopInv'
  <2>1. \A v \in Workers : v # w => pc[v] \notin GuardedLabels
    BY <1>7 DEF Pop
  <2> QED
    BY <1>7, <2>1 DEF Pop, Go
<1>8. CASE Shutdown \/ Join
  BY <1>8 DEF Shutdown, Join, Go
<1>9. CASE ShutdownNotify
  <2>1. pc' = [u \in Threads |-> IF u = Owner THEN "join"
                                 ELSE IF pc[u] = "asleep" THEN "lock" ELSE pc[u]]
    BY <1>9 DEF ShutdownNotify, NotifyAll
  <2> QED
    BY <1>9, <2>1 DEF ShutdownNotify
<1>10. CASE Reopen
  <2>1. \A w \in Workers : pc[w] = "ended"
    BY <1>10 DEF Reopen, PlaceInv
  <2> QED
    BY <1>10, <2>1 DEF Reopen, Go
<1>11. CASE Spawn
  BY <1>11 DEF Spawn
<1>12. CASE UNCHANGED vars
  BY <1>12 DEF vars
<1> QED
  BY <1>1, <1>2, <1>3, <1>4, <1>5, <1>6, <1>7, <1>8, <1>9, <1>10, <1>11, <1>12
     DEF Next, CommitStep, Schedual, GetTask, OwnerStep

\* commit() appends the next number; the one that is popped is the oldest, and
\* older than all that wait.
LEMMA OrderStep == TypeOK /\ PopInv /\ OrderInv /\ [Next]_vars => OrderInv'
<1> SUFFICES ASSUME TypeOK, PopInv, OrderInv, [Next]_vars PROVE OrderInv'
  OBVIOUS
<1> USE DEF TypeOK, Types, OrderInv, Taken
<1>1. ASSUME NEW t \in Threads, CommitPush(t) PROVE OrderInv'
  <2>1. tasks' = Append(tasks, accepted + 1) /\ accepted' = accepted + 1 /\ job' = job
    BY <1>1 DEF CommitPush
  <2>2. Len(tasks') = Len(tasks) + 1 /\ Taken' = Taken
    BY <2>1
  <2>3. ASSUME NEW i \in 1..Len(tasks') PROVE tasks'[i] = Taken' + i
    BY <2>1, <2>2
  <2> QED
    BY <2>1, <2>2, <2>3
<1>2. ASSUME NEW w \in Workers, Pop(w) PROVE OrderInv'
  <2>1. tasks # <<>>
    BY <1>2 DEF Pop, PopInv
  <2>2. /\ tasks' = Tail(tasks) /\ accepted' = accepted
        /\ job' = [job EXCEPT ![w] = Head(tasks)]
    BY <1>2 DEF Pop
  <2>3. /\ Len(tasks) \in Nat \ {0}
        /\ Head(tasks) = tasks[1]
        /\ Len(Tail(tasks)) = Len(tasks) - 1
        /\ \A i \in 1..Len(Tail(tasks)) : Tail(tasks)[i] = tasks[i + 1]
    BY <2>1
  <2>4. Taken' = Taken + 1 /\ Head(tasks) = Taken + 1
    BY <2>2, <2>3
  <2>5. \A i \in 1..Len(tasks') : tasks'[i] = Taken' + i
    <3> SUFFICES ASSUME NEW i \in 1..Len(tasks') PROVE tasks'[i] = Taken' + i
      OBVIOUS
    <3>1. i \in 1..Len(tasks) - 1 /\ i + 1 \in 1..Len(tasks)
      BY <2>2, <2>3
    <3> QED
      BY <2>2, <2>3, <2>4, <3>1
  <2>6. Len(tasks') <= accepted'
    BY <2>2, <2>3
  <2>7. \A v \in Workers : job'[v] <= Taken'
    BY <2>2, <2>3, <2>4
  <2>8. \A u, v \in Workers : job'[u] = job'[v] /\ job'[u] # 0 => u = v
    BY <2>2, <2>3, <2>4
  <2> QED
    BY <2>5, <2>6, <2>7, <2>8
<1>3. ASSUME NEW w \in Workers, Execute(w) PROVE OrderInv'
  <2>1. /\ tasks' = tasks /\ accepted' = accepted
        /\ job' = [job EXCEPT ![w] = 0]
    BY <1>3 DEF Execute
  <2> QED
    BY <2>1
<1>4. CASE UNCHANGED <<tasks, accepted, job>>
  BY <1>4
<1> QED
  BY <1>1, <1>2, <1>3, <1>4
     DEF Next, CommitStep, Schedual, GetTask, OwnerStep, Commit, CommitNotify, Loop,
         Lock, Test, Block, CheckStop, Spurious, Shutdown, ShutdownNotify, Join,
         Reopen, Spawn, vars

\* PoolInv is inductive.
LEMMA PoolInvariant == Spec => []PoolInv
<1>1. Init => PoolInv
  BY InitPool
<1>2. PoolInv /\ [Next]_vars => PoolInv'
  BY TypesStep, PlaceStep, PopStep, OrderStep DEF PoolInv
<1> QED
  BY <1>1, <1>2, PTL DEF Spec

\* execute() is never called on null, in a pool of any size.
THEOREM TypeOKHolds == Spec => []TypeOK
BY PoolInvariant, PTL DEF PoolInv

\* get_one_task() finds what it tested for.
THEOREM PopFindsTaskHolds == Spec => []PopFindsTask
<1>1. PoolInv => PopFindsTask
  BY DEF PoolInv, PopInv, PopFindsTask
<1> QED
  BY <1>1, PoolInvariant, PTL

-----------------------------------------------------------------------------
(* ThreadPool implements Executor                                          *)

\* Steps that touch neither the queue nor a task nor the pool are not seen.
LEMMA Unseen ==
    ASSUME UNCHANGED <<accepted, tasks, job, pool>>
    PROVE  UNCHANGED Promise!vars
BY DEF Promise!vars

\* commit() is Submit.
LEMMA PushSubmits ==
    ASSUME NEW t \in Threads, CommitPush(t)
    PROVE  Promise!Submit
BY DEF CommitPush, Promise!Submit

\* get_one_task() is Take: the pool holds the worker, so it is not halted.
LEMMA PopTakes ==
    ASSUME PoolInv, NEW w \in Workers, Pop(w)
    PROVE  Promise!Take
<1>1. /\ job \in [Workers -> Nat] /\ pc[w] = "pop" /\ job[w] = 0
  BY DEF PoolInv, TypeOK, Types, Pop, CommitLabels
<1>2. tasks # <<>> /\ pool # {}
  BY <1>1 DEF PoolInv, PopInv, PlaceInv
<1>3. Head(tasks) # 0 /\ tasks' = Tail(tasks) /\ UNCHANGED <<accepted, pool>>
  BY <1>2, HeadTailProperties DEF PoolInv, TypeOK, Types, Pop
<1>4. job' = [job EXCEPT ![w] = Head(tasks)]
  BY DEF Pop
<1>5. {job'[v] : v \in Workers} \ {0} = ({job[v] : v \in Workers} \ {0}) \cup {Head(tasks)}
  BY <1>1, <1>3, <1>4
<1> QED
  BY <1>2, <1>3, <1>5 DEF Promise!Take

\* The end of a task is Finish: no other worker has the same one.
LEMMA ExecuteFinishes ==
    ASSUME PoolInv, NEW w \in Workers, Execute(w)
    PROVE  Promise!Finish
<1>1. /\ job \in [Workers -> Nat] /\ pc[w] = "execute" /\ job[w] # 0
  BY DEF PoolInv, TypeOK, Types, Execute
<1>2. \A v \in Workers : job[v] = job[w] => v = w
  BY <1>1 DEF PoolInv, OrderInv
<1>3. job' = [job EXCEPT ![w] = 0] /\ UNCHANGED <<accepted, tasks, pool>>
  BY DEF Execute
<1>4. {job'[v] : v \in Workers} \ {0} = ({job[v] : v \in Workers} \ {0}) \ {job[w]}
  BY <1>1, <1>2, <1>3
<1>5. job[w] \in {job[v] : v \in Workers} \ {0}
  BY <1>1
<1> QED
  BY <1>3, <1>4, <1>5 DEF Promise!Finish

\* Joining the threads is Halt: they have ended, and so they run nothing.
LEMMA JoinHalts ==
    ASSUME PoolInv, Join
    PROVE  Promise!Halt
<1>1. \A w \in Workers : pc[w] = "ended"
  BY DEF PoolInv, PlaceInv, Join
<1>2. \A w \in Workers : job[w] = 0
  BY <1>1 DEF PoolInv, TypeOK, CommitLabels
<1>3. {job[w] : w \in Workers} \ {0} = {}
  BY <1>2
<1> QED
  BY <1>3 DEF Join, Promise!Halt

\* Starting a thread is Resume.
LEMMA SpawnResumes ==
    ASSUME Spawn
    PROVE  Promise!Resume
BY DEF Spawn, Promise!Resume

\* Every step is a step of Executor or is not seen there.
LEMMA StepMaps == PoolInv /\ [Next]_vars => [Promise!Next]_(Promise!vars)
<1> SUFFICES ASSUME PoolInv, [Next]_vars PROVE [Promise!Next]_(Promise!vars)
  OBVIOUS
<1>1. ASSUME NEW t \in Threads, CommitPush(t) PROVE Promise!Next
  BY <1>1, PushSubmits DEF Promise!Next
<1>2. ASSUME NEW w \in Workers, Pop(w) \/ Execute(w) PROVE Promise!Next
  BY <1>2, PopTakes, ExecuteFinishes DEF Promise!Next
<1>3. CASE Join \/ Spawn
  BY <1>3, JoinHalts, SpawnResumes DEF Promise!Next
<1>4. CASE UNCHANGED <<accepted, tasks, job, pool>>
  BY <1>4, Unseen
<1> QED
  BY <1>1, <1>2, <1>3, <1>4
     DEF Next, CommitStep, Schedual, GetTask, OwnerStep, Commit, CommitNotify, Loop,
         Lock, Test, Block, CheckStop, Spurious, Shutdown, ShutdownNotify, Reopen, vars

\* A pool of any size runs every task at most once, takes them in the order of
\* commit(), and runs none while it is shut down.
THEOREM KeepsOrderHolds == Spec => KeepsOrder
<1>1. Init => Promise!Init
  BY DEF Init, Promise!Init
<1>2. PoolInv /\ [Next]_vars => [Promise!Next]_(Promise!vars)
  BY StepMaps
<1> QED
  BY <1>1, <1>2, PoolInvariant, PTL DEF Spec, KeepsOrder, Promise!Spec
=============================================================================
