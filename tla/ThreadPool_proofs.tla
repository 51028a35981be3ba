--------------------------- MODULE ThreadPool_proofs ---------------------------
(***************************************************************************)
(* The thread pool for any number of threads and tasks: its counter never  *)
(* falls below the threads that are counted idle, no task runs twice, and  *)
(* none is left when the destructor returns.                               *)
(***************************************************************************)
EXTENDS ThreadPool, FiniteSetTheorems, SequenceTheorems, TLAPS

(* The threads that wrapper() has counted in and not yet counted out. One  *)
(* that leaves from the wait stays counted.                                *)
Idle == {w \in Workers : pc[w] \in {"lock", "test", "block", "asleep", "take", "pop", "start"}}

(* How many tasks have left the queue.                                     *)
Popped == pushed - Len(tasks)

IdleCounted == Cardinality(Idle) <= counter

(* The mutex is held exactly by the worker between lock and unlock.        *)
MutexHeld == \A w \in Workers : pc[w] \in {"test", "block", "take", "pop"} <=> mutex = w

(* The queue holds the last tasks pushed, in order, and the worker that has*)
(* looked at the front will remove what it looked at.                      *)
QueueInOrder ==
  /\ Len(tasks) <= pushed
  /\ \A i \in 1..Len(tasks) : tasks[i] = Popped + i
  /\ \A w \in Workers : pc[w] = "pop" => tasks # <<>> /\ task[w] = Popped + 1

(* A task that left the queue has run once, or one worker is about to run  *)
(* it; a task in the queue has not run.                                    *)
StartsOwn(w) == pc[w] = "start" => task[w] \in 1..Popped /\ runs[task[w]] = 0
RunsCounted ==
  /\ \A w \in Workers : StartsOwn(w)
  /\ \A v, w \in Workers : pc[v] = "start" /\ pc[w] = "start" /\ task[v] = task[w] => v = w
  /\ \A n \in TaskId : runs[n] <= 1 /\ (n > Popped => runs[n] = 0)
  /\ \A n \in 1..Popped : runs[n] = 1 \/ \E w \in Workers : pc[w] = "start" /\ task[w] = n

(* The last worker to end left nothing in the queue, and only tasks that   *)
(* run and an owner that has not begun the destructor commit.              *)
Leaving ==
  /\ exit <=> opc # "up"
  /\ exit => commit[Owner] = "none"
  /\ \A w \in Workers : commit[w] # "none" => pc[w] = "running"
  /\ \A w \in Workers : pc[w] = "ended" => exit
  /\ (\A w \in Workers : pc[w] = "ended") => tasks = <<>>
  /\ opc = "gone" => \A w \in Workers : pc[w] = "ended"

PoolInv == TypeOK /\ IdleCounted /\ MutexHeld /\ QueueInOrder /\ RunsCounted /\ Leaving
(* A step of a worker, of the spurious wake-ups, of commit, of the owner.  *)
Step == \/ \E w \in Workers : Worker(w) \/ SpuriousWakeUp(w)
        \/ \E t \in Threads : CommitTest(t) \/ Committing(t)
        \/ Destroy \/ Destructor
------------------------------------------------------------------------------
(* The queue when a task is pushed and when the front is taken.            *)
LEMMA PushKeepsOrder ==
  ASSUME PoolInv, NEW t \in Threads, CommitPush(t)
  PROVE  /\ tasks' \in Seq(TaskId) /\ Len(tasks') = Len(tasks) + 1 /\ pushed' = pushed + 1
         /\ Popped' = Popped /\ QueueInOrder'
<1>1. /\ tasks \in Seq(TaskId) /\ pushed \in Nat /\ pushed < MaxTasks /\ MaxTasks \in Nat
      /\ tasks' = Append(tasks, pushed + 1) /\ pushed' = pushed + 1 /\ pushed + 1 \in TaskId
  BY BoundsAssumption DEF CommitPush, PoolInv, TypeOK, TaskId
<1>2. /\ tasks' \in Seq(TaskId) /\ Len(tasks') = Len(tasks) + 1 /\ Len(tasks) \in Nat
      /\ \A i \in 1..Len(tasks) : tasks'[i] = tasks[i]
      /\ tasks'[Len(tasks) + 1] = pushed + 1
  BY <1>1, AppendProperties, LenProperties
<1>3. Popped' = Popped
  BY <1>1, <1>2 DEF Popped
<1>4. \A w \in Workers : pc'[w] # "pop"
  BY OwnerAssumption DEF CommitPush, PoolInv, MutexHeld
<1>5. \A i \in 1..Len(tasks') : tasks'[i] = Popped' + i
  <2>1. \A i \in 1..Len(tasks) : tasks[i] = Popped + i
    BY DEF PoolInv, QueueInOrder
  <2> QED BY <1>1, <1>2, <1>3, <2>1 DEF Popped
<1>6. Len(tasks') <= pushed'
  BY <1>1, <1>2 DEF PoolInv, QueueInOrder
<1> QED BY <1>1, <1>2, <1>3, <1>4, <1>5, <1>6 DEF QueueInOrder

LEMMA PopKeepsOrder ==
  ASSUME PoolInv, NEW w \in Workers, Pop(w)
  PROVE  /\ tasks' \in Seq(TaskId) /\ Len(tasks') = Len(tasks) - 1 /\ tasks # <<>>
         /\ task[w] = Popped + 1 /\ Popped' = Popped + 1 /\ QueueInOrder'
<1>1. /\ tasks \in Seq(TaskId) /\ pushed \in Nat /\ tasks # <<>> /\ task[w] = Popped + 1
      /\ tasks' = Tail(tasks) /\ pushed' = pushed /\ mutex = w /\ UNCHANGED task
      /\ pc' = [pc EXCEPT ![w] = "start"] /\ pc \in [Workers -> WorkerPC]
  BY DEF Pop, Goto, history, PoolInv, TypeOK, MutexHeld, QueueInOrder
<1>2. /\ tasks' \in Seq(TaskId) /\ Len(tasks') = Len(tasks) - 1 /\ Len(tasks) \in Nat
      /\ \A i \in 1..Len(tasks') : tasks'[i] = tasks[i + 1]
  BY <1>1, HeadTailProperties, LenProperties
<1>3. Popped' = Popped + 1
  BY <1>1, <1>2 DEF Popped
<1>4. \A v \in Workers : pc'[v] # "pop"
  BY <1>1 DEF PoolInv, MutexHeld
<1>5. \A i \in 1..Len(tasks') : tasks'[i] = Popped' + i
  <2>1. \A i \in 1..Len(tasks) : tasks[i] = Popped + i
    BY DEF PoolInv, QueueInOrder
  <2> QED BY <1>1, <1>2, <1>3, <2>1 DEF Popped
<1>6. Len(tasks') <= pushed'
  BY <1>1, <1>2 DEF PoolInv, QueueInOrder
<1> QED BY <1>1, <1>2, <1>3, <1>4, <1>5, <1>6 DEF QueueInOrder

(* A worker that looks at the front will remove task Popped + 1.           *)
LEMMA FrontIsNext ==
  ASSUME PoolInv, tasks # <<>>
  PROVE  Head(tasks) = Popped + 1 /\ Head(tasks) \in TaskId
<1>1. tasks \in Seq(TaskId) /\ 1 \in 1..Len(tasks)
  BY EmptySeq DEF PoolInv, TypeOK
<1>2. Head(tasks) = tasks[1] /\ tasks[1] \in TaskId
  BY <1>1, ElementOfSeq
<1> QED BY <1>1, <1>2 DEF PoolInv, QueueInOrder
------------------------------------------------------------------------------
LEMMA HeldStep ==
  ASSUME PoolInv, Step
  PROVE  MutexHeld'
<1> USE DEF Goto
<1>1. /\ pc \in [Workers -> WorkerPC] /\ None \notin Workers /\ MutexHeld
  BY OwnerAssumption DEF PoolInv, TypeOK
<1>2. ASSUME NEW w \in Workers, Worker(w) \/ SpuriousWakeUp(w) PROVE MutexHeld'
  <2>1. CASE Loop(w) \/ Start(w) \/ Finish(w) \/ SpuriousWakeUp(w)
    BY <1>1, <2>1 DEF Loop, Start, Finish, SpuriousWakeUp, MutexHeld
  <2>2. CASE Lock(w)
    BY <1>1, <2>2 DEF Lock, MutexHeld
  <2>3. CASE Test(w)
    BY <1>1, <2>3 DEF Test, MutexHeld
  <2>4. CASE Block(w)
    BY <1>1, <2>4 DEF Block, MutexHeld
  <2>5. CASE Take(w)
    BY <1>1, <2>5 DEF Take, MutexHeld
  <2>6. CASE Pop(w)
    BY <1>1, <2>6 DEF Pop, MutexHeld
  <2> QED BY <1>2, <2>1, <2>2, <2>3, <2>4, <2>5, <2>6 DEF Worker
<1>3. ASSUME NEW t \in Threads, CommitTest(t) \/ Committing(t) PROVE MutexHeld'
  <2>1. CASE CommitNotify(t)
    BY <1>1, <2>1 DEF CommitNotify, MutexHeld
  <2>2. CASE CommitTest(t) \/ CommitPush(t) \/ CommitBound(t)
    BY <1>1, <2>2 DEF CommitTest, CommitPush, CommitBound, MutexHeld
  <2> QED BY <1>3, <2>1, <2>2 DEF Committing
<1>4. CASE Destroy \/ Destructor
  BY <1>1, <1>4 DEF Destroy, Destructor, NotifyAll, Join, MutexHeld
<1> QED BY <1>2, <1>3, <1>4 DEF Step
LEMMA OrderStep ==
  ASSUME PoolInv, Step
  PROVE  QueueInOrder'
<1> USE DEF Goto
<1>1. pc \in [Workers -> WorkerPC] /\ task \in [Workers -> TaskId \cup {0}] /\ QueueInOrder
  BY DEF PoolInv, TypeOK
<1>2. ASSUME NEW w \in Workers, Worker(w) \/ SpuriousWakeUp(w) PROVE QueueInOrder'
  <2>1. CASE Loop(w) \/ Lock(w) \/ Test(w) \/ Block(w) \/ Start(w) \/ Finish(w) \/ SpuriousWakeUp(w)
    <3>1. UNCHANGED <<tasks, pushed, task>> /\ \A v \in Workers : pc'[v] = "pop" => pc[v] = "pop"
      BY <1>1, <2>1 DEF Loop, Lock, Test, Block, Start, Finish, SpuriousWakeUp, history
    <3> QED BY <1>1, <3>1 DEF QueueInOrder, Popped
  <2>2. CASE Take(w) /\ pc' = [pc EXCEPT ![w] = "ended"] /\ UNCHANGED task
    <3>1. UNCHANGED <<tasks, pushed, task>> /\ \A v \in Workers : pc'[v] = "pop" => pc[v] = "pop"
      BY <1>1, <2>2 DEF Take, history
    <3> QED BY <1>1, <3>1 DEF QueueInOrder, Popped
  <2>3. CASE Take(w) /\ pc' = [pc EXCEPT ![w] = "pop"] /\ tasks # <<>> /\ task' = [task EXCEPT ![w] = Head(tasks)]
    <3>1. UNCHANGED <<tasks, pushed>> /\ task'[w] = Popped + 1
      BY <1>1, <2>3, FrontIsNext DEF Take, history
    <3>2. \A v \in Workers : v # w => task'[v] = task[v] /\ pc'[v] = pc[v]
      BY <1>1, <2>3
    <3> QED BY <1>1, <2>3, <3>1, <3>2 DEF QueueInOrder, Popped
  <2>4. CASE Pop(w)
    BY <2>4, PopKeepsOrder
  <2>5. Take(w) => \/ pc' = [pc EXCEPT ![w] = "ended"] /\ UNCHANGED task
                   \/ /\ pc' = [pc EXCEPT ![w] = "pop"] /\ tasks # <<>>
                      /\ task' = [task EXCEPT ![w] = Head(tasks)]
    BY DEF Take
  <2> QED BY <1>2, <2>1, <2>2, <2>3, <2>4, <2>5 DEF Worker
<1>3. ASSUME NEW t \in Threads, CommitTest(t) \/ Committing(t) PROVE QueueInOrder'
  <2>1. CASE CommitPush(t)
    BY <2>1, PushKeepsOrder
  <2>2. CASE CommitTest(t) \/ CommitNotify(t) \/ CommitBound(t)
    <3>1. UNCHANGED <<tasks, pushed, task>> /\ \A v \in Workers : pc'[v] = "pop" => pc[v] = "pop"
      BY <1>1, <2>2 DEF CommitTest, CommitNotify, CommitBound, history
    <3> QED BY <1>1, <3>1 DEF QueueInOrder, Popped
  <2> QED BY <1>3, <2>1, <2>2 DEF Committing
<1>4. CASE Destroy \/ Destructor
  <2>1. UNCHANGED <<tasks, pushed, task>> /\ \A v \in Workers : pc'[v] = "pop" => pc[v] = "pop"
    BY <1>1, <1>4 DEF Destroy, Destructor, NotifyAll, Join, history
  <2> QED BY <1>1, <2>1 DEF QueueInOrder, Popped
<1> QED BY <1>2, <1>3, <1>4 DEF Step

(* Only the worker that takes a task out of the queue, and the one that    *)
(* starts it, change what has run.                                         *)
LEMMA RunsSame ==
  ASSUME PoolInv, Popped' = Popped, UNCHANGED <<task, runs>>,
         \A w \in Workers : pc'[w] = "start" <=> pc[w] = "start"
  PROVE  RunsCounted'
BY DEF PoolInv, RunsCounted, StartsOwn

LEMMA RunsStep ==
  ASSUME PoolInv, Step
  PROVE  RunsCounted'
<1> USE DEF Goto
<1>1. /\ pc \in [Workers -> WorkerPC] /\ task \in [Workers -> TaskId \cup {0}]
      /\ runs \in [TaskId -> Nat] /\ RunsCounted /\ TaskId = 1..MaxTasks /\ MaxTasks \in Nat
      /\ pushed \in 0..MaxTasks /\ Len(tasks) \in Nat /\ Len(tasks) <= pushed
  BY BoundsAssumption, LenProperties DEF PoolInv, TypeOK, TaskId, QueueInOrder
<1>2. ASSUME NEW w \in Workers, Worker(w) \/ SpuriousWakeUp(w) PROVE RunsCounted'
  <2>1. CASE Loop(w) \/ Lock(w) \/ Test(w) \/ Block(w) \/ Finish(w) \/ SpuriousWakeUp(w)
    <3>1. /\ UNCHANGED <<tasks, pushed, task, runs>>
          /\ \A v \in Workers : pc'[v] = "start" <=> pc[v] = "start"
      BY <1>1, <2>1 DEF Loop, Lock, Test, Block, Finish, SpuriousWakeUp, history
    <3> QED BY <3>1, RunsSame DEF Popped
  <2>2. CASE Take(w)
    <3>1. /\ UNCHANGED <<tasks, pushed, runs>>
          /\ \A v \in Workers : pc'[v] = "start" <=> pc[v] = "start"
      BY <1>1, <2>2 DEF Take, history
    <3>2. \A v \in Workers : pc[v] = "start" => task'[v] = task[v]
      BY <1>1, <2>2 DEF Take
    <3>3. Popped' = Popped
      BY <3>1 DEF Popped
    <3> QED BY <1>1, <3>1, <3>2, <3>3 DEF RunsCounted, StartsOwn
  <2>3. CASE Pop(w)
    <3>1. /\ task[w] = Popped + 1 /\ Popped' = Popped + 1 /\ Popped + 1 \in TaskId
          /\ UNCHANGED <<task, runs>> /\ pc' = [pc EXCEPT ![w] = "start"]
      <4>1. tasks # <<>> /\ tasks \in Seq(TaskId)
        BY <2>3, PopKeepsOrder DEF PoolInv, TypeOK
      <4> QED BY <2>3, <4>1, PopKeepsOrder, FrontIsNext DEF Pop, history
    <3>2. Popped \in Nat
      BY <1>1 DEF Popped
    <3>3. runs[Popped + 1] = 0
      BY <1>1, <3>1, <3>2 DEF RunsCounted
    <3>4. \A v \in Workers : StartsOwn(v)'
      <4>1. ASSUME NEW v \in Workers, pc'[v] = "start"
            PROVE  task'[v] \in 1..Popped' /\ runs'[task'[v]] = 0
        <5>1. CASE v = w
          BY <3>1, <3>2, <3>3, <5>1
        <5>2. CASE v # w
          BY <1>1, <3>1, <3>2, <4>1, <5>2 DEF RunsCounted, StartsOwn
        <5> QED BY <5>1, <5>2
      <4> QED BY <4>1 DEF StartsOwn
    <3>5. ASSUME NEW u \in Workers, NEW v \in Workers,
                 pc'[u] = "start", pc'[v] = "start", task'[u] = task'[v]
          PROVE  u = v
      <4>1. ASSUME NEW x \in Workers, x # w, pc'[x] = "start" PROVE pc[x] = "start" /\ task[x] # Popped + 1
        BY <1>1, <3>1, <3>2, <4>1 DEF RunsCounted, StartsOwn
      <4> QED BY <1>1, <3>1, <3>5, <4>1 DEF RunsCounted
    <3>6. \A n \in TaskId : runs'[n] <= 1 /\ (n > Popped' => runs'[n] = 0)
      BY <1>1, <3>1, <3>2 DEF RunsCounted
    <3>7. ASSUME NEW n \in 1..Popped'
          PROVE  runs'[n] = 1 \/ \E v \in Workers : pc'[v] = "start" /\ task'[v] = n
      <4>1. CASE n = Popped + 1
        <5>1. pc'[w] = "start" /\ task'[w] = n
          BY <1>1, <3>1, <4>1
        <5> QED BY <5>1
      <4>2. CASE n # Popped + 1
        <5>1. n \in 1..Popped
          BY <3>1, <3>2, <4>2
        <5>2. runs[n] = 1 \/ \E v \in Workers : pc[v] = "start" /\ task[v] = n
          BY <1>1, <5>1 DEF RunsCounted
        <5>3. \A v \in Workers : pc[v] = "start" => pc'[v] = "start"
          BY <1>1, <3>1
        <5> QED BY <3>1, <5>2, <5>3
      <4> QED BY <4>1, <4>2
    <3> QED BY <3>4, <3>5, <3>6, <3>7 DEF RunsCounted
  <2>4. CASE Start(w)
    <3>1. /\ pc[w] = "start" /\ pc' = [pc EXCEPT ![w] = "running"]
          /\ UNCHANGED <<tasks, pushed, task>> /\ runs' = [runs EXCEPT ![task[w]] = @ + 1]
      BY <2>4 DEF Start
    <3>2. Popped' = Popped /\ Popped \in Nat /\ Popped <= MaxTasks
      BY <1>1, <3>1 DEF Popped
    <3>3. task[w] \in 1..Popped /\ runs[task[w]] = 0 /\ task[w] \in TaskId
      BY <1>1, <3>1, <3>2 DEF RunsCounted, StartsOwn
    <3>4. \A v \in Workers : pc'[v] = "start" => v # w /\ pc[v] = "start" /\ task[v] # task[w]
      BY <1>1, <3>1 DEF RunsCounted
    <3>5. runs'[task[w]] = 1 /\ \A n \in TaskId : n # task[w] => runs'[n] = runs[n]
      BY <1>1, <3>1, <3>3
    <3>6. \A v \in Workers : StartsOwn(v)'
      <4>1. ASSUME NEW v \in Workers, pc'[v] = "start"
            PROVE  task'[v] \in 1..Popped' /\ runs'[task'[v]] = 0
        <5>1. pc[v] = "start" /\ task[v] \in 1..Popped /\ task[v] # task[w] /\ runs[task[v]] = 0
          BY <1>1, <3>4, <4>1 DEF RunsCounted, StartsOwn
        <5>2. task[v] \in TaskId
          BY <1>1, <3>2, <5>1
        <5> QED BY <3>1, <3>2, <3>5, <5>1, <5>2
      <4> QED BY <4>1 DEF StartsOwn
    <3>7. \A u, v \in Workers : pc'[u] = "start" /\ pc'[v] = "start" /\ task'[u] = task'[v] => u = v
      BY <1>1, <3>1, <3>4 DEF RunsCounted
    <3>8. \A n \in TaskId : runs'[n] <= 1 /\ (n > Popped' => runs'[n] = 0)
      BY <1>1, <3>2, <3>3, <3>5 DEF RunsCounted
    <3>9. ASSUME NEW n \in 1..Popped'
          PROVE  runs'[n] = 1 \/ \E v \in Workers : pc'[v] = "start" /\ task'[v] = n
      <4>1. n \in TaskId /\ (runs[n] = 1 \/ \E v \in Workers : pc[v] = "start" /\ task[v] = n)
        BY <1>1, <3>2 DEF RunsCounted
      <4>2. CASE n = task[w]
        BY <3>5, <4>2
      <4>3. CASE n # task[w]
        BY <1>1, <3>1, <3>5, <4>1, <4>3
      <4> QED BY <4>2, <4>3
    <3> QED BY <3>6, <3>7, <3>8, <3>9 DEF RunsCounted
  <2> QED BY <1>2, <2>1, <2>2, <2>3, <2>4 DEF Worker
<1>3. ASSUME NEW t \in Threads, CommitTest(t) \/ Committing(t) PROVE RunsCounted'
  <2>1. /\ UNCHANGED <<task, runs>>
        /\ \A v \in Workers : pc'[v] = "start" <=> pc[v] = "start"
    BY <1>1, <1>3 DEF CommitTest, Committing, CommitPush, CommitNotify, CommitBound, history
  <2>2. CommitPush(t) \/ UNCHANGED <<tasks, pushed>>
    BY <1>3 DEF CommitTest, Committing, CommitNotify, CommitBound, history
  <2>3. Popped' = Popped
    BY <2>2, PushKeepsOrder DEF Popped
  <2> QED BY <2>1, <2>3, RunsSame
<1>4. CASE Destroy \/ Destructor
  <2>1. /\ UNCHANGED <<tasks, pushed, task, runs>>
        /\ \A v \in Workers : pc'[v] = "start" <=> pc[v] = "start"
    BY <1>1, <1>4 DEF Destroy, Destructor, NotifyAll, Join, history
  <2> QED BY <2>1, RunsSame DEF Popped
<1> QED BY <1>2, <1>3, <1>4 DEF Step
LEMMA LeavingStep ==
  ASSUME PoolInv, Step
  PROVE  Leaving'
<1> USE DEF Goto
<1>1. /\ pc \in [Workers -> WorkerPC] /\ commit \in [Threads -> {"none", "push", "notify"}]
      /\ opc \in {"up", "notifyAll", "join", "gone"} /\ exit \in BOOLEAN /\ tasks \in Seq(TaskId)
      /\ Owner \notin Workers /\ Owner \in Threads /\ Workers \subseteq Threads
      /\ Workers # {} /\ Leaving
  BY OwnerAssumption, WorkersAssumption DEF PoolInv, TypeOK, Threads
<1>2. ASSUME NEW w \in Workers, Worker(w) \/ SpuriousWakeUp(w) PROVE Leaving'
  <2>1. UNCHANGED <<exit, opc, commit>> /\ pc[w] # "ended" /\ (pc[w] = "running" => commit[w] = "none")
        /\ \E to \in WorkerPC : pc' = [pc EXCEPT ![w] = to]
    BY <1>2 DEF Worker, Loop, Lock, Test, Block, Take, Pop, Start, Finish, SpuriousWakeUp, WorkerPC, history
  <2>2. pc'[w] = "ended" => exit /\ tasks' = <<>>
    <3>1. CASE Loop(w)
      BY <1>1, <3>1 DEF Loop
    <3>2. CASE Take(w)
      BY <1>1, <3>2 DEF Take
    <3>3. CASE Lock(w) \/ Test(w) \/ Block(w) \/ Pop(w) \/ Start(w) \/ Finish(w) \/ SpuriousWakeUp(w)
      BY <1>1, <3>3 DEF Lock, Test, Block, Pop, Start, Finish, SpuriousWakeUp
    <3> QED BY <1>2, <3>1, <3>2, <3>3 DEF Worker
  <2> QED BY <1>1, <2>1, <2>2 DEF Leaving
<1>3. ASSUME NEW t \in Threads, CommitTest(t) \/ Committing(t) PROVE Leaving'
  <2>1. CASE CommitTest(t)
    <3>1. /\ ~exit /\ commit' = [commit EXCEPT ![t] = "push"] /\ UNCHANGED <<tasks, exit, pc, opc>>
          /\ t \in Workers => pc[t] = "running"
      BY <1>1, <2>1 DEF CommitTest, MayCommit
    <3> QED BY <1>1, <3>1 DEF Leaving, Threads
  <2>2. CASE CommitPush(t)
    <3>1. /\ UNCHANGED <<exit, pc, opc>> /\ commit[t] = "push" /\ commit' = [commit EXCEPT ![t] = "notify"]
      BY <2>2 DEF CommitPush
    <3>2. ~(\A w \in Workers : pc[w] = "ended")
      <4>1. CASE t = Owner
        BY <1>1, <3>1, <4>1 DEF Leaving
      <4>2. CASE t \in Workers
        BY <1>1, <3>1, <4>2 DEF Leaving
      <4> QED BY <4>1, <4>2 DEF Threads
    <3> QED BY <1>1, <3>1, <3>2 DEF Leaving, Threads
  <2>3. CASE CommitBound(t)
    BY <1>1, <2>3 DEF CommitBound, Leaving, Threads
  <2>4. CASE CommitNotify(t)
    <3>1. /\ UNCHANGED <<tasks, exit, opc>> /\ commit' = [commit EXCEPT ![t] = "none"]
          /\ pc' = pc \/ \E w \in Workers : pc[w] = "asleep" /\ pc' = [pc EXCEPT ![w] = "lock"]
      BY <2>4 DEF CommitNotify
    <3>2. CASE pc' = pc
      BY <1>1, <3>1, <3>2 DEF Leaving, Threads
    <3>3. ASSUME NEW w \in Workers, pc[w] = "asleep", pc' = [pc EXCEPT ![w] = "lock"] PROVE Leaving'
      <4>1. commit[w] = "none"
        BY <1>1, <3>3 DEF Leaving
      <4> QED BY <1>1, <3>1, <3>3, <4>1 DEF Leaving, Threads
    <3> QED BY <3>1, <3>2, <3>3
  <2> QED BY <1>3, <2>1, <2>2, <2>3, <2>4 DEF Committing
<1>4. CASE Destroy
  BY <1>1, <1>4 DEF Destroy, Leaving
<1>5. CASE NotifyAll
  <2>1. /\ UNCHANGED <<tasks, exit, commit>> /\ opc = "notifyAll" /\ opc' = "join"
        /\ pc' = [w \in Workers |-> IF pc[w] = "asleep" THEN "lock" ELSE pc[w]]
    BY <1>5 DEF NotifyAll
  <2>2. \A w \in Workers : pc'[w] = "ended" <=> pc[w] = "ended"
    BY <1>1, <2>1
  <2>3. \A w \in Workers : pc'[w] = "running" <=> pc[w] = "running"
    BY <1>1, <2>1
  <2> QED BY <1>1, <2>1, <2>2, <2>3 DEF Leaving
<1>6. CASE Join
  BY <1>1, <1>6 DEF Join, Leaving
<1> QED BY <1>2, <1>3, <1>4, <1>5, <1>6 DEF Step, Destructor

(* The number of threads that count as idle, when one is counted in or out.*)
LEMMA IdleChanges ==
  ASSUME NEW S \in SUBSET Workers, NEW w \in Workers
  PROVE  /\ IsFiniteSet(S) /\ Cardinality(S) \in Nat
         /\ Cardinality(S \cup {w}) <= Cardinality(S) + 1
         /\ w \in S => Cardinality(S) >= 1 /\ Cardinality(S \ {w}) = Cardinality(S) - 1
         /\ Cardinality(S \ {w}) <= Cardinality(S)
<1>1. IsFiniteSet(S)
  BY WorkersAssumption, FS_Subset
<1>2. Cardinality(S) \in Nat /\ (Cardinality(S) = 0 <=> S = {})
  BY <1>1, FS_CardinalityType, FS_EmptySet
<1>3. Cardinality(S \cup {w}) <= Cardinality(S) + 1
  BY <1>1, <1>2, FS_AddElement
<1>4. Cardinality(S \ {w}) = IF w \in S THEN Cardinality(S) - 1 ELSE Cardinality(S)
  BY <1>1, FS_RemoveElement
<1>5. w \in S => Cardinality(S) >= 1
  BY <1>2
<1> QED BY <1>1, <1>2, <1>3, <1>4, <1>5

LEMMA IdleStep ==
  ASSUME PoolInv, Step
  PROVE  counter' \in Nat /\ IdleCounted'
<1> USE DEF Goto
<1>1. /\ pc \in [Workers -> WorkerPC] /\ counter \in Nat /\ Idle \in SUBSET Workers
      /\ Cardinality(Idle) <= counter /\ Cardinality(Idle) \in Nat
  BY WorkersAssumption, IdleChanges DEF PoolInv, TypeOK, IdleCounted, Idle
<1>2. ASSUME NEW w \in Workers, Worker(w) \/ SpuriousWakeUp(w) PROVE counter' \in Nat /\ IdleCounted'
  <2>1. CASE Loop(w) /\ pc' = [pc EXCEPT ![w] = "lock"] /\ counter' = counter + 1
    <3>1. Idle' = Idle \cup {w}
      BY <1>1, <2>1 DEF Idle
    <3> QED BY <1>1, <2>1, <3>1, IdleChanges DEF IdleCounted
  <2>2. CASE Loop(w) /\ pc[w] = "loop" /\ pc' = [pc EXCEPT ![w] = "ended"] /\ UNCHANGED counter
    <3>1. Idle' = Idle
      BY <1>1, <2>2 DEF Idle
    <3> QED BY <1>1, <2>2, <3>1 DEF IdleCounted
  <2>3. CASE Lock(w) \/ Test(w) \/ Block(w) \/ Pop(w) \/ Finish(w) \/ SpuriousWakeUp(w)
    <3>1. Idle' = Idle /\ counter' = counter
      BY <1>1, <2>3 DEF Lock, Test, Block, Pop, Finish, SpuriousWakeUp, Idle
    <3> QED BY <1>1, <3>1 DEF IdleCounted
  <2>4. CASE Take(w)
    <3>1. counter' = counter /\ (Idle' = Idle \/ Idle' = Idle \ {w})
      BY <1>1, <2>4 DEF Take, Idle
    <3> QED BY <1>1, <3>1, IdleChanges DEF IdleCounted
  <2>5. CASE Start(w)
    <3>1. w \in Idle /\ Idle' = Idle \ {w} /\ counter' = counter - 1
      BY <1>1, <2>5 DEF Start, Idle
    <3> QED BY <1>1, <3>1, IdleChanges DEF IdleCounted
  <2>6. Loop(w) => \/ pc' = [pc EXCEPT ![w] = "lock"] /\ counter' = counter + 1
                   \/ pc[w] = "loop" /\ pc' = [pc EXCEPT ![w] = "ended"] /\ UNCHANGED counter
    BY DEF Loop
  <2> QED BY <1>2, <2>1, <2>2, <2>3, <2>4, <2>5, <2>6 DEF Worker
<1>3. ASSUME NEW t \in Threads, CommitTest(t) \/ Committing(t) PROVE counter' \in Nat /\ IdleCounted'
  <2>1. counter' = counter /\ Idle' = Idle
    BY <1>1, <1>3 DEF CommitTest, Committing, CommitPush, CommitNotify, CommitBound, Idle
  <2> QED BY <1>1, <2>1 DEF IdleCounted
<1>4. CASE Destroy \/ Destructor
  <2>1. counter' = counter /\ Idle' = Idle
    BY <1>1, <1>4 DEF Destroy, Destructor, NotifyAll, Join, Idle
  <2> QED BY <1>1, <2>1 DEF IdleCounted
<1> QED BY <1>2, <1>3, <1>4 DEF Step

LEMMA TypeStep ==
  ASSUME PoolInv, Step
  PROVE  TypeOK'
<1> USE DEF Goto
<1>1. TypeOK /\ counter' \in Nat /\ MaxTasks \in Nat /\ MaxSpurious \in Nat
  BY BoundsAssumption, IdleStep DEF PoolInv
<1>2. ASSUME NEW w \in Workers, Worker(w) \/ SpuriousWakeUp(w) PROVE TypeOK'
  <2>1. CASE Loop(w) \/ Lock(w) \/ Test(w) \/ Block(w) \/ Finish(w)
    BY <1>1, <2>1 DEF TypeOK, WorkerPC, Loop, Lock, Test, Block, Finish, history
  <2>2. CASE SpuriousWakeUp(w)
    BY <1>1, <2>2 DEF TypeOK, WorkerPC, SpuriousWakeUp
  <2>3. CASE Take(w)
    <3>1. task' \in [Workers -> TaskId \cup {0}]
      BY <1>1, <2>3, FrontIsNext DEF Take, TypeOK
    <3> QED BY <1>1, <2>3, <3>1 DEF TypeOK, WorkerPC, Take, history
  <2>4. CASE Pop(w)
    <3>1. tasks' \in Seq(TaskId)
      BY <2>4, PopKeepsOrder
    <3> QED BY <1>1, <2>4, <3>1 DEF TypeOK, WorkerPC, Pop, history
  <2>5. CASE Start(w)
    <3>1. runs' \in [TaskId -> Nat]
      <4>1. runs \in [TaskId -> Nat] /\ runs' = [runs EXCEPT ![task[w]] = @ + 1]
        BY <1>1, <2>5 DEF TypeOK, Start
      <4>2. task[w] \in TaskId /\ runs[task[w]] + 1 \in Nat
        <5>1. task[w] \in 1..Popped
          BY <2>5 DEF PoolInv, RunsCounted, StartsOwn, Start
        <5>2. task[w] \in TaskId
          BY <1>1, <5>1, LenProperties DEF PoolInv, TypeOK, QueueInOrder, Popped, TaskId
        <5> QED BY <4>1, <5>2
      <4> QED BY <4>1, <4>2
    <3> QED BY <1>1, <2>5, <3>1 DEF TypeOK, WorkerPC, Start
  <2> QED BY <1>2, <2>1, <2>2, <2>3, <2>4, <2>5 DEF Worker
<1>3. ASSUME NEW t \in Threads, CommitTest(t) \/ Committing(t) PROVE TypeOK'
  <2>1. CASE CommitPush(t)
    <3>1. tasks' \in Seq(TaskId)
      BY <2>1, PushKeepsOrder
    <3> QED BY <1>1, <2>1, <3>1 DEF TypeOK, CommitPush
  <2>2. CASE CommitTest(t) \/ CommitBound(t)
    BY <1>1, <2>2 DEF TypeOK, CommitTest, CommitBound, history
  <2>3. CASE CommitNotify(t)
    BY <1>1, <2>3 DEF TypeOK, WorkerPC, CommitNotify, history
  <2> QED BY <1>3, <2>1, <2>2, <2>3 DEF Committing
<1>4. CASE Destroy \/ Join
  BY <1>1, <1>4 DEF TypeOK, Destroy, Join, history
<1>5. CASE NotifyAll
  BY <1>1, <1>5 DEF TypeOK, WorkerPC, NotifyAll, history
<1> QED BY <1>2, <1>3, <1>4, <1>5 DEF Step, Destructor
------------------------------------------------------------------------------
LEMMA PoolInit == Init => PoolInv
<1> SUFFICES ASSUME Init PROVE PoolInv
  OBVIOUS
<1>1. TypeOK
  <2>1. tasks \in Seq(TaskId)
    BY DEF Init
  <2>2. runs \in [TaskId -> Nat] /\ counter \in Nat /\ pushed \in 0..MaxTasks /\ spurious \in 0..MaxSpurious
    BY BoundsAssumption DEF Init
  <2>3. /\ pc \in [Workers -> WorkerPC] /\ task \in [Workers -> TaskId \cup {0}]
        /\ commit \in [Threads -> {"none", "push", "notify"}]
    BY DEF Init, WorkerPC
  <2> QED BY <2>1, <2>2, <2>3 DEF Init, TypeOK
<1>2. IdleCounted
  <2>1. Idle = {}
    BY DEF Init, Idle
  <2> QED BY <2>1, FS_EmptySet DEF Init, IdleCounted
<1>3. MutexHeld /\ QueueInOrder /\ RunsCounted
  <2>1. Popped = 0 /\ Len(tasks) = 0 /\ Len(tasks) <= pushed
    <3>1. tasks = <<>> /\ pushed = 0
      BY DEF Init
    <3>2. Len(tasks) = 0
      BY <3>1
    <3>3. pushed = 0
      BY <3>1
    <3> QED BY ONLY <3>2, <3>3 DEF Popped
  <2> QED BY <2>1, OwnerAssumption DEF Init, MutexHeld, QueueInOrder, RunsCounted, StartsOwn, TaskId
<1>4. Leaving
  BY OwnerAssumption, WorkersAssumption DEF Init, Leaving, Threads
<1> QED BY <1>1, <1>2, <1>3, <1>4 DEF PoolInv

LEMMA PoolInductive == PoolInv /\ [Next]_vars => PoolInv'
<1> SUFFICES ASSUME PoolInv, [Next]_vars PROVE PoolInv'
  OBVIOUS
<1>1. CASE Next
  <2>1. Step
    BY <1>1 DEF Next, Step
  <2> QED BY <2>1, TypeStep, IdleStep, HeldStep, OrderStep, RunsStep, LeavingStep DEF PoolInv
<1>2. CASE UNCHANGED vars
  BY <1>2 DEF vars, PoolInv, TypeOK, IdleCounted, Idle, MutexHeld, QueueInOrder, Popped,
              RunsCounted, StartsOwn, Leaving
<1> QED BY <1>1, <1>2

LEMMA PoolCorrect == Spec => []PoolInv
BY PoolInit, PoolInductive, PTL DEF Spec

(* The types; what a step could spoil is the idle count, which wrapper()   *)
(* raises before the wait, and lowers after it.                            *)
THEOREM TypeCorrect == Spec => []TypeOK
<1>1. PoolInv => TypeOK
  BY DEF PoolInv
<1> QED BY <1>1, PoolCorrect, PTL

(* However many workers race for the queue, wrapper() runs no task twice.  *)
THEOREM RunsOnce == Spec => []RunsAtMostOnce
<1>1. PoolInv => RunsAtMostOnce
  BY DEF PoolInv, RunsCounted, RunsAtMostOnce
<1> QED BY <1>1, PoolCorrect, PTL

(* When ~thread_pool_t has returned, all that was pushed has run and nobody*)
(* is in commit(), for any number of threads, tasks and tasks of tasks.    *)
THEOREM Drained == Spec => []DrainedOnReturn
<1>1. PoolInv => DrainedOnReturn
  <2> SUFFICES ASSUME PoolInv, opc = "gone" PROVE DrainedOnReturn
    BY DEF DrainedOnReturn
  <2>1. \A w \in Workers : pc[w] = "ended"
    BY DEF PoolInv, Leaving
  <2>2. tasks = <<>> /\ Popped = pushed
    <3>1. tasks = <<>> /\ pushed \in Nat
      BY <2>1 DEF PoolInv, Leaving, TypeOK
    <3> QED BY <3>1 DEF Popped
  <2>3. \A n \in 1..pushed : runs[n] = 1
    BY <2>1, <2>2 DEF PoolInv, RunsCounted
  <2>4. \A t \in Threads : commit[t] = "none"
    BY <2>1 DEF PoolInv, Leaving, TypeOK, Threads
  <2> QED BY <2>2, <2>3, <2>4 DEF DrainedOnReturn
<1> QED BY <1>1, PoolCorrect, PTL
================================================================================
