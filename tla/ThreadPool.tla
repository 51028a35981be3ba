------------------------------ MODULE ThreadPool ------------------------------
(***************************************************************************)
(* net::thread_pool_t: worker threads that share a queue of tasks under a  *)
(* mutex and a condition variable, the owner that commits tasks and then   *)
(* destroys the pool, and tasks that commit further tasks while they run.  *)
(*                                                                         *)
(* What runs under the mutex is several steps when the destructor, which   *)
(* does not take it, can get in between. The condition variable is its set *)
(* of waiters, the workers at "asleep"; a waiter that is woken, by a       *)
(* notification or for no reason, takes the mutex and tests again.         *)
(***************************************************************************)
EXTENDS Naturals, Sequences, FiniteSets

CONSTANTS
  Workers,     \* the threads of the pool
  Owner,       \* the thread that made it
  None,        \* no thread
  MaxTasks,    \* bound: tasks ever pushed
  MaxSpurious  \* bound: spurious wake-ups of the condition variable

ASSUME OwnerAssumption  == Owner \notin Workers /\ None \notin Workers
(* A pool of no threads would never run what it is given.                  *)
ASSUME WorkersAssumption == IsFiniteSet(Workers) /\ Workers # {}
ASSUME BoundsAssumption == MaxTasks \in Nat /\ MaxSpurious \in Nat

VARIABLES
  tasks,     \* the queue of tasks, by the number each was pushed with
  mutex,     \* the worker inside the mutex
  exit,      \* the flag of that name
  counter,   \* the idle count
  pc,        \* where each worker is in wrapper()
  task,      \* the task each worker took
  commit,    \* where each thread is in commit()
  opc,       \* where the owner is: "up", then the steps of the destructor
  pushed,    \* history: tasks pushed
  runs,      \* history: how often each task was run
  spurious   \* history: spurious wake-ups

vars == <<tasks, mutex, exit, counter, pc, task, commit, opc, pushed, runs, spurious>>
history == <<pushed, runs, spurious>>

Threads  == Workers \cup {Owner}
WorkerPC == {"loop", "lock", "test", "block", "asleep", "take", "pop", "start", "running", "ended"}
TaskId   == 1..MaxTasks

Init == /\ tasks = <<>> /\ mutex = None /\ exit = FALSE /\ counter = 0
        /\ pc = [w \in Workers |-> "loop"]
        /\ task = [w \in Workers |-> 0]
        /\ commit = [t \in Threads |-> "none"]
        /\ opc = "up"
        /\ pushed = 0 /\ spurious = 0
        /\ runs = [n \in TaskId |-> 0]

Goto(w, from, to) == pc[w] = from /\ pc' = [pc EXCEPT ![w] = to]
------------------------------------------------------------------------------
(* A worker: wrapper().                                                    *)

(* Mutant: the loop ends on exit without looking at the queue.             *)
LoopIgnoresQueue(w) ==
  /\ \/ ~exit /\ Goto(w, "loop", "lock") /\ counter' = counter + 1
     \/ exit  /\ Goto(w, "loop", "ended") /\ UNCHANGED counter
  /\ UNCHANGED <<tasks, mutex, exit, task, commit, opc, history>>

(* Mutant: a worker that waits is not counted as idle.                     *)
LoopUncounted(w) ==
  /\ \/ (~exit \/ tasks # <<>>) /\ Goto(w, "loop", "lock")
     \/ exit /\ tasks = <<>> /\ Goto(w, "loop", "ended")
  /\ UNCHANGED <<tasks, mutex, exit, counter, task, commit, opc, history>>

(* while (!exit || !empty()), read outside the mutex                       *)
Loop(w) ==
  /\ \/ (~exit \/ tasks # <<>>) /\ Goto(w, "loop", "lock") /\ counter' = counter + 1
     \/ exit /\ tasks = <<>> /\ Goto(w, "loop", "ended") /\ UNCHANGED counter
  /\ UNCHANGED <<tasks, mutex, exit, task, commit, opc, history>>

Lock(w) == /\ mutex = None /\ mutex' = w
           /\ Goto(w, "lock", "test")
           /\ UNCHANGED <<tasks, exit, counter, task, commit, opc, history>>

(* cond.wait: the predicate, then the worker blocks and gives up the mutex *)
Test(w) == /\ Goto(w, "test", IF tasks # <<>> \/ exit THEN "take" ELSE "block")
           /\ UNCHANGED <<tasks, mutex, exit, counter, task, commit, opc, history>>

Block(w) == /\ Goto(w, "block", "asleep")
            /\ mutex' = None
            /\ UNCHANGED <<tasks, exit, counter, task, commit, opc, history>>

SpuriousWakeUp(w) == /\ spurious < MaxSpurious /\ spurious' = spurious + 1
                     /\ Goto(w, "asleep", "lock")
                     /\ UNCHANGED <<tasks, mutex, exit, counter, task, commit, opc, pushed, runs>>

(* The worker returns (leaving counter as it is) or reads the front.       *)
Take(w) ==
  /\ \/ /\ exit /\ tasks = <<>>
        /\ Goto(w, "take", "ended") /\ mutex' = None
        /\ UNCHANGED task
     \/ /\ tasks # <<>>
        /\ Goto(w, "take", "pop") /\ task' = [task EXCEPT ![w] = Head(tasks)]
        /\ UNCHANGED mutex
  /\ UNCHANGED <<tasks, exit, counter, commit, opc, history>>

(* Mutant: the front is moved out of the queue but stays in it.            *)
PopKeeps(w) == /\ Goto(w, "pop", "start")
               /\ mutex' = None
               /\ UNCHANGED <<tasks, exit, counter, task, commit, opc, history>>

Pop(w) == /\ Goto(w, "pop", "start")
          /\ tasks' = Tail(tasks) /\ mutex' = None
          /\ UNCHANGED <<exit, counter, task, commit, opc, history>>

Start(w) == /\ Goto(w, "start", "running")
            /\ counter' = counter - 1
            /\ runs' = [runs EXCEPT ![task[w]] = @ + 1]
            /\ UNCHANGED <<tasks, mutex, exit, task, commit, opc, pushed, spurious>>

Finish(w) == /\ commit[w] = "none"
             /\ Goto(w, "running", "loop")
             /\ UNCHANGED <<tasks, mutex, exit, counter, task, commit, opc, history>>
------------------------------------------------------------------------------
(* commit(), by the owner or by a task that runs. Once exit is set the call*)
(* returns without a change.                                               *)

MayCommit(t) == IF t = Owner THEN opc = "up" ELSE pc[t] = "running"

CommitTest(t) == /\ MayCommit(t) /\ commit[t] = "none" /\ ~exit
                 /\ pushed < MaxTasks
                 /\ commit' = [commit EXCEPT ![t] = "push"]
                 /\ UNCHANGED <<tasks, mutex, exit, counter, pc, task, opc, history>>

(* Mutant: nobody is notified of the task.                                 *)
CommitPushSilent(t) == /\ commit[t] = "push" /\ mutex = None /\ pushed < MaxTasks
                       /\ tasks' = Append(tasks, pushed + 1) /\ pushed' = pushed + 1
                       /\ commit' = [commit EXCEPT ![t] = "none"]
                       /\ UNCHANGED <<mutex, exit, counter, pc, task, opc, runs, spurious>>

CommitPush(t) == /\ commit[t] = "push" /\ mutex = None /\ pushed < MaxTasks
                 /\ tasks' = Append(tasks, pushed + 1) /\ pushed' = pushed + 1
                 /\ commit' = [commit EXCEPT ![t] = "notify"]
                 /\ UNCHANGED <<mutex, exit, counter, pc, task, opc, runs, spurious>>

(* The bound: a commit that finds MaxTasks reached pushes nothing.         *)
CommitBound(t) == /\ commit[t] = "push" /\ pushed = MaxTasks
                  /\ commit' = [commit EXCEPT ![t] = "none"]
                  /\ UNCHANGED <<tasks, mutex, exit, counter, pc, task, opc, history>>

(* notify_one                                                              *)
CommitNotify(t) ==
  /\ commit[t] = "notify"
  /\ commit' = [commit EXCEPT ![t] = "none"]
  /\ \/ \E w \in Workers : Goto(w, "asleep", "lock")
     \/ (\A w \in Workers : pc[w] # "asleep") /\ UNCHANGED pc
  /\ UNCHANGED <<tasks, mutex, exit, counter, task, opc, history>>
------------------------------------------------------------------------------
(* The owner: ~thread_pool_t.                                              *)

Destroy == /\ opc = "up" /\ commit[Owner] = "none"
           /\ exit' = TRUE /\ opc' = "notifyAll"
           /\ UNCHANGED <<tasks, mutex, counter, pc, task, commit, history>>

NotifyAll == /\ opc = "notifyAll" /\ opc' = "join"
             /\ pc' = [w \in Workers |-> IF pc[w] = "asleep" THEN "lock" ELSE pc[w]]
             /\ UNCHANGED <<tasks, mutex, exit, counter, task, commit, history>>

Join == /\ opc = "join" /\ \A w \in Workers : pc[w] = "ended"
        /\ opc' = "gone"
        /\ UNCHANGED <<tasks, mutex, exit, counter, pc, task, commit, history>>
------------------------------------------------------------------------------
Worker(w) == \/ Loop(w) \/ Lock(w) \/ Test(w) \/ Block(w)
             \/ Take(w) \/ Pop(w)  \/ Start(w) \/ Finish(w)

Committing(t) == CommitPush(t) \/ CommitNotify(t) \/ CommitBound(t)

Destructor == NotifyAll \/ Join

Next == \/ \E w \in Workers : Worker(w) \/ SpuriousWakeUp(w)
        \/ \E t \in Threads : CommitTest(t) \/ Committing(t)
        \/ Destroy \/ Destructor

Spec == Init /\ [][Next]_vars

(* Threads keep running and tasks end; the owner need not destroy the pool *)
(* and nobody need commit.                                                 *)
FairSpec == /\ Spec
            /\ \A w \in Workers : WF_vars(Worker(w))
            /\ \A t \in Threads : WF_vars(Committing(t))
            /\ WF_vars(Destructor)
------------------------------------------------------------------------------
TypeOK == /\ tasks \in Seq(TaskId)
          /\ mutex \in Workers \cup {None}
          /\ exit \in BOOLEAN
          /\ counter \in Nat
          /\ pc \in [Workers -> WorkerPC]
          /\ task \in [Workers -> TaskId \cup {0}]
          /\ commit \in [Threads -> {"none", "push", "notify"}]
          /\ opc \in {"up", "notifyAll", "join", "gone"}
          /\ pushed \in 0..MaxTasks /\ spurious \in 0..MaxSpurious
          /\ runs \in [TaskId -> Nat]

(* No task runs twice, however the workers race for the front of the queue.*)
RunsAtMostOnce == \A n \in TaskId : runs[n] <= 1

(* When the destructor returns, every task that was pushed has run, those  *)
(* pushed by tasks that were still running after exit was set included,    *)
(* and no thread is left inside commit().                                  *)
DrainedOnReturn ==
  opc = "gone" => /\ tasks = <<>>
                  /\ \A n \in 1..pushed : runs[n] = 1
                  /\ \A t \in Threads : commit[t] = "none"

(* Every task that is pushed is run, although a wake-up reaches one waiter *)
(* and the destructor may run at any time.                                 *)
PushedIsRun == \A n \in TaskId : pushed >= n ~> runs[n] >= 1

(* "we wait all threads to exit at here" (thread_pool.hpp:50): once begun, *)
(* the destructor returns. In no run: the code does not keep it, notify_all *)
(* may come between a worker's test and its wait.                          *)
DestructorReturns == opc = "notifyAll" ~> opc = "gone"
==============================================================================
