----------------------------- MODULE EventContext -----------------------------
(***************************************************************************)
(* net::event_context_t: the threads that run one event loop each, how     *)
(* they join the context, how exit_all stops them, how they wait for each  *)
(* other in run() and how the context is destroyed.                        *)
(*                                                                         *)
(* EventLoop models what a thread does inside its loop; here a loop runs   *)
(* until its is_exit is seen. What a thread does under loop_mutex or       *)
(* exit_mutex is one step. A loop that do_init built and then abandoned,   *)
(* because exit was set meanwhile, has no demultiplexer and nobody to set  *)
(* its is_exit: run() on it is undefined, taken here as never returning.   *)
(*                                                                         *)
(* Definitions have names that RwLock has not: one module proves theorems  *)
(* about both.                                                             *)
(***************************************************************************)
EXTENDS ThreadSet, Integers

CONSTANT Main   \* the thread that makes and destroys the context

ASSUME MainAssumption == Main \in Threads

VARIABLES
  exit,      \* the flag of that name
  loops,     \* the threads whose loop is in loops
  counter,   \* loop_counter
  mine,      \* thread_in_loop: "none", "orphan" (not in loops) or "loop"
  isExit,    \* the loops' is_exit
  at,        \* where each thread is
  xpc,       \* where the caller of exit_all is
  alive      \* the context exists

contextVars == <<exit, loops, counter, mine, isExit, at, xpc, alive>>

ContextPC == {"new", "create", "register", "enter", "running",
              "ended", "lock", "asleep", "relock", "returned"}

(* The constructor has run do_init in the main thread.                     *)
ContextInit == /\ exit = FALSE /\ loops = {Main} /\ counter = 1
               /\ mine = [t \in Threads |-> IF t = Main THEN "loop" ELSE "none"]
               /\ isExit = [t \in Threads |-> FALSE]
               /\ at = [t \in Threads |-> "new"]
               /\ xpc = "idle" /\ alive = TRUE

Goto(t, from, to) == at[t] = from /\ at' = [at EXCEPT ![t] = to]
------------------------------------------------------------------------------
(* run(): do_init, the loop, then the wait for the others                  *)

CallRun(t) == /\ alive
              /\ Goto(t, "new", IF mine[t] = "none" /\ ~exit THEN "create" ELSE "enter")
              /\ UNCHANGED <<exit, loops, counter, mine, isExit, xpc, alive>>

(* new event_loop_t sets thread_in_loop                                    *)
Create(t) == /\ Goto(t, "create", "register")
             /\ mine' = [mine EXCEPT ![t] = "orphan"]
             /\ UNCHANGED <<exit, loops, counter, isExit, xpc, alive>>

(* Mutant: the loop is pushed and not counted.                             *)
RegisterUncounted(t) ==
  /\ Goto(t, "register", "enter")
  /\ \/ exit /\ UNCHANGED <<loops, mine>>
     \/ ~exit /\ loops' = loops \cup {t} /\ mine' = [mine EXCEPT ![t] = "loop"]
  /\ UNCHANGED <<exit, counter, isExit, xpc, alive>>

(* under loop_mutex                                                        *)
Register(t) ==
  /\ Goto(t, "register", "enter")
  /\ \/ exit /\ UNCHANGED <<loops, counter, mine>>
     \/ /\ ~exit
        /\ loops' = loops \cup {t} /\ counter' = counter + 1
        /\ mine' = [mine EXCEPT ![t] = "loop"]
  /\ UNCHANGED <<exit, isExit, xpc, alive>>

Enter(t) == /\ Goto(t, "enter", IF mine[t] = "none" THEN "returned" ELSE "running")
            /\ UNCHANGED <<exit, loops, counter, mine, isExit, xpc, alive>>

LoopEnds(t) == /\ mine[t] = "loop" /\ isExit[t]
               /\ Goto(t, "running", "ended")
               /\ UNCHANGED <<exit, loops, counter, mine, isExit, xpc, alive>>

Decrement(t) == /\ Goto(t, "ended", "lock")
                /\ counter' = counter - 1
                /\ UNCHANGED <<exit, loops, mine, isExit, xpc, alive>>

(* Mutant: the last thread leaves without notifying the others.            *)
LockAndLeave(t) == /\ Goto(t, "lock", IF counter = 0 THEN "returned" ELSE "asleep")
                   /\ UNCHANGED <<exit, loops, counter, mine, isExit, xpc, alive>>

(* under exit_mutex: notify_all, then cond.wait tests its predicate        *)
LockAndWait(t) ==
  /\ at[t] = "lock"
  /\ at' = [s \in Threads |-> IF s = t THEN IF counter = 0 THEN "returned" ELSE "asleep"
                              ELSE IF at[s] = "asleep" THEN "relock" ELSE at[s]]
  /\ UNCHANGED <<exit, loops, counter, mine, isExit, xpc, alive>>

Relock(t) == /\ Goto(t, "relock", IF counter = 0 THEN "returned" ELSE "asleep")
             /\ UNCHANGED <<exit, loops, counter, mine, isExit, xpc, alive>>

SpuriousWakeUp(t) == /\ Goto(t, "asleep", "relock")
                     /\ UNCHANGED <<exit, loops, counter, mine, isExit, xpc, alive>>

(* ~event_context_t, when the main thread's run() has returned             *)
Destroy == /\ alive /\ at[Main] = "returned" /\ xpc \in {"idle", "done"}
           /\ alive' = FALSE
           /\ UNCHANGED <<exit, loops, counter, mine, isExit, at, xpc>>
------------------------------------------------------------------------------
(* exit_all, by a thread of its own: the flag, then every loop             *)

ExitFlag == /\ xpc = "idle" /\ xpc' = "loops"
            /\ exit' = TRUE
            /\ UNCHANGED <<loops, counter, mine, isExit, at, alive>>

ExitLoops == /\ xpc = "loops" /\ xpc' = "done"
             /\ isExit' = [t \in Threads |-> isExit[t] \/ t \in loops]
             /\ UNCHANGED <<exit, loops, counter, mine, at, alive>>
------------------------------------------------------------------------------
Run(t) == \/ Create(t) \/ Register(t) \/ Enter(t) \/ LoopEnds(t)
          \/ Decrement(t) \/ LockAndWait(t) \/ Relock(t)

ContextNext == \/ \E t \in Threads : CallRun(t) \/ Run(t) \/ SpuriousWakeUp(t)
               \/ Destroy \/ ExitFlag \/ ExitLoops

ContextSpec == ContextInit /\ [][ContextNext]_contextVars

(* Threads that called run() keep running, and so does one in exit_all;    *)
(* the main thread, whose loop counts from the start, does call run().     *)
FairContextSpec == ContextSpec /\ WF_contextVars(CallRun(Main)) /\ WF_contextVars(ExitLoops)
                  /\ \A t \in Threads : WF_contextVars(Run(t))
------------------------------------------------------------------------------
ContextTypeOK == /\ exit \in BOOLEAN /\ alive \in BOOLEAN
                 /\ loops \subseteq Threads
                 /\ counter \in 0..Cardinality(Threads)
                 /\ mine \in [Threads -> {"none", "orphan", "loop"}]
                 /\ isExit \in [Threads -> BOOLEAN]
                 /\ at \in [Threads -> ContextPC]
                 /\ xpc \in {"idle", "loops", "done"}

(* run() returns on no thread while the loop of another still runs: the    *)
(* sockets and coroutines of every loop are at rest by then.               *)
ReturnTogether ==
  \A s, t \in Threads : mine[s] = "loop" /\ at[s] = "returned" =>
     ~(t \in loops /\ at[t] \in {"enter", "running", "ended"})

(* After exit_all every thread whose loop is registered returns from run():*)
(* the last one out wakes those that wait, and a thread that joined too    *)
(* late to be registered keeps nobody else from leaving.                   *)
RegisteredReturn == \A t \in Threads : exit /\ t \in loops ~> at[t] = "returned"

(* "Inform exit all event loop" (event.hpp:236): every thread that called  *)
(* run() returns from it. In no run: the code does not keep it, a thread   *)
(* that joins while exit_all runs may be left in its loop.                 *)
ExitAllEndsRun == \A t \in Threads : exit /\ at[t] # "new" ~> at[t] = "returned"
===============================================================================
