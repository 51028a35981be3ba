------------------------------ MODULE EventLoop ------------------------------
(***************************************************************************)
(* One event loop (net::event_loop_t) with its dispatcher queue, the       *)
(* wake-up protocol between it and the other threads, its timers and the   *)
(* execution contexts (coroutines) it runs.                                *)
(*                                                                         *)
(* The loop's thread is the process with program counter pc; the other     *)
(* threads (other loops, the GUI thread) are the Writers. Every shared     *)
(* access that another thread can get between is a step of its own; what   *)
(* runs under one spinlock is one step. The eventfd, epoll and the clock   *)
(* are the environment: epoll returns for a readable eventfd, for an event *)
(* on a bound socket, or for a timer that came due.                        *)
(***************************************************************************)
EXTENDS Naturals, Sequences

CONSTANTS
  Ctx,              \* addresses of execution contexts of this loop
  Writers,          \* the threads that are not the loop's
  None,             \* no context
  MaxPosts,         \* bound: entries ever added to the dispatcher queue
  MaxInc,           \* bound: times an address is reused by a new context
  RemoteDestroy,    \* other threads may destroy contexts
  DestroySleeping   \* a context may be destroyed while it sleeps on a timer

ASSUME BoundsAssumption == MaxPosts \in Nat /\ MaxInc \in Nat
ASSUME FlagsAssumption  == RemoteDestroy \in BOOLEAN /\ DestroySleeping \in BOOLEAN
ASSUME NoneAssumption   == None \notin Ctx

VARIABLES
  queue,      \* co_wait_for_resume: the contexts to resume, as <<address, life>>
  cancelled,  \* cancel_contexts
  hasWakeUp,  \* has_wake_up
  isExit,     \* is_exit
  evfd,       \* the demultiplexer's eventfd is readable
  handlers,   \* event_map: the contexts bound to a socket of this loop
  timer,      \* what each context's own timer is: "off", "armed", "due"
  ticker,     \* a timer of no context is always armed, like an RUDP endpoint's
  alive,      \* the contexts whose destructor has not run
  inc,        \* which life of the address the context is
  pc,         \* where the loop's thread is in event_loop_t::run
  round,      \* which of the two dispatch() calls of an iteration it is in
  cur,        \* the entry dispatch() holds
  ev,         \* the context of the socket the demultiplexer returned
  wpc,        \* where each other thread is in start() and wake_up(), or exit()
  posts,      \* history: entries added to the queue
  popped      \* history: entries taken from it

loopVars == <<pc, round, cur, ev>>
ctxVars  == <<handlers, timer, ticker, alive, inc>>
vars == <<queue, cancelled, hasWakeUp, isExit, evfd, handlers, timer, ticker, alive, inc,
          pc, round, cur, ev, wpc, posts, popped>>

LoopPC   == {"top", "tick", "empty", "pop", "check", "run", "clear", "timeout",
             "reset", "select", "lookup", "handle", "done"}
WriterPC == {"idle", "test", "write", "set", "exitWake"}
Entry    == Ctx \X (0..MaxInc)
NoEntry  == <<None, 0>>

Init ==
  /\ queue = <<>> /\ cancelled = {} /\ posts = 0 /\ popped = 0
  /\ hasWakeUp = FALSE /\ isExit = FALSE
  /\ evfd = TRUE                       \* eventfd(1, 0)
  /\ handlers = Ctx /\ alive = Ctx
  /\ inc = [c \in Ctx |-> 0]
  /\ timer = [c \in Ctx |-> "off"] /\ ticker \in BOOLEAN
  /\ pc = "top" /\ round = 1
  /\ cur = NoEntry /\ ev = None
  /\ wpc = [w \in Writers |-> "idle"]

(* The entry of a context's current life, and whether an entry's life has  *)
(* ended: a pointer to it dangles.                                         *)
EntryOf(c) == <<c, inc[c]>>
Dead(e)    == e[1] \notin alive \/ e[2] # inc[e[1]]

(* execute_thread_dispatcher_t::add *)
Add(c) == /\ posts < MaxPosts
          /\ queue' = Append(queue, EntryOf(c))
          /\ posts' = posts + 1

Goto(l) == pc' = l /\ UNCHANGED <<round, cur, ev>>
NextEntry == pc' = "empty" /\ cur' = NoEntry /\ UNCHANGED <<round, ev>>

------------------------------------------------------------------------------
(* The loop's thread: event_loop_t::run.                                   *)

TestExit == /\ pc = "top"
            /\ Goto(IF isExit THEN "done" ELSE "tick")
            /\ UNCHANGED <<queue, cancelled, hasWakeUp, isExit, evfd, ctxVars, wpc, posts, popped>>

(* time_manager_t::tick runs the callback of stop_for, which starts the    *)
(* context again; wake_up does nothing in the loop's own thread.           *)
Tick(c) == /\ pc = "tick" /\ timer[c] = "due"
           /\ Add(c)
           /\ timer' = [timer EXCEPT ![c] = "off"]
           /\ UNCHANGED <<cancelled, hasWakeUp, isExit, evfd, handlers, ticker, alive, inc, loopVars, wpc, popped>>

TickDone == /\ pc = "tick"
            /\ \A c \in Ctx : timer[c] = "due" => posts = MaxPosts  \* the bound
            /\ pc' = "empty" /\ round' = 1
            /\ UNCHANGED <<queue, cancelled, hasWakeUp, isExit, evfd, ctxVars, cur, ev, wpc, posts, popped>>

(* dispatch(): the queue is tested without its lock, the front is taken    *)
(* under it, and the entry's context is looked up among the cancelled ones.*)
DispatchTest == /\ pc = "empty"
                /\ Goto(IF queue = <<>> THEN "clear" ELSE "pop")
                /\ UNCHANGED <<queue, cancelled, hasWakeUp, isExit, evfd, ctxVars, wpc, posts, popped>>

(* Mutant: the front is read and pop() forgotten.                          *)
DispatchPopKeeps == /\ pc = "pop"
                    /\ cur' = Head(queue)
                    /\ popped' = popped + 1
                    /\ pc' = "check"
                    /\ UNCHANGED <<queue, cancelled, hasWakeUp, isExit, evfd, ctxVars, round, ev, wpc, posts>>

DispatchPop == /\ pc = "pop"
               /\ cur' = Head(queue) /\ queue' = Tail(queue)
               /\ popped' = popped + 1
               /\ pc' = "check"
               /\ UNCHANGED <<cancelled, hasWakeUp, isExit, evfd, ctxVars, round, ev, wpc, posts>>

DispatchSkip == /\ pc = "check" /\ cur[1] \in cancelled
                /\ NextEntry
                /\ UNCHANGED <<queue, cancelled, hasWakeUp, isExit, evfd, ctxVars, wpc, posts, popped>>

(* co->resume() or resume_with(); a coroutine that was in stop_for removes *)
(* its timer first thing.                                                  *)
Resume == /\ pc = "check" /\ cur[1] \notin cancelled
          /\ Goto("run")
          /\ timer' = [timer EXCEPT ![cur[1]] = "off"]
          /\ UNCHANGED <<queue, cancelled, hasWakeUp, isExit, evfd, handlers, ticker, alive, inc, wpc, posts, popped>>

DispatchClear == /\ pc = "clear"
                 /\ cancelled' = {}
                 /\ Goto(IF round = 1 THEN "timeout" ELSE "top")
                 /\ UNCHANGED <<queue, hasWakeUp, isExit, evfd, ctxVars, wpc, posts, popped>>

RetestExit == /\ pc = "timeout"
              /\ Goto(IF isExit THEN "done" ELSE "reset")
              /\ UNCHANGED <<queue, cancelled, hasWakeUp, isExit, evfd, ctxVars, wpc, posts, popped>>

ResetWakeUp == /\ pc = "reset"
               /\ hasWakeUp' = FALSE
               /\ Goto("select")
               /\ UNCHANGED <<queue, cancelled, isExit, evfd, ctxVars, wpc, posts, popped>>

(* demuxer->select: it blocks unless one of the three is enabled.          *)
SelectWakeUp == /\ pc = "select" /\ evfd
                /\ evfd' = FALSE
                /\ pc' = "empty" /\ round' = 2
                /\ UNCHANGED <<queue, cancelled, hasWakeUp, isExit, ctxVars, cur, ev, wpc, posts, popped>>

(* Mutant: the timeout computed from the next timer is not passed on.      *)
SelectTimeoutIgnored == /\ pc = "select" /\ \E c \in Ctx : timer[c] = "due"
                        /\ pc' = "empty" /\ round' = 2
                        /\ UNCHANGED <<queue, cancelled, hasWakeUp, isExit, evfd, ctxVars, cur, ev, wpc, posts, popped>>

SelectTimeout == /\ pc = "select"
                 /\ ticker \/ \E c \in Ctx : timer[c] = "due"
                 /\ pc' = "empty" /\ round' = 2
                 /\ UNCHANGED <<queue, cancelled, hasWakeUp, isExit, evfd, ctxVars, cur, ev, wpc, posts, popped>>

SelectEvent(c) == /\ pc = "select" /\ c \in handlers
                  /\ posts < MaxPosts
                  /\ ev' = c /\ pc' = "lookup"
                  /\ UNCHANGED <<queue, cancelled, hasWakeUp, isExit, evfd, ctxVars, round, cur, wpc, posts, popped>>

(* A handler unbound since the demultiplexer returned is not found: the    *)
(* iteration ends without its second dispatch().                           *)
Lookup == /\ pc = "lookup"
          /\ Goto(IF ev \in handlers THEN "handle" ELSE "top")
          /\ UNCHANGED <<queue, cancelled, hasWakeUp, isExit, evfd, ctxVars, wpc, posts, popped>>

(* socket_t::on_event starts the socket's coroutine.                       *)
OnEvent == /\ pc = "handle"
           /\ \/ Add(ev)
              \/ posts = MaxPosts /\ UNCHANGED <<queue, posts>>
           /\ pc' = "empty" /\ round' = 2 /\ ev' = None
           /\ UNCHANGED <<cancelled, hasWakeUp, isExit, evfd, ctxVars, cur, wpc, popped>>

------------------------------------------------------------------------------
(* What the coroutine that runs may do before it yields.                   *)

CoStart(c) == /\ pc = "run" /\ c \in alive
              /\ Add(c)
              /\ UNCHANGED <<cancelled, hasWakeUp, isExit, evfd, ctxVars, loopVars, wpc, popped>>

(* Mutant: the new context takes its address off the cancelled contexts.   *)
CoCreateRevives(c) == /\ pc = "run" /\ c \notin alive /\ inc[c] < MaxInc
                      /\ posts < MaxPosts
                      /\ alive' = alive \cup {c}
                      /\ inc' = [inc EXCEPT ![c] = @ + 1]
                      /\ queue' = Append(queue, <<c, inc[c] + 1>>)
                      /\ posts' = posts + 1
                      /\ cancelled' = cancelled \ {c}
                      /\ UNCHANGED <<hasWakeUp, isExit, evfd, handlers, timer, ticker, loopVars, wpc, popped>>

(* new execution context at a freed address, then run()                    *)
CoCreate(c) == /\ pc = "run" /\ c \notin alive /\ inc[c] < MaxInc
               /\ posts < MaxPosts
               /\ alive' = alive \cup {c}
               /\ inc' = [inc EXCEPT ![c] = @ + 1]
               /\ queue' = Append(queue, <<c, inc[c] + 1>>)
               /\ posts' = posts + 1
               /\ UNCHANGED <<cancelled, hasWakeUp, isExit, evfd, handlers, timer, ticker, loopVars, wpc, popped>>

(* Mutant: the destructor does not cancel the entries left in the queue.   *)
DestroyUncancelled(c) == /\ c \in alive
                         /\ DestroySleeping \/ timer[c] = "off"
                         /\ alive' = alive \ {c}
                         /\ handlers' = handlers \ {c}
                         /\ UNCHANGED <<queue, cancelled, hasWakeUp, isExit, evfd, timer, ticker, inc, loopVars, posts, popped>>

(* unbind_context, then ~execute_context_t: the coroutine is marked        *)
(* stopped and the address is added to the cancelled contexts.             *)
Destroy(c) == /\ c \in alive
              /\ DestroySleeping \/ timer[c] = "off"
              /\ alive' = alive \ {c}
              /\ handlers' = handlers \ {c}
              /\ cancelled' = cancelled \cup {c}
              /\ UNCHANGED <<queue, hasWakeUp, isExit, evfd, timer, ticker, inc, loopVars, posts, popped>>

CoDestroy(c) == pc = "run" /\ Destroy(c) /\ UNCHANGED wpc

(* stop_for: arm the context's timer and yield                             *)
CoSleep == /\ pc = "run" /\ ~Dead(cur)
           /\ timer' = [timer EXCEPT ![cur[1]] = "armed"]
           /\ NextEntry
           /\ UNCHANGED <<queue, cancelled, hasWakeUp, isExit, evfd, handlers, ticker, alive, inc, wpc, posts, popped>>

(* stop(), or the end of the coroutine's function                          *)
CoYield == /\ pc = "run"
           /\ NextEntry
           /\ UNCHANGED <<queue, cancelled, hasWakeUp, isExit, evfd, ctxVars, wpc, posts, popped>>

(* exit_all called by a coroutine                                          *)
CoExit == /\ pc = "run" /\ ~isExit
          /\ isExit' = TRUE /\ evfd' = TRUE
          /\ UNCHANGED <<queue, cancelled, hasWakeUp, ctxVars, loopVars, wpc, posts, popped>>

------------------------------------------------------------------------------
(* Another thread: start() or start_with() is add then wake_up; exit() sets *)
(* the flag then writes the eventfd; it may also unbind or destroy.         *)

WriterAdd(w, c) == /\ wpc[w] = "idle" /\ c \in alive
                   /\ Add(c)
                   /\ wpc' = [wpc EXCEPT ![w] = "test"]
                   /\ UNCHANGED <<cancelled, hasWakeUp, isExit, evfd, ctxVars, loopVars, popped>>

WriterTest(w) == /\ wpc[w] = "test"
                 /\ wpc' = [wpc EXCEPT ![w] = IF hasWakeUp THEN "set" ELSE "write"]
                 /\ UNCHANGED <<queue, cancelled, hasWakeUp, isExit, evfd, ctxVars, loopVars, posts, popped>>

WriterWrite(w) == /\ wpc[w] = "write"
                  /\ evfd' = TRUE
                  /\ wpc' = [wpc EXCEPT ![w] = "set"]
                  /\ UNCHANGED <<queue, cancelled, hasWakeUp, isExit, ctxVars, loopVars, posts, popped>>

WriterSet(w) == /\ wpc[w] = "set"
                /\ hasWakeUp' = TRUE
                /\ wpc' = [wpc EXCEPT ![w] = "idle"]
                /\ UNCHANGED <<queue, cancelled, isExit, evfd, ctxVars, loopVars, posts, popped>>

WriterExit(w) == /\ wpc[w] = "idle" /\ ~isExit
                 /\ isExit' = TRUE
                 /\ wpc' = [wpc EXCEPT ![w] = "exitWake"]
                 /\ UNCHANGED <<queue, cancelled, hasWakeUp, evfd, ctxVars, loopVars, posts, popped>>

(* Mutant: exit() calls wake_up, which has_wake_up can suppress.           *)
WriterExitSuppressed(w) == /\ wpc[w] = "exitWake"
                           /\ evfd' = (evfd \/ ~hasWakeUp)
                           /\ wpc' = [wpc EXCEPT ![w] = "idle"]
                           /\ UNCHANGED <<queue, cancelled, hasWakeUp, isExit, ctxVars, loopVars, posts, popped>>

WriterExitWake(w) == /\ wpc[w] = "exitWake"
                     /\ evfd' = TRUE
                     /\ wpc' = [wpc EXCEPT ![w] = "idle"]
                     /\ UNCHANGED <<queue, cancelled, hasWakeUp, isExit, ctxVars, loopVars, posts, popped>>

WriterUnbind(w, c) == /\ wpc[w] = "idle" /\ c \in handlers
                      /\ handlers' = handlers \ {c}
                      /\ UNCHANGED <<queue, cancelled, hasWakeUp, isExit, evfd, timer, ticker, alive, inc, loopVars, wpc, posts, popped>>

WriterDestroy(w, c) == /\ RemoteDestroy
                       /\ wpc[w] = "idle"
                       /\ Destroy(c)
                       /\ UNCHANGED wpc

(* Time passes and an armed timer comes due.                               *)
Elapse(c) == /\ timer[c] = "armed"
             /\ timer' = [timer EXCEPT ![c] = "due"]
             /\ UNCHANGED <<queue, cancelled, hasWakeUp, isExit, evfd, handlers, ticker, alive, inc, loopVars, wpc, posts, popped>>

------------------------------------------------------------------------------
Loop == \/ TestExit \/ TickDone \/ DispatchTest \/ DispatchPop \/ DispatchSkip
        \/ Resume \/ DispatchClear \/ RetestExit \/ ResetWakeUp
        \/ SelectWakeUp \/ SelectTimeout \/ Lookup \/ OnEvent
        \/ \E c \in Ctx : Tick(c) \/ SelectEvent(c)

Coroutine == \/ CoSleep \/ CoYield \/ CoExit
             \/ \E c \in Ctx : CoStart(c) \/ CoCreate(c) \/ CoDestroy(c)

WakeUp(w) == WriterTest(w) \/ WriterWrite(w) \/ WriterSet(w) \/ WriterExitWake(w)

Writer(w) == \/ WakeUp(w) \/ WriterExit(w)
             \/ \E c \in Ctx : WriterAdd(w, c) \/ WriterUnbind(w, c) \/ WriterDestroy(w, c)

Next == \/ Loop \/ Coroutine
        \/ \E w \in Writers : Writer(w)
        \/ \E c \in Ctx : Elapse(c)

Spec == Init /\ [][Next]_vars

(* The operating system keeps running the loop's thread and every thread   *)
(* inside wake_up or exit, and time passes. A coroutine gives control back *)
(* (the loop is cooperative); no thread need ever post or call exit.       *)
Fairness == /\ WF_vars(Loop) /\ WF_vars(CoYield)
            /\ \A w \in Writers : WF_vars(WakeUp(w))
            /\ \A c \in Ctx : WF_vars(Elapse(c))

FairSpec == Spec /\ Fairness
------------------------------------------------------------------------------
TypeOK ==
  /\ queue \in Seq(Entry)
  /\ cancelled \in SUBSET Ctx
  /\ hasWakeUp \in BOOLEAN /\ isExit \in BOOLEAN /\ evfd \in BOOLEAN
  /\ handlers \in SUBSET Ctx /\ alive \in SUBSET Ctx
  /\ timer \in [Ctx -> {"off", "armed", "due"}] /\ ticker \in BOOLEAN
  /\ inc \in [Ctx -> 0..MaxInc]
  /\ pc \in LoopPC /\ round \in {1, 2}
  /\ cur \in Entry \cup {NoEntry}
  /\ ev \in Ctx \cup {None}
  /\ wpc \in [Writers -> WriterPC]
  /\ posts \in 0..MaxPosts /\ popped \in Nat
  /\ posts = popped + Len(queue)      \* no entry is lost or taken twice

(* A loop asleep in the demultiplexer after exit() set the flag is about   *)
(* to be woken: event_loop_t::exit writes the eventfd whatever has_wake_up *)
(* says, and run tests is_exit once more after it computed the timeout, so *)
(* no interleaving of the two leaves the thread blocked.                   *)
NoLostExit ==
  isExit /\ pc = "select" => evfd \/ \E w \in Writers : wpc[w] = "exitWake"

(* The wake-up that start() promises ("wake up loop to execute coroutine", *)
(* execute_context.hpp:68): a loop asleep with work in its queue is about *)
(* to be woken by the thread that added it.                                *)
NoLostWakeUp ==
  pc = "select" /\ queue # <<>> =>
     \/ evfd
     \/ \E w \in Writers : wpc[w] = "write" \/ (wpc[w] = "test" /\ ~hasWakeUp)

(* dispatch() never resumes a context whose destructor has run: the        *)
(* cancelled set keeps it out until every entry it left in the queue is    *)
(* gone.                                                                   *)
DeadNeverResumed == [][pc = "check" /\ pc' = "run" => ~Dead(cur)]_vars

(* EventLoop implements Mailbox: the entry dispatch() holds and has not    *)
(* looked up yet is still pending. FIFO order, one resumption per post, no *)
(* destroyed context resumed, none skipped at an address nobody destroyed. *)
Box == INSTANCE Mailbox WITH
         Idle    <- NoEntry,
         pending <- IF pc = "check" THEN <<cur>> \o queue ELSE queue,
         active  <- IF pc = "run" THEN cur ELSE NoEntry,
         gone    <- {e \in Entry : e[2] <= inc[e[1]] /\ Dead(e)}
ImplementsMailbox == Box!Spec

(* Every entry ever added is taken by dispatch(), or the loop exits: the   *)
(* lost wake-up only delays it when some timer of the loop is always armed.*)
PostedIsTaken ==
  \A n \in 1..MaxPosts : ticker /\ posts >= n ~> (popped >= n \/ isExit)

(* exit() ends run(), with no timer armed and wherever the loop's thread   *)
(* and the other threads are.                                              *)
ExitStops == isExit ~> pc = "done"
==============================================================================
