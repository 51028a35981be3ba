--------------------------- MODULE EventLoop_proofs ---------------------------
(***************************************************************************)
(* Theorems about EventLoop, for every set of contexts and of threads and  *)
(* every value of the bounds.                                              *)
(***************************************************************************)
EXTENDS EventLoop, TLAPS

(* What the loop's thread knows where it is: only it takes from the queue, *)
(* so the queue it found non-empty still is when it pops.                  *)
LoopOK == /\ pc = "pop" => queue # <<>>
          /\ pc \in {"check", "run"} => cur \in Entry
          /\ pc \in {"lookup", "handle"} => ev \in Ctx

TypeInv == TypeOK /\ LoopOK

(* Adding an entry keeps the queue a sequence of entries and the account of*)
(* entries added and taken.                                                *)
LEMMA AddType ==
  ASSUME TypeOK, NEW c \in Ctx, Add(c)
  PROVE  /\ queue' \in Seq(Entry) /\ queue' # <<>>
         /\ posts' \in 0..MaxPosts
         /\ posts' = popped + Len(queue')
<1>1. EntryOf(c) \in Entry
  BY DEF TypeOK, EntryOf, Entry
<1>2. queue' \in Seq(Entry) /\ queue' # <<>> /\ Len(queue') = Len(queue) + 1
  BY <1>1 DEF Add, TypeOK
<1>3. QED
  BY <1>2, BoundsAssumption DEF Add, TypeOK

(* Every action of the loop, its coroutines and the other threads keeps    *)
(* the variables in their types, and the queue's length is the number of   *)
(* entries added and not taken.                                            *)
LEMMA TypeInvInductive == Spec => []TypeInv
<1> USE BoundsAssumption, NoneAssumption DEF TypeInv, TypeOK, LoopOK, LoopPC, WriterPC
<1>1. Init => TypeInv
  <2> SUFFICES ASSUME Init PROVE TypeInv
    OBVIOUS
  <2>1. queue \in Seq(Entry) /\ Len(queue) = 0
    BY DEF Init
  <2>2. /\ inc \in [Ctx -> 0..MaxInc]
        /\ timer \in [Ctx -> {"off", "armed", "due"}]
        /\ wpc \in [Writers -> WriterPC]
    BY DEF Init
  <2>3. cur \in Entry \cup {NoEntry}
    BY DEF Init
  <2>4. posts \in 0..MaxPosts /\ popped \in Nat /\ posts = popped + Len(queue)
    BY <2>1 DEF Init
  <2>5. TypeOK
    BY <2>1, <2>2, <2>3, <2>4 DEF Init
  <2>6. QED
    BY <2>5 DEF Init
<1>2. TypeInv /\ [Next]_vars => TypeInv'
  <2> SUFFICES ASSUME TypeInv, [Next]_vars PROVE TypeInv'
    OBVIOUS
  <2> USE DEF Goto, NextEntry, ctxVars, loopVars
  <2>1. CASE TestExit  BY <2>1 DEF TestExit
  <2>2. CASE TickDone  BY <2>2 DEF TickDone
  <2>3. CASE DispatchTest  BY <2>3 DEF DispatchTest
  <2>4. CASE DispatchPop
    <3>1. queue # <<>> /\ queue \in Seq(Entry)
      BY <2>4 DEF DispatchPop
    <3>2. /\ Head(queue) \in Entry /\ Tail(queue) \in Seq(Entry)
          /\ Len(queue) = Len(Tail(queue)) + 1 /\ Len(Tail(queue)) \in Nat
      BY <3>1
    <3>3. /\ cur' = Head(queue) /\ queue' = Tail(queue) /\ popped' = popped + 1 /\ pc' = "check"
          /\ UNCHANGED <<cancelled, hasWakeUp, isExit, evfd, ctxVars, round, ev, wpc, posts>>
      BY <2>4 DEF DispatchPop
    <3>4. popped' \in Nat /\ posts' = popped' + Len(queue')
      BY <3>2, <3>3
    <3>5. QED
      BY <3>2, <3>3, <3>4
  <2>5. CASE DispatchSkip  BY <2>5 DEF DispatchSkip
  <2>6. CASE Resume  BY <2>6 DEF Resume
  <2>7. CASE DispatchClear  BY <2>7 DEF DispatchClear
  <2>8. CASE RetestExit  BY <2>8 DEF RetestExit
  <2>9. CASE ResetWakeUp  BY <2>9 DEF ResetWakeUp
  <2>10. CASE SelectWakeUp  BY <2>10 DEF SelectWakeUp
  <2>11. CASE SelectTimeout  BY <2>11 DEF SelectTimeout
  <2>12. CASE Lookup  BY <2>12 DEF Lookup
  <2>13. CASE OnEvent
    <3>1. CASE Add(ev)
      BY <2>13, <3>1, AddType DEF OnEvent
    <3>2. CASE posts = MaxPosts /\ UNCHANGED <<queue, posts>>
      BY <2>13, <3>2 DEF OnEvent
    <3>3. QED
      BY <2>13, <3>1, <3>2 DEF OnEvent
  <2>14. ASSUME NEW c \in Ctx, Tick(c) PROVE TypeInv'
    BY <2>14, AddType DEF Tick
  <2>15. ASSUME NEW c \in Ctx, SelectEvent(c) PROVE TypeInv'
    BY <2>15 DEF SelectEvent
  <2>16. CASE CoSleep
    <3>1. timer' \in [Ctx -> {"off", "armed", "due"}]
      BY <2>16 DEF CoSleep
    <3>2. QED
      BY <2>16, <3>1 DEF CoSleep
  <2>17. CASE CoYield  BY <2>17 DEF CoYield
  <2>18. CASE CoExit  BY <2>18 DEF CoExit
  <2>19. ASSUME NEW c \in Ctx, CoStart(c) PROVE TypeInv'
    BY <2>19, AddType DEF CoStart
  <2>20. ASSUME NEW c \in Ctx, CoCreate(c) PROVE TypeInv'
    <3>1. inc[c] + 1 \in 0..MaxInc
      BY <2>20 DEF CoCreate
    <3>2. <<c, inc[c] + 1>> \in Entry
      BY <3>1 DEF Entry
    <3>3. queue' = Append(queue, <<c, inc[c] + 1>>)
      BY <2>20 DEF CoCreate
    <3>4. queue' \in Seq(Entry) /\ Len(queue') = Len(queue) + 1 /\ queue' # <<>>
      BY <3>2, <3>3
    <3>5. inc' \in [Ctx -> 0..MaxInc]
      BY <2>20, <3>1 DEF CoCreate
    <3>6. QED
      BY <2>20, <3>4, <3>5 DEF CoCreate
  <2>21. ASSUME NEW c \in Ctx, Destroy(c), UNCHANGED wpc PROVE TypeInv'
    BY <2>21 DEF Destroy
  <2>22. ASSUME NEW w \in Writers, WakeUp(w) \/ WriterExit(w) PROVE TypeInv'
    <3>1. wpc' \in [Writers -> WriterPC]
      BY <2>22 DEF WakeUp, WriterTest, WriterWrite, WriterSet, WriterExit, WriterExitWake
    <3>2. /\ UNCHANGED <<queue, cancelled, handlers, timer, ticker, alive, inc, pc, round, cur, ev, posts, popped>>
          /\ hasWakeUp' \in BOOLEAN /\ isExit' \in BOOLEAN /\ evfd' \in BOOLEAN
      BY <2>22 DEF WakeUp, WriterTest, WriterWrite, WriterSet, WriterExit, WriterExitWake
    <3>3. QED
      BY <3>1, <3>2
  <2>23. ASSUME NEW w \in Writers, NEW c \in Ctx, WriterAdd(w, c) PROVE TypeInv'
    <3>1. /\ queue' \in Seq(Entry) /\ queue' # <<>>
          /\ posts' \in 0..MaxPosts /\ posts' = popped' + Len(queue')
      BY <2>23, AddType DEF WriterAdd
    <3>2. wpc' \in [Writers -> WriterPC]
      BY <2>23 DEF WriterAdd
    <3>3. QED
      BY <2>23, <3>1, <3>2 DEF WriterAdd
  <2>24. ASSUME NEW w \in Writers, NEW c \in Ctx, WriterUnbind(w, c) PROVE TypeInv'
    BY <2>24 DEF WriterUnbind
  <2>25. ASSUME NEW c \in Ctx, Elapse(c) PROVE TypeInv'
    BY <2>25 DEF Elapse
  <2>26. CASE UNCHANGED vars  BY <2>26 DEF vars
  <2>27. CASE Loop
    BY <2>27, <2>1, <2>2, <2>3, <2>4, <2>5, <2>6, <2>7, <2>8, <2>9, <2>10, <2>11, <2>12,
       <2>13, <2>14, <2>15 DEF Loop
  <2>28. CASE Coroutine
    BY <2>28, <2>16, <2>17, <2>18, <2>19, <2>20, <2>21 DEF Coroutine, CoDestroy
  <2>29. ASSUME NEW w \in Writers, Writer(w) PROVE TypeInv'
    BY <2>29, <2>21, <2>22, <2>23, <2>24 DEF Writer, WriterDestroy
  <2>30. QED
    BY <2>25, <2>26, <2>27, <2>28, <2>29 DEF Next
<1>3. QED
  BY <1>1, <1>2, PTL DEF Spec

(* The type invariant of EventLoop (TypeOK): no entry of the queue is lost *)
(* or taken twice by dispatch() and the threads that add to it.            *)
THEOREM TypeCorrect == Spec => []TypeOK
<1>1. TypeInv => TypeOK
  BY DEF TypeInv
<1>2. QED
  BY <1>1, TypeInvInductive, PTL

------------------------------------------------------------------------------
(* The flag is tested again after the timeout is computed, so from there   *)
(* to the demultiplexer a set flag has its eventfd write done or due.      *)
ExitInv == isExit /\ pc \in {"reset", "select"} =>
             evfd \/ \E w \in Writers : wpc[w] = "exitWake"

(* Another thread sets the flag only with its write of the eventfd due,    *)
(* and stops owing the write by making it.                                 *)
LEMMA WriterKeepsExit ==
  ASSUME TypeInv, ExitInv, NEW w \in Writers, Writer(w)
  PROVE  ExitInv'
<1> USE DEF ExitInv, loopVars
<1>1. wpc \in [Writers -> WriterPC]
  BY DEF TypeInv, TypeOK
<1>2. CASE WakeUp(w)
  BY <1>1, <1>2 DEF WakeUp, WriterTest, WriterWrite, WriterSet, WriterExitWake
<1>3. CASE WriterExit(w)
  BY <1>1, <1>3 DEF WriterExit
<1>4. ASSUME NEW c \in Ctx, WriterAdd(w, c) PROVE ExitInv'
  <2>1. \A v \in Writers : wpc[v] = "exitWake" => wpc'[v] = "exitWake"
    BY <1>1, <1>4 DEF WriterAdd
  <2>2. QED
    BY <1>4, <2>1 DEF WriterAdd
<1>5. ASSUME NEW c \in Ctx, WriterUnbind(w, c) \/ WriterDestroy(w, c) PROVE ExitInv'
  BY <1>5 DEF WriterUnbind, WriterDestroy, Destroy
<1>6. QED
  BY <1>2, <1>3, <1>4, <1>5 DEF Writer

(* exit() is never lost on a loop that is about to sleep (NoLostExit),     *)
(* whatever the other threads do in between.                               *)
THEOREM ExitNeverLost == Spec => []NoLostExit
<1>1. Init => ExitInv
  BY DEF Init, ExitInv
<1>2. TypeInv /\ ExitInv /\ [Next]_vars => ExitInv'
  <2> SUFFICES ASSUME TypeInv, ExitInv, [Next]_vars PROVE ExitInv'
    OBVIOUS
  <2> USE DEF ExitInv, Goto, NextEntry, loopVars
  <2>1. CASE Loop
    BY <2>1 DEF Loop, TestExit, TickDone, DispatchTest, DispatchPop, DispatchSkip, Resume,
       DispatchClear, RetestExit, ResetWakeUp, SelectWakeUp, SelectTimeout, Lookup, OnEvent,
       Tick, SelectEvent
  <2>2. CASE Coroutine
    BY <2>2 DEF Coroutine, CoSleep, CoYield, CoExit, CoStart, CoCreate, CoDestroy, Destroy
  <2>3. CASE \E w \in Writers : Writer(w)
    BY <2>3, WriterKeepsExit
  <2>4. CASE UNCHANGED <<isExit, pc, evfd, wpc>>
    BY <2>4
  <2> QED BY <2>1, <2>2, <2>3, <2>4 DEF Next, Elapse, vars
<1>3. ExitInv => NoLostExit
  BY DEF ExitInv, NoLostExit
<1>4. QED
  BY <1>1, <1>2, <1>3, TypeInvInductive, PTL DEF Spec

------------------------------------------------------------------------------
(* What cancellation rests on. Contexts die only in a coroutine, between   *)
(* two tests of the queue, and dispatch() clears the cancelled set only    *)
(* when it found the queue empty: every entry of a dead context is in the  *)
(* queue together with its address in the cancelled set. A dead context    *)
(* has neither an armed timer nor a handler that could add an entry.       *)
Dispatching == pc \in {"empty", "pop", "check", "run"}

CancelInv ==
  /\ \A c \in Ctx : timer[c] # "off" => c \in alive
  /\ handlers \subseteq alive
  /\ pc = "handle" => ev \in alive
  /\ pc = "check" /\ Dead(cur) => cur[1] \in cancelled
  /\ \A i \in 1..Len(queue) : Dead(queue[i]) => Dispatching /\ queue[i][1] \in cancelled

(* Adding the entry of a live context keeps the queue's part of CancelInv. *)
LEMMA AddLive ==
  ASSUME TypeInv, CancelInv, NEW c \in alive, Add(c),
         UNCHANGED <<alive, inc, cancelled>>,
         Dispatching => Dispatching'
  PROVE  \A i \in 1..Len(queue') :
            Dead(queue[i])' => Dispatching' /\ queue'[i][1] \in cancelled'
<1> USE DEF TypeInv, TypeOK
<1>1. ~Dead(EntryOf(c))
  BY DEF Dead, EntryOf
<1>2. /\ queue' = Append(queue, EntryOf(c))
      /\ Len(queue') = Len(queue) + 1
      /\ Len(queue) \in Nat
  BY DEF Add
<1>3. /\ \A i \in 1..Len(queue) : queue'[i] = queue[i]
      /\ queue'[Len(queue) + 1] = EntryOf(c)
  BY <1>2
<1>4. SUFFICES ASSUME NEW i \in 1..Len(queue'), Dead(queue[i])'
               PROVE  Dispatching' /\ queue'[i][1] \in cancelled'
  OBVIOUS
<1>5. Dead(queue'[i])
  BY <1>4 DEF Dead
<1>6. i \in 1..Len(queue) /\ queue'[i] = queue[i]
  BY <1>1, <1>2, <1>3, <1>4, <1>5
<1>7. Dead(queue[i]) => Dispatching /\ queue[i][1] \in cancelled
  BY <1>6 DEF CancelInv
<1>8. QED
  BY <1>5, <1>6, <1>7

(* When other threads destroy no contexts and none is destroyed asleep,    *)
(* every step keeps CancelInv.                                             *)
LEMMA CancelInvInductive ==
  ASSUME ~RemoteDestroy, ~DestroySleeping
  PROVE  Spec => []CancelInv
<1>1. Init => CancelInv
  BY DEF Init, CancelInv
<1>2. TypeInv /\ CancelInv /\ [Next]_vars => CancelInv'
  <2> SUFFICES ASSUME TypeInv, CancelInv, [Next]_vars PROVE CancelInv'
    OBVIOUS
  <2> USE DEF TypeInv, Goto, NextEntry, loopVars, ctxVars
  <2> DEFINE QueueOK == \A i \in 1..Len(queue) :
                          Dead(queue[i]) => Dispatching /\ queue[i][1] \in cancelled
  <2>a. /\ QueueOK
        /\ handlers \subseteq alive
        /\ \A c \in Ctx : timer[c] # "off" => c \in alive
    BY DEF CancelInv
  <2>b. ASSUME UNCHANGED <<queue, cancelled, alive, inc>>, Dispatching => Dispatching'
        PROVE  QueueOK'
    BY <2>a, <2>b DEF Dead
  <2>1. CASE TestExit \/ TickDone \/ RetestExit \/ ResetWakeUp \/ SelectWakeUp \/ SelectTimeout
    <3>1. QueueOK'
      BY <2>1, <2>b DEF TestExit, TickDone, RetestExit, ResetWakeUp, SelectWakeUp, SelectTimeout, Dispatching
    <3>2. QED
      BY <2>1, <2>a, <3>1 DEF TestExit, TickDone, RetestExit, ResetWakeUp, SelectWakeUp,
         SelectTimeout, CancelInv
  <2>2. CASE DispatchTest
    <3>1. QueueOK'
      <4>1. CASE queue = <<>>
        BY <2>2, <4>1 DEF DispatchTest
      <4>2. CASE queue # <<>>
        BY <2>2, <4>2, <2>b DEF DispatchTest, Dispatching
      <4>3. QED
        BY <4>1, <4>2
    <3>2. QED
      BY <2>2, <2>a, <3>1 DEF DispatchTest, CancelInv
  <2>3. CASE DispatchPop
    <3>1. /\ queue # <<>> /\ queue \in Seq(Entry)
          /\ cur' = queue[1] /\ queue' = Tail(queue)
      BY <2>3 DEF DispatchPop, LoopOK, TypeOK
    <3>2. Len(queue') = Len(queue) - 1 /\ \A i \in 1..Len(queue') : queue'[i] = queue[i + 1]
      BY <3>1
    <3>3. 1 \in 1..Len(queue) /\ \A i \in 1..Len(queue') : i + 1 \in 1..Len(queue)
      BY <3>1, <3>2
    <3>4. QueueOK'
      BY <2>3, <2>a, <3>2, <3>3 DEF DispatchPop, Dead, Dispatching
    <3>5. pc' = "check" /\ (Dead(cur)' => cur'[1] \in cancelled')
      BY <2>3, <2>a, <3>1, <3>3 DEF DispatchPop, Dead
    <3>6. QED
      BY <2>3, <2>a, <3>4, <3>5 DEF DispatchPop, CancelInv
  <2>4. CASE DispatchSkip
    <3>1. QueueOK'
      BY <2>4, <2>b DEF DispatchSkip, Dispatching
    <3>2. QED
      BY <2>4, <2>a, <3>1 DEF DispatchSkip, CancelInv
  <2>5. CASE Resume
    <3>1. QueueOK'
      BY <2>5, <2>b DEF Resume, Dispatching
    <3>2. \A c \in Ctx : timer'[c] # "off" => timer[c] # "off"
      BY <2>5 DEF Resume, TypeOK
    <3>3. QED
      BY <2>5, <2>a, <3>1, <3>2 DEF Resume, CancelInv
  <2>6. CASE DispatchClear
    <3>1. \A i \in 1..Len(queue) : ~Dead(queue[i])
      BY <2>6, <2>a DEF DispatchClear, Dispatching
    <3>2. QueueOK'
      BY <2>6, <3>1 DEF DispatchClear, Dead
    <3>3. QED
      BY <2>6, <2>a, <3>2 DEF DispatchClear, CancelInv
  <2>7. CASE Lookup
    <3>1. QueueOK'
      BY <2>7, <2>b DEF Lookup, Dispatching
    <3>2. QED
      BY <2>7, <2>a, <3>1 DEF Lookup, CancelInv
  <2>8. CASE OnEvent
    <3>1. ev \in alive
      BY <2>8 DEF OnEvent, CancelInv
    <3>2. QueueOK'
      <4>1. CASE Add(ev)
        BY <2>8, <4>1, <3>1, AddLive DEF OnEvent, Dispatching
      <4>2. CASE UNCHANGED <<queue, posts>>
        BY <2>8, <4>2, <2>b DEF OnEvent, Dispatching
      <4>3. QED
        BY <2>8, <4>1, <4>2 DEF OnEvent
    <3>3. QED
      BY <2>8, <2>a, <3>2 DEF OnEvent, CancelInv
  <2>9. ASSUME NEW c \in Ctx, Tick(c) PROVE CancelInv'
    <3>1. c \in alive
      BY <2>9, <2>a DEF Tick
    <3>2. QueueOK'
      BY <2>9, <3>1, AddLive DEF Tick, Dispatching
    <3>3. \A d \in Ctx : timer'[d] # "off" => timer[d] # "off"
      BY <2>9 DEF Tick, TypeOK
    <3>4. QED
      BY <2>9, <2>a, <3>2, <3>3 DEF Tick, CancelInv
  <2>10. ASSUME NEW c \in Ctx, SelectEvent(c) PROVE CancelInv'
    <3>1. QueueOK'
      BY <2>10, <2>b DEF SelectEvent, Dispatching
    <3>2. QED
      BY <2>10, <2>a, <3>1 DEF SelectEvent, CancelInv
  <2>11. CASE CoSleep
    <3>1. QueueOK'
      BY <2>11, <2>b DEF CoSleep, Dispatching
    <3>2. cur[1] \in alive
      BY <2>11 DEF CoSleep, Dead
    <3>3. \A c \in Ctx : timer'[c] # "off" => timer[c] # "off" \/ c = cur[1]
      BY <2>11 DEF CoSleep, TypeOK
    <3>4. QED
      BY <2>11, <2>a, <3>1, <3>2, <3>3 DEF CoSleep, CancelInv
  <2>12. CASE CoYield
    <3>1. QueueOK'
      BY <2>12, <2>b DEF CoYield, Dispatching
    <3>2. QED
      BY <2>12, <2>a, <3>1 DEF CoYield, CancelInv
  <2>13. CASE CoExit
    <3>1. QueueOK'
      BY <2>13, <2>b DEF CoExit, Dispatching
    <3>2. QED
      BY <2>13, <2>a, <3>1 DEF CoExit, CancelInv
  <2>14. ASSUME NEW c \in Ctx, CoStart(c) PROVE CancelInv'
    <3>1. QueueOK'
      BY <2>14, AddLive DEF CoStart, Dispatching
    <3>2. QED
      BY <2>14, <2>a, <3>1 DEF CoStart, CancelInv
  <2>15. ASSUME NEW c \in Ctx, CoCreate(c) PROVE CancelInv'
    <3>1. /\ queue' = Append(queue, <<c, inc[c] + 1>>)
          /\ Len(queue') = Len(queue) + 1 /\ Len(queue) \in Nat
          /\ inc' = [inc EXCEPT ![c] = inc[c] + 1] /\ inc \in [Ctx -> 0..MaxInc]
          /\ alive' = alive \cup {c}
      BY <2>15 DEF CoCreate, TypeOK
    <3>2. /\ \A i \in 1..Len(queue) : queue'[i] = queue[i] /\ queue[i] \in Entry
          /\ queue'[Len(queue) + 1] = <<c, inc[c] + 1>>
      BY <3>1 DEF TypeOK
    <3>3. \A i \in 1..Len(queue) : Dead(queue[i])' => Dead(queue[i])
      <4>1. SUFFICES ASSUME NEW i \in 1..Len(queue), ~Dead(queue[i]) PROVE ~Dead(queue[i])'
        BY <3>2
      <4>2. queue[i][1] \in alive /\ queue[i][2] = inc[queue[i][1]] /\ queue[i][1] \in Ctx
        BY <4>1, <3>2 DEF Dead, Entry
      <4>3. queue[i][1] # c
        BY <4>2, <2>15 DEF CoCreate
      <4>4. queue'[i] = queue[i] /\ inc'[queue[i][1]] = inc[queue[i][1]]
        BY <3>1, <3>2, <4>2, <4>3
      <4>5. QED
        BY <3>1, <4>2, <4>4 DEF Dead
    <3>4. \A i \in 1..Len(queue') : i = Len(queue) + 1 => ~Dead(queue[i])'
      BY <3>1, <3>2 DEF Dead
    <3>5. QueueOK'
      BY <2>15, <2>a, <3>1, <3>2, <3>3, <3>4 DEF CoCreate, Dispatching
    <3>6. QED
      BY <2>15, <2>a, <3>5 DEF CoCreate, CancelInv
  <2>16. ASSUME NEW c \in Ctx, CoDestroy(c) PROVE CancelInv'
    <3>1. timer[c] = "off"
      BY <2>16 DEF CoDestroy, Destroy
    <3>2. \A i \in 1..Len(queue) : Dead(queue[i])' => Dead(queue[i]) \/ queue[i][1] = c
      BY <2>16 DEF CoDestroy, Destroy, Dead
    <3>3. QueueOK'
      BY <2>16, <2>a, <3>2 DEF CoDestroy, Destroy, Dispatching
    <3>4. QED
      BY <2>16, <2>a, <3>1, <3>3 DEF CoDestroy, Destroy, CancelInv
  <2>17. ASSUME NEW w \in Writers, WakeUp(w) \/ WriterExit(w) PROVE CancelInv'
    <3>1. QueueOK'
      BY <2>17, <2>b DEF WakeUp, WriterTest, WriterWrite, WriterSet, WriterExit, WriterExitWake,
         Dispatching
    <3>2. UNCHANGED <<timer, alive, handlers, inc, pc, ev, cur, cancelled>>
      BY <2>17 DEF WakeUp, WriterTest, WriterWrite, WriterSet, WriterExit, WriterExitWake
    <3>3. QED
      BY <2>a, <3>1, <3>2 DEF CancelInv, Dead
  <2>18. ASSUME NEW w \in Writers, NEW c \in Ctx, WriterAdd(w, c) PROVE CancelInv'
    <3>1. QueueOK'
      BY <2>18, AddLive DEF WriterAdd, Dispatching
    <3>2. QED
      BY <2>18, <2>a, <3>1 DEF WriterAdd, CancelInv, Dead
  <2>19. ASSUME NEW w \in Writers, NEW c \in Ctx, WriterUnbind(w, c) PROVE CancelInv'
    <3>1. QueueOK'
      BY <2>19, <2>b DEF WriterUnbind, Dispatching
    <3>2. QED
      BY <2>19, <2>a, <3>1 DEF WriterUnbind, CancelInv, Dead
  <2>20. ASSUME NEW c \in Ctx, Elapse(c) PROVE CancelInv'
    <3>1. QueueOK'
      BY <2>20, <2>b DEF Elapse, Dispatching
    <3>2. \A d \in Ctx : timer'[d] # "off" => timer[d] # "off"
      BY <2>20 DEF Elapse, TypeOK
    <3>3. QED
      BY <2>20, <2>a, <3>1, <3>2 DEF Elapse, CancelInv, Dead
  <2>21. CASE UNCHANGED vars
    BY <2>21 DEF vars, CancelInv, Dead, Dispatching
  <2>22. CASE Loop
    BY <2>22, <2>1, <2>2, <2>3, <2>4, <2>5, <2>6, <2>7, <2>8, <2>9, <2>10 DEF Loop
  <2>23. CASE Coroutine
    BY <2>23, <2>11, <2>12, <2>13, <2>14, <2>15, <2>16 DEF Coroutine
  <2>24. ASSUME NEW w \in Writers, Writer(w) PROVE CancelInv'
    BY <2>24, <2>17, <2>18, <2>19 DEF Writer, WriterDestroy
  <2>25. QED
    BY <2>20, <2>21, <2>22, <2>23, <2>24 DEF Next
<1>3. QED
  BY <1>1, <1>2, TypeInvInductive, PTL DEF Spec

(* Cancellation is safe, whatever addresses are reused: dispatch() resumes *)
(* no context whose destructor has run.                                    *)
THEOREM CancellationSafe ==
  ASSUME ~RemoteDestroy, ~DestroySleeping
  PROVE  Spec => DeadNeverResumed
<1>1. CancelInv /\ [Next]_vars => [pc = "check" /\ pc' = "run" => ~Dead(cur)]_vars
  <2> SUFFICES ASSUME CancelInv, Next, pc = "check", pc' = "run" PROVE ~Dead(cur)
    OBVIOUS
  <2>1. cur[1] \notin cancelled
    BY DEF Next, Loop, Coroutine, Writer, WakeUp, TestExit, TickDone, DispatchTest, DispatchPop,
       DispatchSkip, Resume, DispatchClear, RetestExit, ResetWakeUp, SelectWakeUp, SelectTimeout,
       Lookup, OnEvent, Tick, SelectEvent, CoSleep, CoYield, CoExit, CoStart, CoCreate, CoDestroy,
       Destroy, WriterTest, WriterWrite, WriterSet, WriterExitWake, WriterExit, WriterAdd,
       WriterUnbind, WriterDestroy, Elapse, Goto, NextEntry, loopVars
  <2>2. QED
    BY <2>1 DEF CancelInv
<1>2. QED
  BY <1>1, CancelInvInductive, PTL DEF Spec, DeadNeverResumed

------------------------------------------------------------------------------
(* An address in the cancelled set is one whose context died: nobody has  *)
(* it now, or a later life.                                                *)
CancelledDied == \A c \in cancelled : c \notin alive \/ inc[c] > 0

LEMMA CancelledDiedInductive == Spec => []CancelledDied
<1>1. Init => CancelledDied
  BY DEF Init, CancelledDied
<1>2. TypeInv /\ CancelledDied /\ [Next]_vars => CancelledDied'
  <2> SUFFICES ASSUME TypeInv, CancelledDied, [Next]_vars PROVE CancelledDied'
    OBVIOUS
  <2>1. ASSUME NEW c \in Ctx, Destroy(c) PROVE CancelledDied'
    BY <2>1 DEF Destroy, CancelledDied
  <2>2. ASSUME NEW c \in Ctx, CoCreate(c) PROVE CancelledDied'
    <3>1. inc' = [inc EXCEPT ![c] = inc[c] + 1] /\ inc \in [Ctx -> 0..MaxInc]
          /\ cancelled' = cancelled /\ alive' = alive \cup {c} /\ cancelled \subseteq Ctx
      BY <2>2 DEF CoCreate, TypeInv, TypeOK
    <3>2. inc[c] \in Nat /\ inc'[c] = inc[c] + 1
      BY <3>1
    <3>3. \A d \in Ctx : d # c => inc'[d] = inc[d]
      BY <3>1
    <3>4. QED
      BY <3>1, <3>2, <3>3 DEF CancelledDied
  <2>3. CASE UNCHANGED <<cancelled, alive, inc>>
    BY <2>3 DEF CancelledDied
  <2>4. CASE cancelled' = {}
    BY <2>4 DEF CancelledDied
  <2>5. \/ \E c \in Ctx : Destroy(c) \/ CoCreate(c)
        \/ UNCHANGED <<cancelled, alive, inc>>
        \/ cancelled' = {}
    BY DEF Next, Loop, Coroutine, Writer, WakeUp, TestExit, TickDone, DispatchTest, DispatchPop,
       DispatchSkip, Resume, DispatchClear, RetestExit, ResetWakeUp, SelectWakeUp, SelectTimeout,
       Lookup, OnEvent, Tick, SelectEvent, CoSleep, CoYield, CoExit, CoStart, CoDestroy,
       WriterTest, WriterWrite, WriterSet, WriterExitWake, WriterExit, WriterAdd, WriterUnbind,
       WriterDestroy, Elapse, ctxVars, vars
  <2> QED
    BY <2>1, <2>2, <2>3, <2>4, <2>5
<1>3. QED
  BY <1>1, <1>2, TypeInvInductive, PTL DEF Spec

(* The mailbox an event loop stands for.                                   *)
Pending == IF pc = "check" THEN <<cur>> \o queue ELSE queue
Active  == IF pc = "run" THEN cur ELSE NoEntry
Gone    == {e \in Entry : e[2] <= inc[e[1]] /\ Dead(e)}

(* Adding the entry of a live context is a Post of the mailbox.            *)
LEMMA AddIsPost ==
  ASSUME TypeInv, NEW c \in alive, Add(c), UNCHANGED <<alive, inc>>,
         pc = "check" => UNCHANGED cur,
         Active' = Active,
         pc' = "check" <=> pc = "check"
  PROVE  \E e \in Entry : Box!Post(e)
<1>1. EntryOf(c) \in Entry /\ ~Dead(EntryOf(c))
  BY DEF TypeInv, TypeOK, EntryOf, Entry, Dead
<1>2. Gone' = Gone
  BY DEF Gone, Dead
<1>3. Pending' = Append(Pending, EntryOf(c))
  <2>1. queue' = Append(queue, EntryOf(c)) /\ queue \in Seq(Entry)
    BY DEF Add, TypeInv, TypeOK
  <2>2. CASE pc = "check"
    <3>1. cur \in Entry
      BY <2>2 DEF TypeInv, LoopOK
    <3>2. <<cur>> \o Append(queue, EntryOf(c)) = Append(<<cur>> \o queue, EntryOf(c))
      BY <2>1, <3>1, <1>1
    <3>3. QED
      BY <2>1, <2>2, <3>2 DEF Pending
  <2>3. CASE pc # "check"
    BY <2>1, <2>3 DEF Pending
  <2>4. QED
    BY <2>2, <2>3
<1>4. EntryOf(c) \notin Gone
  BY <1>1 DEF Gone
<1>5. Box!Post(EntryOf(c))
  BY <1>2, <1>3, <1>4 DEF Box!Post, Pending, Gone, Active
<1>6. QED
  BY <1>1, <1>5

(* An event loop whose contexts are destroyed only by its own coroutines,  *)
(* and awake, implements Mailbox, whatever addresses are reused.           *)
THEOREM EventLoopImplementsMailbox ==
  ASSUME ~RemoteDestroy, ~DestroySleeping
  PROVE  Spec => ImplementsMailbox
<1> USE DEF Goto, NextEntry, loopVars, ctxVars
<1>1. Init => Box!Init
  <2> SUFFICES ASSUME Init PROVE Pending = <<>> /\ Active = NoEntry /\ Gone = {}
    BY DEF Box!Init, Pending, Active, Gone
  <2>1. \A e \in Entry : ~Dead(e) \/ ~(e[2] <= inc[e[1]])
    BY DEF Init, Dead, Entry
  <2>2. QED
    BY <2>1 DEF Init, Pending, Active, Gone
<1>2. ASSUME TypeInv, CancelInv, CancelledDied, [Next]_vars
      PROVE  [Box!Next]_(Box!mvars)
  <2> USE <1>2 DEF TypeInv
  <2>s. ASSUME Pending' = Pending, Active' = Active, UNCHANGED <<alive, inc>>
        PROVE  UNCHANGED Box!mvars
    <3>1. Gone' = Gone
      BY <2>s DEF Gone, Dead
    <3>2. QED
      BY <2>s, <3>1 DEF Box!mvars, Pending, Active, Gone
  <2>p. ASSUME NEW c \in alive, Add(c), UNCHANGED <<alive, inc>>, pc = "check" => UNCHANGED cur,
               Active' = Active, pc' = "check" <=> pc = "check"
        PROVE  Box!Next
    BY <2>p, AddIsPost DEF Box!Next
  <2>1. CASE \/ TestExit \/ TickDone \/ DispatchTest \/ DispatchClear \/ RetestExit
             \/ ResetWakeUp \/ SelectWakeUp \/ SelectTimeout \/ Lookup
    BY <2>1, <2>s DEF TestExit, TickDone, DispatchTest, DispatchClear, RetestExit, ResetWakeUp,
       SelectWakeUp, SelectTimeout, Lookup, Pending, Active
  <2>2. CASE DispatchPop
    <3>1. queue # <<>> /\ queue \in Seq(Entry)
      BY <2>2 DEF DispatchPop, LoopOK, TypeOK
    <3>2. <<Head(queue)>> \o Tail(queue) = queue
      BY <3>1
    <3>3. QED
      BY <2>2, <2>s, <3>2 DEF DispatchPop, Pending, Active
  <2>3. CASE DispatchSkip \/ Resume
    <3>1. cur \in Entry /\ queue \in Seq(Entry) /\ pc = "check"
      BY <2>3 DEF DispatchSkip, Resume, LoopOK, TypeOK
    <3>2. cur[1] \in Ctx /\ inc[cur[1]] \in 0..MaxInc
      BY <3>1 DEF Entry, TypeOK
    <3>3. Pending = <<cur>> \o queue /\ Active = NoEntry
      BY <3>1 DEF Pending, Active
    <3>4. Pending # <<>> /\ Head(Pending) = cur /\ Tail(Pending) = queue
      BY <3>1, <3>3
    <3>5. Gone' = Gone
      BY <2>3 DEF DispatchSkip, Resume, Gone, Dead
    <3>6. CASE DispatchSkip
      <4>1. \E e \in Gone : Box!Address(e) = cur[1]
        <5>1. cur[1] \notin alive \/ inc[cur[1]] > 0
          BY <3>6 DEF DispatchSkip, CancelledDied
        <5>2. CASE cur[1] \notin alive
          <6>1. <<cur[1], inc[cur[1]]>> \in Gone
            BY <3>2, <5>2 DEF Gone, Entry, Dead
          <6>2. QED
            BY <6>1 DEF Box!Address
        <5>3. CASE inc[cur[1]] > 0
          <6>1. <<cur[1], 0>> \in Gone
            BY <3>2, <5>3, BoundsAssumption DEF Gone, Entry, Dead
          <6>2. QED
            BY <6>1 DEF Box!Address
        <5>4. QED
          BY <5>1, <5>2, <5>3
      <4>2. Pending' = queue /\ Active' = NoEntry
        BY <3>6 DEF DispatchSkip, Pending, Active
      <4>3. Box!Skip
        BY <3>3, <3>4, <3>5, <4>1, <4>2 DEF Box!Skip, Box!Address, Pending, Active, Gone
      <4>4. QED
        BY <4>3 DEF Box!Next
    <3>7. CASE Resume
      <4>1. cur \notin Gone
        BY <3>1, <3>7 DEF Resume, CancelInv, Gone
      <4>2. Pending' = queue /\ Active' = cur
        BY <3>7 DEF Resume, Pending, Active
      <4>3. Box!Resume
        BY <3>3, <3>4, <3>5, <4>1, <4>2 DEF Box!Resume, Pending, Active, Gone
      <4>4. QED
        BY <4>3 DEF Box!Next
    <3>8. QED
      BY <2>3, <3>6, <3>7
  <2>4. CASE OnEvent
    <3>1. ev \in alive
      BY <2>4 DEF OnEvent, CancelInv
    <3>2. CASE Add(ev)
      BY <2>4, <2>p, <3>1, <3>2 DEF OnEvent, Active
    <3>3. CASE UNCHANGED <<queue, posts>>
      BY <2>4, <2>s, <3>3 DEF OnEvent, Pending, Active
    <3>4. QED
      BY <2>4, <3>2, <3>3 DEF OnEvent
  <2>5. ASSUME NEW c \in Ctx, Tick(c) PROVE [Box!Next]_(Box!mvars)
    <3>1. c \in alive
      BY <2>5 DEF Tick, CancelInv
    <3>2. QED
      BY <2>5, <2>p, <3>1 DEF Tick, Active
  <2>6. ASSUME NEW c \in Ctx, SelectEvent(c) PROVE [Box!Next]_(Box!mvars)
    BY <2>6, <2>s DEF SelectEvent, Pending, Active
  <2>7. CASE CoSleep \/ CoYield
    <3>1. cur \in Entry /\ cur # NoEntry
      BY <2>7, NoneAssumption DEF CoSleep, CoYield, LoopOK, Entry, NoEntry
    <3>2. Pending' = Pending /\ Active = cur /\ Active' = NoEntry
      BY <2>7 DEF CoSleep, CoYield, Pending, Active
    <3>3. Gone' = Gone
      BY <2>7 DEF CoSleep, CoYield, Gone, Dead
    <3>4. Box!Yield
      BY <3>1, <3>2, <3>3 DEF Box!Yield, Pending, Active, Gone
    <3>5. QED
      BY <3>4 DEF Box!Next
  <2>8. CASE CoExit
    BY <2>8, <2>s DEF CoExit, Pending, Active
  <2>9. ASSUME NEW c \in Ctx, CoStart(c) PROVE [Box!Next]_(Box!mvars)
    BY <2>9, <2>p DEF CoStart, Active
  <2>10. ASSUME NEW c \in Ctx, CoCreate(c) PROVE [Box!Next]_(Box!mvars)
    <3> DEFINE e == <<c, inc[c] + 1>>
    <3>1. /\ c \notin alive /\ inc[c] \in 0..MaxInc /\ inc[c] < MaxInc
          /\ alive' = alive \cup {c} /\ inc' = [inc EXCEPT ![c] = inc[c] + 1]
          /\ inc \in [Ctx -> 0..MaxInc] /\ pc = "run" /\ pc' = "run" /\ cur' = cur
      BY <2>10 DEF CoCreate, TypeOK
    <3>2. e \in Entry /\ e \notin Gone
      BY <3>1, BoundsAssumption DEF Entry, Gone
    <3>3. Gone' = Gone
      <4>1. \A d \in Ctx : d # c => inc'[d] = inc[d]
        BY <3>1
      <4>2. inc'[c] = inc[c] + 1
        BY <3>1
      <4>3. \A f \in Entry : f[1] \in Ctx /\ f[2] \in 0..MaxInc
        BY DEF Entry
      <4>4. \A f \in Entry : f[1] = c => (f[2] <= inc'[c] /\ f[2] # inc[c] + 1 <=> f[2] <= inc[c])
        BY <3>1, <4>2, <4>3, BoundsAssumption
      <4>5. \A f \in Entry : f \in Gone' <=> f \in Gone
        <5>1. SUFFICES ASSUME NEW f \in Entry PROVE f \in Gone' <=> f \in Gone
          OBVIOUS
        <5>2. CASE f[1] # c
          BY <3>1, <4>1, <5>2 DEF Gone, Dead
        <5>3. CASE f[1] = c
          <6>1. f \in Gone <=> f[2] <= inc[c]
            BY <3>1, <5>3 DEF Gone, Dead
          <6>2. f \in Gone' <=> f[2] <= inc'[c] /\ f[2] # inc[c] + 1
            BY <3>1, <4>2, <5>3 DEF Gone, Dead
          <6>3. QED
            BY <4>4, <5>3, <6>1, <6>2
        <5>4. QED
          BY <5>2, <5>3
      <4>6. QED
        BY <4>5 DEF Gone
    <3>4. Pending' = Append(Pending, e) /\ Active' = Active
      BY <2>10, <3>1 DEF CoCreate, Pending, Active
    <3>5. Box!Post(e)
      BY <3>2, <3>3, <3>4 DEF Box!Post, Pending, Active, Gone
    <3>6. QED
      BY <3>2, <3>5 DEF Box!Next
  <2>11. ASSUME NEW c \in Ctx, CoDestroy(c) PROVE [Box!Next]_(Box!mvars)
    <3>1. EntryOf(c) \in Entry
      BY DEF EntryOf, Entry, TypeOK
    <3>2. Pending' = Pending /\ Active' = Active
      BY <2>11 DEF CoDestroy, Destroy, Pending, Active
    <3>3. Gone' = Gone \cup {EntryOf(c)}
      <4>1. c \in alive /\ alive' = alive \ {c} /\ inc' = inc
        BY <2>11 DEF CoDestroy, Destroy
      <4>2. \A f \in Entry : f[1] # c => (Dead(f)' <=> Dead(f))
        BY <4>1 DEF Dead, Entry
      <4>3. \A f \in Entry : f[1] = c => /\ Dead(f)'
                                        /\ Dead(f) <=> f # EntryOf(c)
        BY <4>1 DEF Dead, Entry, EntryOf
      <4>4. EntryOf(c)[1] = c /\ EntryOf(c)[2] <= inc[c]
        BY DEF EntryOf, TypeOK
      <4>5. \A f \in Entry : f \in Gone' <=> f \in Gone \/ f = EntryOf(c)
        <5>1. SUFFICES ASSUME NEW f \in Entry PROVE f \in Gone' <=> f \in Gone \/ f = EntryOf(c)
          OBVIOUS
        <5>2. CASE f[1] # c
          BY <4>1, <4>2, <4>4, <5>2 DEF Gone
        <5>3. CASE f = EntryOf(c)
          <6>1. f[1] = c /\ f[2] <= inc'[f[1]]
            BY <4>1, <4>4, <5>3
          <6>2. Dead(f)'
            BY <4>1, <6>1 DEF Dead
          <6>3. QED
            BY <5>3, <6>1, <6>2 DEF Gone
        <5>4. CASE f[1] = c /\ f # EntryOf(c)
          BY <4>1, <4>3, <5>4 DEF Gone
        <5>5. QED
          BY <5>2, <5>3, <5>4
      <4>6. Gone' \subseteq Entry /\ Gone \subseteq Entry
        BY DEF Gone
      <4>7. QED
        BY <3>1, <4>5, <4>6
    <3>5. \E e \in Entry : Box!Destroy(e)
      BY <3>1, <3>2, <3>3 DEF Box!Destroy, Pending, Active, Gone
    <3>6. QED
      BY <3>5 DEF Box!Next
  <2>12. ASSUME NEW w \in Writers, WakeUp(w) \/ WriterExit(w) PROVE [Box!Next]_(Box!mvars)
    BY <2>12, <2>s DEF WakeUp, WriterTest, WriterWrite, WriterSet, WriterExitWake, WriterExit,
       Pending, Active
  <2>13. ASSUME NEW w \in Writers, NEW c \in Ctx, WriterAdd(w, c) PROVE [Box!Next]_(Box!mvars)
    BY <2>13, <2>p DEF WriterAdd, Active
  <2>14. ASSUME NEW w \in Writers, NEW c \in Ctx, WriterUnbind(w, c) PROVE [Box!Next]_(Box!mvars)
    BY <2>14, <2>s DEF WriterUnbind, Pending, Active
  <2>15. ASSUME NEW c \in Ctx, Elapse(c) PROVE [Box!Next]_(Box!mvars)
    BY <2>15, <2>s DEF Elapse, Pending, Active
  <2>16. CASE UNCHANGED vars
    BY <2>16, <2>s DEF vars, Pending, Active
  <2>17. CASE Loop
    BY <2>17, <2>1, <2>2, <2>3, <2>4, <2>5, <2>6 DEF Loop
  <2>18. CASE Coroutine
    BY <2>18, <2>7, <2>8, <2>9, <2>10, <2>11 DEF Coroutine
  <2>19. ASSUME NEW w \in Writers, Writer(w) PROVE [Box!Next]_(Box!mvars)
    BY <2>19, <2>12, <2>13, <2>14 DEF Writer, WriterDestroy
  <2>20. QED
    BY <2>15, <2>16, <2>17, <2>18, <2>19 DEF Next
<1>3. QED
  BY <1>1, <1>2, TypeInvInductive, CancelInvInductive, CancelledDiedInductive, PTL
     DEF Spec, ImplementsMailbox, Box!Spec
==============================================================================
