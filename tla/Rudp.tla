-------------------------------- MODULE Rudp --------------------------------
(* The endpoints of a RUDP socket (rudp_impl_t in lib/net/rudp.cc): made for *)
(* connections and for datagrams of unknown senders, fed by the socket's     *)
(* coroutine, kept going by a timer of their loop, and closed when their     *)
(* coroutine returns and everything is acknowledged.                         *)
(*                                                                           *)
(* One loop runs all of it: a tick, the dispatcher until its queue is empty, *)
(* a select, the dispatcher again. KCP is what an endpoint sees of it:       *)
(* messages to read, pieces not acknowledged (ikcp_waitsnd), and the time of *)
(* its next flush.                                                           *)
EXTENDS TimeManager, FiniteSets

CONSTANTS
  Endpoints,     \* the addresses of the others; each has one channel
  Writers,       \* those that something is written to
  Nobody,
  Interval,      \* units between two flushes of KCP, or more
  Near,          \* a timer that is as near as this is not set again
  BaseTime,      \* base_time of the socket: far from any delay
  MaxQueue,      \* bound: datagrams in the socket and in an endpoint's queue, messages to read
  MaxUnacked,    \* bound: pieces an endpoint has not seen acknowledged
  MaxCallbacks,  \* bound: callbacks of an endpoint that are off in a slot, and something still
                 \* comes or a second tick is at the same time
  MaxFreed,      \* bound: endpoints destroyed in a dispatch, and still some are added
  MaxInstants    \* bound: ticks at a multiple of the precision, over within its microsecond

Server == "server"   \* the socket's coroutine

ASSUME EndpointAssumption == /\ Owners = Endpoints /\ IsFiniteSet(Endpoints)
                             /\ Writers \subseteq Endpoints
                             /\ Server \notin Endpoints /\ Nobody \notin Endpoints \cup {Server}
ASSUME TimeAssumption == Interval \in 1..Horizon /\ Near \in Nat /\ BaseTime \in Nat
(* base_time is the clock's time, since 1970, when the socket was made.      *)
ASSUME FarAssumption == BaseTime > Horizon + 1 + Near
ASSUME BoundsAssumption ==
  {MaxQueue, MaxUnacked, MaxCallbacks, MaxFreed, MaxInstants} \subseteq Nat \ {0}

VARIABLES
  state,     \* user_map: no entry, an open endpoint, or one whose ikcp is null
  co,        \* the endpoint's coroutine: "none", "new", "running", waits in "read" or
             \* in "close" (aclose_connection), or "done"
  recv_queue, \* datagrams of the endpoint
  inbox,     \* messages that ikcp_recv would return
  unacked,   \* ikcp_waitsnd
  flush,     \* units to the next flush
  timer_reg, \* the endpoint's timer
  slots,     \* the loop's time manager
  exact,     \* now is a multiple of the timers' precision, to the microsecond
  instants,  \* history: the ticks that were at such a time and over within its microsecond,
             \* in which what is set makes their slot again
  freed,     \* cancel_contexts: addresses of endpoints destroyed since the queue was empty,
             \* how many of them are free to be allocated again
  skipped,   \* and the endpoints that were allocated there
  reused,    \* history: there was one
  pc,        \* where the loop is: "tick", "dispatch", "select", "event" (dispatch again)
  cur,       \* the coroutine that runs: an endpoint's, the socket's, or nobody's
  queue,     \* the dispatcher: who is resumed, and with which function
  socket,    \* datagrams in the kernel
  open       \* the socket is

timers == <<timer_reg, slots>>
kcp    == <<recv_queue, inbox, unacked, flush>>
clock  == <<exact, instants>>
heap   == <<freed, skipped, reused>>
loop   == <<pc, cur, queue>>
vars   == <<state, co, kcp, timers, clock, heap, loop, socket, open>>

Datagrams == {"data", "ack"}
Jobs == {"none", "update", "write"}
Entry(who, job) == [who |-> who, job |-> job]

Init == /\ state = [e \in Endpoints |-> "none"] /\ co = [e \in Endpoints |-> "none"]
        /\ recv_queue = [e \in Endpoints |-> <<>>] /\ inbox = [e \in Endpoints |-> 0]
        /\ unacked = [e \in Endpoints |-> 0] /\ flush = [e \in Endpoints |-> 0]
        /\ timer_reg = [e \in Endpoints |-> NotRegistered] /\ slots = NoTimers
        /\ exact \in BOOLEAN /\ instants = 0
        /\ freed = 0 /\ skipped = {} /\ reused = FALSE
        /\ pc = "tick" /\ cur = Nobody /\ queue = <<>>
        /\ socket = <<>> /\ open = TRUE

Find(e) == state[e] = "open"
Count(seq, x) == Cardinality({i \in DOMAIN seq : seq[i] = x})

-----------------------------------------------------------------------------
(* The timer of an endpoint.                                                 *)

(* ikcp_check: now when a piece is overdue, else the time of the flush.      *)
Delays(e) == {flush[e]} \cup IF unacked[e] > 0 THEN {0} ELSE {}

(* Mutant: time_point without base_time.                                     *)
TimePointNow(delta) == delta

(* time_point: the delay, counted from now, and base_time by mistake. That   *)
(* no timer is ever near is what keeps a timer that has fired, whose id is   *)
(* not reset, from being taken for one that is still to come.                *)
TimePoint(delta) == delta + BaseTime

(* set_timer.                                                                *)
SetTimer(e) ==
  \E delta \in Delays(e) :
    LET reg == timer_reg[e]
        near == /\ reg.id >= 0
                /\ reg.timepoint <= TimePoint(delta) + Near
                /\ reg.timepoint >= TimePoint(delta) - Near
        cancelled == IF reg.id >= 0 THEN Cancel(slots, reg) ELSE slots
        timepoint == Timepoint(delta, exact)
    IN  IF near THEN UNCHANGED timers
        ELSE /\ slots' = Insert(cancelled, e, timepoint)
             /\ timer_reg' = [timer_reg EXCEPT ![e] = Registered(cancelled, timepoint)]

-----------------------------------------------------------------------------
(* Endpoints: made, read, written and closed.                                *)

(* The sweep of add_connection: closed endpoints are destroyed. What the     *)
(* dispatcher holds for them will be skipped, and is left out at once.       *)
Made  == {e \in Endpoints : state[e] # "none"}
Swept == {e \in Endpoints : state[e] = "released"}
Without(gone, q) == Only(q, [who : (Endpoints \cup {Server}) \ gone, job : Jobs])

(* make_unique, before the sweep frees others: anywhere, or where an earlier *)
(* sweep has freed an endpoint that the dispatcher still skips by its address. *)
Allocate(e) ==
  \/ freed' = freed + Cardinality(Swept) /\ UNCHANGED <<skipped, reused>>
  \/ /\ freed > 0 /\ freed' = freed - 1 + Cardinality(Swept)
     /\ skipped' = skipped \cup {e} /\ reused' = TRUE

(* add_connection, of an endpoint that the map does not hold.                *)
AddConnection(e) ==
  /\ state[e] = "none" /\ Allocate(e)
  /\ state' = [f \in Endpoints |-> IF f = e THEN "open"
                                  ELSE IF f \in Swept THEN "none" ELSE state[f]]
  /\ co' = [f \in Endpoints |-> IF f = e THEN "new" ELSE IF f \in Swept THEN "none" ELSE co[f]]
  /\ UNCHANGED <<timer_reg, inbox, unacked, flush>>

(* update_endpoint, ikcp_input of all that is queued.                        *)
Acks(e) == Count(recv_queue[e], "ack")
Messages(e) == inbox[e] + Count(recv_queue[e], "data")

(* Mutant: what was read stays in the queue.                                 *)
UpdateEndpointAgain(e) == /\ unacked' = [unacked EXCEPT ![e] = @ - Acks(e)]
                          /\ UNCHANGED recv_queue

UpdateEndpoint(e) == /\ recv_queue' = [recv_queue EXCEPT ![e] = <<>>]
                     /\ unacked' = [unacked EXCEPT ![e] = @ - Acks(e)]

(* aread, when it is called and whenever the coroutine is resumed.           *)
ARead(e) == /\ UpdateEndpoint(e)
            /\ inbox' = [inbox EXCEPT ![e] = IF Messages(e) > 0 THEN Messages(e) - 1 ELSE 0]
            /\ co' = [co EXCEPT ![e] = IF Messages(e) > 0 THEN "running" ELSE "read"]
            /\ cur' = IF Messages(e) > 0 THEN e ELSE Nobody
            /\ SetTimer(e)
            /\ UNCHANGED <<state, flush>>

(* awrite.                                                                   *)
AWrite(e) == /\ e \in Writers /\ unacked[e] < MaxUnacked
             /\ unacked' = [unacked EXCEPT ![e] = @ + 1]
             /\ SetTimer(e)
             /\ UNCHANGED <<state, recv_queue, inbox, flush>>

(* ikcp_release: all that KCP holds is freed.                                *)
IkcpRelease(gone) ==
  LET Freed(f) == [e \in Endpoints |-> IF e \in gone THEN 0 ELSE f[e]]
  IN  inbox' = Freed(inbox) /\ unacked' = Freed(unacked) /\ flush' = Freed(flush)

(* The end of aclose_connection and of the coroutine: KCP is freed.          *)
Release(e) == /\ state' = [state EXCEPT ![e] = "released"]
              /\ co' = [co EXCEPT ![e] = "done"] /\ cur' = Nobody
              /\ slots' = IF timer_reg[e].id >= 0 THEN Cancel(slots, timer_reg[e]) ELSE slots
              /\ timer_reg' = [timer_reg EXCEPT ![e] = NotRegistered]
              /\ recv_queue' = [recv_queue EXCEPT ![e] = <<>>]
              /\ IkcpRelease({e})

(* Mutant: no timer while pieces are not acknowledged.                       *)
LingerUntimed(e) == /\ co' = [co EXCEPT ![e] = "close"] /\ cur' = Nobody
                    /\ slots' = Cancel(slots, timer_reg[e])
                    /\ UNCHANGED <<state, kcp, timer_reg>>

(* aclose_connection while pieces are not acknowledged.                      *)
Linger(e) == /\ co' = [co EXCEPT ![e] = "close"] /\ cur' = Nobody
             /\ SetTimer(e)
             /\ UNCHANGED <<state, kcp>>

(* aclose_connection, when it is called and whenever it is resumed.          *)
AClose(e) == IF unacked[e] = 0 THEN Release(e) ELSE Linger(e)

-----------------------------------------------------------------------------
(* The loop.                                                                 *)

(* time_manager_t::tick: a timer of an endpoint posts its function.          *)
Tick == /\ pc = "tick" /\ pc' = "dispatch"
        /\ queue' = queue \o [i \in DOMAIN Due(slots) |-> Entry(Due(slots)[i].owner, "update")]
        /\ slots' = AfterTick(slots)
        /\ \/ exact' = FALSE /\ UNCHANGED instants
           \/ exact /\ instants < MaxInstants /\ exact' = TRUE /\ instants' = instants + 1
        /\ UNCHANGED <<state, co, kcp, timer_reg, cur, socket, open, heap>>

(* dispatch, after the tick and after select.                                *)
Dispatching == pc \in {"dispatch", "event"} /\ cur = Nobody
Popped == Dispatching /\ queue # <<>> /\ queue' = Tail(queue)
For(e) == Popped /\ Head(queue).who = e /\ e \notin skipped

Skip(e) == /\ Popped /\ Head(queue).who = e /\ e \in skipped
           /\ UNCHANGED <<state, co, kcp, timers, pc, cur, socket, open, clock, heap>>

(* The coroutine is over: the dispatcher resumes nothing and calls nothing.  *)
ResumeDone(e) == /\ For(e) /\ co[e] = "done"
                 /\ UNCHANGED <<state, co, kcp, timers, pc, cur, socket, open, clock, heap>>

(* co_func begins.                                                           *)
ResumeNew(e) == /\ For(e) /\ co[e] = "new" /\ Head(queue).job = "none"
                /\ co' = [co EXCEPT ![e] = "running"] /\ cur' = e
                /\ UNCHANGED <<state, kcp, timers, pc, socket, open, clock, heap>>

ResumeRead(e) == /\ For(e) /\ co[e] = "read" /\ Head(queue).job = "none"
                 /\ ARead(e)
                 /\ UNCHANGED <<pc, socket, open, clock, heap>>

ResumeClose(e) == /\ For(e) /\ co[e] = "close" /\ Head(queue).job = "none"
                  /\ AClose(e)
                  /\ UNCHANGED <<pc, socket, open, clock, heap>>

(* A function runs in the coroutine, which goes on from where it waits.      *)
GoesOn(e) == /\ queue' = <<Entry(e, "none")>> \o Tail(queue)
             /\ UNCHANGED <<co, cur>>
Calls(e, job) == /\ Dispatching /\ queue # <<>>
                 /\ Head(queue) = Entry(e, job) /\ e \notin skipped /\ co[e] # "done"

(* The function of the timer: update_endpoint, ikcp_update, set_timer.       *)
UpdateJob(e) == /\ Calls(e, "update")
                /\ UpdateEndpoint(e) /\ inbox' = [inbox EXCEPT ![e] = Messages(e)]
                /\ flush' = [flush EXCEPT ![e] = IF @ = 0 THEN Interval ELSE @]
                /\ SetTimer(e)
                /\ GoesOn(e)
                /\ UNCHANGED <<state, pc, socket, open, clock, heap>>

(* A function posted with run_at that writes.                                *)
WriteJob(e) == /\ Calls(e, "write")
               /\ AWrite(e) /\ GoesOn(e)
               /\ UNCHANGED <<pc, socket, open, clock, heap>>

(* co_func reads, writes and returns as it likes.                            *)
CallRead(e) == /\ cur = e /\ ARead(e)
               /\ UNCHANGED <<pc, queue, socket, open, clock, heap>>
CallWrite(e) == /\ cur = e /\ AWrite(e)
                /\ UNCHANGED <<co, loop, socket, open, clock, heap>>
Return(e) == /\ cur = e /\ AClose(e)
             /\ UNCHANGED <<pc, queue, socket, open, clock, heap>>

(* rudp_server_main.                                                         *)
ResumeServer == /\ For(Server) /\ cur' = Server
                /\ UNCHANGED <<state, co, kcp, timers, pc, socket, open, clock, heap>>

(* Mutant: the endpoint's coroutine is not started.                          *)
DeliverUnstarted(e, kind, q) ==
  /\ recv_queue' = [recv_queue EXCEPT ![e] = IF state[e] = "released" THEN @ ELSE Append(@, kind)]
  /\ queue' = q

(* What a closed endpoint is sent is queued and never read: left out.        *)
Deliver(e, kind, q) ==
  /\ recv_queue' = [recv_queue EXCEPT ![e] = IF state[e] = "released" THEN @ ELSE Append(@, kind)]
  /\ queue' = Append(q, Entry(e, "none"))

(* check_unknown finds the endpoint, a closed one too, or asks the handler,  *)
(* which adds a connection or has the datagram discarded.                    *)
CheckUnknown(e, kind) ==
  \/ /\ state[e] # "none" /\ Deliver(e, kind, queue)
     /\ UNCHANGED <<state, co, timer_reg, unacked, inbox, flush, heap>>
  \/ /\ AddConnection(e)
     /\ Deliver(e, kind, Append(Without(Swept, queue), Entry(e, "none")))
  \/ /\ state[e] = "none"
     /\ UNCHANGED <<state, co, timer_reg, unacked, inbox, flush, recv_queue, queue, heap>>

Receive ==
  /\ cur = Server /\ socket # <<>> /\ socket' = Tail(socket)
  /\ CheckUnknown(Head(socket).from, Head(socket).kind)
  /\ UNCHANGED <<slots, pc, cur, open, clock>>

ReceiveNothing == /\ cur = Server /\ socket = <<>> /\ cur' = Nobody
                  /\ UNCHANGED <<state, co, kcp, timers, pc, queue, socket, open, clock, heap>>

DispatchDone == /\ Dispatching /\ queue = <<>> /\ freed' = 0 /\ skipped' = {}
                /\ pc' = IF pc = "dispatch" THEN "select" ELSE "tick"
                /\ UNCHANGED <<state, co, kcp, timers, cur, queue, socket, open, clock, reused>>

HasRoom == \A e \in Endpoints, t \in DOMAIN slots :
             Count(slots[t], [owner |-> e, on |-> FALSE]) < MaxCallbacks

(* select_loop: the socket's coroutine is posted when there is a datagram.   *)
Readable == IF open /\ socket # <<>> THEN <<Entry(Server, "none")>> ELSE <<>>
Select == /\ pc = "select" /\ pc' = "event" /\ queue' = queue \o Readable
          /\ UNCHANGED <<state, co, recv_queue, inbox, unacked, cur, socket, open, heap>>

(* It returns at once, for a datagram or because a timer is due already.     *)
TimerIsDue == slots[0] # <<>> /\ (exact => HasRoom)
SelectAtOnce == /\ Select /\ (Readable # <<>> \/ TimerIsDue)
                /\ UNCHANGED <<flush, timers, clock>>

(* A unit of time passes, asleep until the next timer or not.                *)
Elapse == /\ Select /\ slots # NoTimers /\ slots[0] = <<>>
          /\ slots' = Later(slots)
          /\ timer_reg' = [e \in Endpoints |-> LaterRegistration(timer_reg[e])]
          /\ flush' = [e \in Endpoints |-> IF flush[e] = 0 THEN 0 ELSE flush[e] - 1]
          /\ exact' \in BOOLEAN /\ UNCHANGED instants

(* A microsecond passes.                                                     *)
Moment == /\ exact /\ exact' = FALSE
          /\ UNCHANGED <<state, co, kcp, timers, instants, heap, loop, socket, open>>

-----------------------------------------------------------------------------
(* The application outside of the endpoints' coroutines, and the others.     *)

(* add_connection outside of unknown_handler: while the loop sleeps, which   *)
(* is woken up then, or in another coroutine of it.                          *)
Connect(e) == /\ cur = Nobody /\ open /\ HasRoom /\ freed < MaxFreed
              /\ AddConnection(e)
              /\ queue' = Append(Without(Swept, queue), Entry(e, "none"))
              /\ pc' = IF pc = "select" THEN "event" ELSE pc
              /\ UNCHANGED <<recv_queue, slots, cur, socket, open, clock>>

(* run_at: nothing when the endpoint is not found.                           *)
RunAt(e) == /\ pc = "select" /\ Find(e) /\ HasRoom /\ e \in Writers /\ unacked[e] < MaxUnacked
            /\ queue' = Append(queue, Entry(e, "write")) /\ pc' = "event"
            /\ UNCHANGED <<state, co, kcp, timers, cur, socket, open, clock, heap>>

(* close: every endpoint is released and destroyed, its timer removed.       *)
Close ==
  LET left == {e \in Endpoints : Find(e) /\ timer_reg[e].id >= 0}
  IN  /\ pc = "select" /\ open /\ open' = FALSE
      /\ slots' = [t \in DOMAIN slots |->
            [i \in DOMAIN slots[t] |->
               IF \E e \in left : timer_reg[e] = [id |-> i, timepoint |-> t]
               THEN [slots[t][i] EXCEPT !.on = FALSE] ELSE slots[t][i]]]
      /\ state' = [e \in Endpoints |-> "none"] /\ co' = [e \in Endpoints |-> "none"]
      /\ queue' = <<>> /\ socket' = <<>>
      /\ recv_queue' = [e \in Endpoints |-> <<>>] /\ IkcpRelease(Endpoints)
      /\ timer_reg' = [e \in Endpoints |-> NotRegistered]
      /\ freed' = freed + Cardinality(Made) /\ skipped' = {}
      /\ UNCHANGED <<pc, cur, clock, reused>>

(* A datagram comes. An acknowledgement is of a piece that was sent; an      *)
(* endpoint that closes needs no room for it, as it writes no more.          *)
Pending(e) == Len(recv_queue[e]) + Cardinality({i \in DOMAIN socket : socket[i].from = e})
Arrive(e, kind) ==
  /\ open /\ pc = "select" /\ Pending(e) < MaxQueue
  /\ HasRoom \/ (kind = "ack" /\ co[e] = "close")
  /\ IF kind = "data" THEN inbox[e] < MaxQueue
     ELSE unacked[e] > Acks(e) + Count(socket, [from |-> e, kind |-> "ack"])
  /\ socket' = Append(socket, [from |-> e, kind |-> kind])
  /\ UNCHANGED <<state, co, kcp, timers, loop, open, clock, heap>>

Dispatch == \/ \E e \in Endpoints : \/ Skip(e) \/ ResumeDone(e) \/ ResumeNew(e) \/ ResumeRead(e)
                                    \/ ResumeClose(e) \/ UpdateJob(e) \/ WriteJob(e)
                                    \/ CallRead(e) \/ CallWrite(e) \/ Return(e)
            \/ ResumeServer \/ Receive \/ ReceiveNothing \/ DispatchDone

Loop == Tick \/ Dispatch \/ SelectAtOnce \/ Elapse

Next == \/ Loop \/ Moment
        \/ \E e \in Endpoints : \/ Connect(e) \/ RunAt(e)
                                \/ \E kind \in Datagrams : Arrive(e, kind)
        \/ Close

Spec == Init /\ [][Next]_vars

(* The loop and the time go on, and what an endpoint sends is acknowledged   *)
(* in the end.                                                               *)
FairSpec == /\ Spec /\ WF_vars(Loop) /\ SF_vars(Elapse) /\ WF_vars(Moment)
            /\ \A e \in Writers : SF_vars(Arrive(e, "ack"))

-----------------------------------------------------------------------------
(* Properties.                                                               *)

(* TypeOK: the types, and that a coroutine waits or runs only in an open     *)
(* endpoint (add_connection, aclose_connection).                             *)
TypeOK ==
  /\ \A e \in Endpoints :
       /\ state[e] \in {"none", "open", "released"}
       /\ co[e] \in CASE state[e] = "none" -> {"none"}
                      [] state[e] = "open" -> {"new", "running", "read", "close"}
                      [] state[e] = "released" -> {"done"}
       /\ inbox[e] \in Nat /\ unacked[e] \in 0..MaxUnacked /\ flush[e] \in 0..Interval
       /\ timer_reg[e] \in Registration /\ recv_queue[e] \in Seq(Datagrams)
       /\ Acks(e) <= unacked[e] \/ state[e] # "open"
       /\ e \in skipped => co[e] = "new"
  /\ pc \in {"tick", "dispatch", "select", "event"} /\ cur \in Endpoints \cup {Nobody, Server}
  /\ {exact, reused} \subseteq BOOLEAN /\ instants \in 0..MaxInstants
  /\ freed \in Nat /\ skipped \subseteq Endpoints

(* OneTimer: a callback that will be called is the one that its endpoint has *)
(* registered, so that set_timer and the closing always find it, there are   *)
(* never two chains of updates, and a closed or destroyed endpoint has none  *)
(* that would touch it; and the place that a registration names in a slot of *)
(* a later time is its owner's, though registrations are kept after their    *)
(* timers fired and slots are made again, in the microsecond of their tick,  *)
(* too (set_timer, aclose_connection, close_all_peer, cancel).               *)
OneTimer ==
  \A e \in Endpoints :
    LET reg == timer_reg[e]
    IN  /\ Armed(slots, e) \subseteq IF state[e] = "open" THEN {<<reg.timepoint, reg.id>>} ELSE {}
        /\ (reg.id >= 0 /\ reg.timepoint > 0) =>
              /\ reg.id \in DOMAIN slots[reg.timepoint]
              /\ slots[reg.timepoint][reg.id].owner = e

(* NeverStranded: every open endpoint has something to come that makes it go *)
(* on, however datagrams, functions, timers and sweeps interleave: one that  *)
(* waits its timer or the timer's function, unless a tick at a multiple of   *)
(* the precision was over within its microsecond; one that has not begun its *)
(* start in the dispatcher's queue, unless an endpoint was allocated where   *)
(* another was destroyed in the same dispatch (set_timer, aread, awrite,     *)
(* aclose_connection, add_connection, cancel, dispatch).                     *)
NeverStranded ==
  \A e \in Endpoints :
    /\ (co[e] \in {"read", "close"} /\ instants = 0) =>
          \/ Armed(slots, e) # {}
          \/ Entry(e, "update") \in {queue[i] : i \in DOMAIN queue}
    /\ (co[e] = "new" /\ ~reused) => \E i \in DOMAIN queue : queue[i].who = e

(* CancelsOwn: remove_timer removes the timer of the registration it is      *)
(* given, never that of another, and does not reach past the slot            *)
(* (time_manager_t::cancel, timer.hpp:88).                                   *)
CancelsOwn ==
  \A e \in Endpoints :
    LET reg == timer_reg[e]
    IN  (reg.id >= 0 /\ reg.timepoint # Past /\ slots[reg.timepoint] # <<>>) =>
          /\ reg.id \in DOMAIN slots[reg.timepoint]
          /\ slots[reg.timepoint][reg.id].owner = e

(* StartIsKept: the start that add_connection posts for an endpoint stays in *)
(* the dispatcher's queue until its coroutine begins                         *)
(* (execute_thread_dispatcher_t::add, execute_dispatcher.hpp).               *)
StartIsKept == \A e \in Endpoints : co[e] = "new" => \E i \in DOMAIN queue : queue[i].who = e

(* ReadyIsQueued: an endpoint whose coroutine waits and has something to go  *)
(* on with is in the dispatcher's queue: a message or a datagram that came   *)
(* is never left to a coroutine that sleeps in aread, whether the socket's   *)
(* coroutine or the timer's function took it in, and a close does not sleep  *)
(* with nothing left to wait for. That holds wherever endpoints are          *)
(* allocated: the dispatcher may skip one by its address only before its     *)
(* coroutine has begun, which is the business of StartIsKept and             *)
(* NeverStranded (rudp_server_main, set_timer's function, aclose_connection, *)
(* dispatch).                                                                *)
Ready(e) == \/ co[e] = "read" /\ (inbox[e] > 0 \/ recv_queue[e] # <<>>)
            \/ co[e] = "close" /\ unacked[e] = 0
ReadyIsQueued == \A e \in Endpoints : Ready(e) => \E i \in DOMAIN queue : queue[i].who = e

(* LingerEnds: an endpoint whose coroutine has returned is released when its *)
(* pieces are acknowledged, as soon as functions posted to it do not write   *)
(* for ever: acknowledgements are still read though nobody calls aread any   *)
(* more. Only the timer's function reads them, so it is for loops whose      *)
(* ticks at multiples of the precision take a microsecond                    *)
(* (aclose_connection, the timer's function).                                *)
LingerEnds == \A e \in Writers :
                ([](instants = 0) /\ <>[][~WriteJob(e)]_vars) => (co[e] = "close" ~> co[e] # "close")
=============================================================================
