# Formal models of P2P-Live

P2P-Live streams video between peers: a source client sends fragments to an edge
server, viewers pull them, and trackers tell the nodes about each other. Under it
lies a network library of its own (`lib/net`, `include/net`): an event loop per
thread, stackful coroutines, TCP packages, and reliable UDP on top of KCP. This
directory holds TLA+ models of the parts of that code whose correctness depends on
the order in which threads, coroutines and messages act, the TLC runs that check
them on small instances, and TLAPS proofs of the central results for every instance.

Paths in this file are relative to the root of the repository.

## 1. Inventory

### Components

| component | state | operations | shared with |
|---|---|---|---|
| event loop (`lib/net/event.cc`) | `is_exit`, `has_wake_up`, `event_map`, timers, dispatcher | `run`, `exit`, `wake_up`, add and remove of handlers and timers | every thread that posts to it |
| dispatcher (`lib/net/execute_dispatcher.cc`) | queue of contexts to resume, set of cancelled contexts, two spin locks | `add`, `cancel`, `dispatch` | the loop and every thread that posts |
| execution context (`lib/net/execute_context.cc`) | its coroutine, its loop, its timer | `run`, `start`, `start_with`, `stop`, `stop_for`, `sleep`, destructor | its loop; sockets and RUDP endpoints are contexts |
| event context (`lib/net/event.cc`) | the loops, `exit`, `loop_counter`, a condition | constructor, `run`, `prepare`, `exit_all`, `select_loop`, destructor | all threads |
| timers (`lib/net/timer.cc`) | slots by time point, a heap of them | `insert`, `cancel`, `tick`, `next_tick_timepoint` | one loop each |
| demultiplexers (`lib/net/epoll.cc`, select, iocp) | kernel handles, an eventfd | `add`, `remove`, `select`, `wake_up` | one loop each |
| locks (`include/net/lock.hpp`) | one atomic word | `lock`, `unlock`, `rlock`, `runlock` | dispatcher, RUDP map |
| thread pool (`lib/net/thread_pool.cc`) | task queue, mutex, condition, `exit`, idle count | `commit`, `empty`, workers, destructor | owner, workers, tasks |
| sockets (`lib/net/socket.cc`), buffers (`socket_buffer.cc`) | descriptor, connection flag; cursor into shared bytes | coroutine functions for read, write, connect, accept; close | one loop each |
| TCP packages (`lib/net/tcp.cc`) | server and client sockets, handlers | framing, accept loop, connect with timeout, close | trackers |
| RUDP (`lib/net/rudp.cc`) | endpoints by address and channel, receive queues, each endpoint's timer, KCP state | `add_connection`, `run_at`, read, write, `remove_connection`, `close` | the UDP socket's loop and each endpoint's loop |
| KCP (`lib/net/third/ikcp.cc`) | queues and buffers of both directions, windows, acknowledgements to send | `ikcp_send`, `ikcp_recv`, `ikcp_input`, `ikcp_update`, `ikcp_flush` | one block per endpoint |
| peer (`lib/net/p2p/peer.cc`) | peers by address, four queues per channel, fragment in reception, `has_connect` | connect, disconnect, pull and send, the coroutine `pmain` | RUDP coroutines, applications |
| tracker server (`lib/net/p2p/tracker.cc`) | trackers, nodes, `node_infos` | `server_main`, `client_main`, `udp_main`, link | TCP and RUDP coroutines of several loops |
| tracker node client (same file) | its TCP client, queue of node requests | `tmain`, requests | edge server, source client |
| edge server, source client (`src/`) | global fragment store; current edge peer | handlers of peer and tracker client | loops of several threads, the GUI |
| load balance, NAT, UDP wrappers | - | unfinished or thin | nobody |

How they interact: a thread calls `event_context_t::run`, which runs its loop. The
loop takes due timers, resumes the contexts in its dispatcher's queue, sleeps in
the demultiplexer and hands events to sockets, which start their coroutine through
the dispatcher. Other threads reach a loop only through `start`, `start_with` and
`run` of a context (dispatcher, then `wake_up`), through `exit`, and through the
event map. A RUDP endpoint is a context with a coroutine of its own: the UDP
socket's coroutine pushes datagrams to its queue and starts it, and
`peer_t::async_do_write` posts jobs to it with `start_with`. The peer protocol runs
in those coroutines, one per peer and channel.

### What is hard, and what correct means

* *Wake-up protocol* (loop against posting threads): a loop must not sleep with
  work queued, nor sleep through `exit`.
* *Cancellation*: the dispatcher queues raw pointers; a destroyed context must never
  be resumed, a live one never skipped. Timers, other threads and reuse of addresses
  all interfere.
* *Exit of all loops*: `run` returns on all threads together, and exactly when
  `exit_all` was called; the context is then destroyed.
* *Locks*: mutual exclusion in one word, and progress.
* *Thread pool*: every task once, none stranded, the destructor returns.
* *Peer protocol*: simultaneous connection, order of jobs and packages, fragments in
  pieces, sessions.
* *KCP*: datagrams lost, repeated and overtaken, time-outs that come early, windows that
  close; what is written must be read once, whole and in order, and in the end.
* *RUDP life cycle*: endpoints made for both sides, fed, closed while pieces are not
  acknowledged, swept; one chain of timers per endpoint, never none and never two.
* *Timers*: cancellation by id of something that may have fired, at a time that may be now.
* *TCP packages*: heads and contents that come in parts.
* *Tracker*: registration, heartbeats and time-outs racing with answers, rejoin; the
  link between trackers, entries found by addresses that are reused.

`PROJECT.json` lists each hazard with its line and the property that covers it, or
why none does yet.

## 2. The modules

| module | models | abstract specification | proofs |
|---|---|---|---|
| `EventLoop` | one loop, dispatcher, contexts, their timers, wake-up, exit | `Mailbox` | `EventLoop_proofs` |
| `EventContext` | the threads of an event context | | `Threads_proofs` |
| `RwLock` | `rw_lock_t` | `SharedLock` | `Threads_proofs` |
| `ThreadPool` | `thread_pool_t` | | `ThreadPool_proofs` |
| `Peer` | two `peer_t` and their channels over RUDP | | `Peer_proofs` |
| `Tracker` | a tracker server, node clients and their programs' timers | | `Tracker_proofs` |
| `Kcp` | two `ikcpcb` and the network between them | `Stream` | `Kcp_proofs` |
| `TimeManager` | the slots of a loop's timers (operators) | | with `Rudp` |
| `Rudp` | the endpoints of a `rudp_t` on a loop, with `TimeManager` | | `Rudp_proofs` |
| `TcpPackage` | packages over a byte stream (operators) | | |
| `TrackerLink` | two linked trackers, over `TcpPackage` | | `TrackerLink_proofs` |

`ThreadSet` has the threads of `RwLock` and `EventContext`, a finite set; the two name their
variables and actions apart so that one module of proofs can be about both.

The `MC` modules only add values for TLC (symmetry, session ids, the clients'
configurations, the levels of KCP). How the modules fit together: `Peer` takes a RUDP
channel as a reliable ordered stream, which is what `Kcp` implements (`Stream`) and what
`Rudp` keeps going; `Rudp` takes of KCP what an endpoint sees of it. `Peer` and `Tracker`
run their coroutines' steps whole and fairly, which is `EventLoop`'s part.
Definitions whose comment starts with `Mutant:` are not part of any specification;
each is the form a plausible bug would give the definition after it, and shows that
a property can fail.

### EventLoop

`pc` is the position of the loop's thread in `event_loop_t::run` and the
`dispatch` it calls (`round` tells the two calls apart), `wpc[w]` that of another
thread in `start` and `wake_up`, or `exit`. Each access to a shared variable that
another thread can get between is a step; what a spin lock covers is one step. The
queue holds a context's address and its *life*: the number of times its address has
been reused. Lives exist in the model only, the code compares addresses, which is
what `DispatchSkip` does. The actions from `TestExit` to `OnEvent` are `run` from
top to bottom; those with the prefix `Co` are what the coroutine that runs may do
before it yields; those with the prefix `Writer` are the other threads. epoll
returns for the eventfd (readable at first: `eventfd(1, 0)`), for an event on any
bound socket, or for a timer.

Two flags say how contexts are used, because some results hold only under rules of use
the code does not enforce: `RemoteDestroy` (other threads destroy contexts) and
`DestroySleeping` (a context is destroyed while it waits in `stop_for`). The variable
`ticker`, chosen at the start, says whether some periodic timer of the loop is always
armed, as RUDP endpoints have.

`Mailbox` is the promise to posting threads: contexts are resumed one at a time, in
order, once per post; a destroyed one never is, and one is skipped only if it, or
another that had its address before, was destroyed. The last clause is what the code
does: cancelled contexts are remembered by address until `dispatch` empties the queue,
so a context created meanwhile at a freed address is skipped with the one that died
there.

### EventContext

One step per access; what runs under `loop_mutex` or `exit_mutex` is one step, and
a thread in `cond.wait` is at `asleep`. What happens inside a loop is left to
`EventLoop`: here it ends once its `is_exit` is set. `mine[t]` is the thread-local
`thread_in_loop`. `do_init` sets it (in the constructor of the loop) before it
tests `exit` again under the lock, so it has three values: `Create` and
`Register` are the two halves, and `exit_all` may come between them. A thread's place is
`at[t]`.

### RwLock

Each load and exchange of the word is a step; the word is kept as its two fields,
bit 63 and the low bits. A failed `compare_exchange_strong` is the other disjunct of
the step. Steps are sequentially consistent; `runlock` has acquire order where
release would be expected, which this model cannot see. `SharedLock` is mutual
exclusion.

### ThreadPool

A worker's program counter follows `wrapper`. Steps under the mutex are separate
where the destructor, which does not take the mutex, can come between: above all the
predicate of `cond.wait` (`Test`) and the wait itself (`Block`). Tasks may commit
tasks. Each task is a number, its order of pushing.

### Peer

Two peers, the channels they accept (0 is one of them), the four queues of each
channel, jobs, and the packages on their way per channel and direction. RUDP below
is a reliable ordered stream (`net`), as KCP is used; `run_at` drops the job while
the endpoint's coroutine has not stored its connection (`ep` is not `"open"`). A
coroutine's handling of one package and a job are each one step: they run on one
loop without yielding, because `rudp_awrite` does not wait. `FragmentPieces` is the
number of packages a fragment takes. The applications' handlers are assumed to be
set. The history variables `pushed` and `got` count what was queued and record what
the handlers were given.

### Tracker

The composition of a `tracker_server_t` and the `tracker_node_client_t`s connected to it.
A client's side is its socket (`st`), the flags and queues of the class under the code's
names, the functions posted to its coroutine (`jobs`) and the wait `tmain` is in; the
server's is `nodes` and `node_infos` (`infos`), with the age of `last_ping` in place of a
clock. `up` and `down` are the packages of a connection, in order, as TCP delivers them.
A coroutine handles a package, a time-out or a job without yielding, since writes only fill
the socket's buffer, so each is one step.

Time is discrete: `TimePasses` is one unit for all waits, timers and ages, and happens when
nothing is due. A wait that a job interrupts goes on as `await_timeout` makes it: for as
long again as it has already lasted, which is what `sleep` returns. The application's
handlers may ask for nodes inside a handler; its timers may at any time. The error handler
sets a timer that connects again, as `edge-server/main.cc` and `source-client/peer.cc` do.
A connection may break or be refused at any time, and the tracker may end and start anew,
without its maps.

An address is an IP address and a port; a client gets any that is free, so one may come
back to its own or get one that another had. A client has a session id, the edge server's
key or a wrong one, registers or not (`as_peer_server`), and, as `request_trackers` is not
initialized, has one value or the other in it (`garbage`). `heard` and `gone` are history:
the packages a client got since its last ping, and for each address and session the time
since a connection left that would keep the record of such a node fresh.

### Kcp

A control block is a record with the code's names, one for each end, and `net[e]` the
datagrams on their way to `e`, each a sequence of segments with a command, `sn`, `una`,
`wnd` and a piece of a message. The application calls `Send` and `Recv`; `Input` is
`ikcp_input` segment by segment, `Flush` is `ikcp_update` with the `ikcp_flush` it calls.
`Config` is `rudp_impl_t::config` with its three levels, `mode` what it set.

Time is left out altogether: which of the segments in flight a flush finds expired is
open, so a resend may come at any time; one of a segment whose data or acknowledgement is
still on its way counts as a fault, like a loss, a repetition or an overtaking, and
`MaxFaults` bounds them together. That covers whatever the round-trip estimates compute.
How much `incr` has grown is open too: in congestion avoidance the window grows or stays.
`fastack` and `xmit` stop at the value they are last compared with. `ssthresh` after a fast
resend is left as it was: it only has an effect in the mode without fast resend. `cwnd` is
kept 0 in the modes that do not read it. Sequence numbers are natural numbers. The searches
of a buffer for a number (`Before` from its head, `UpTo` from its tail) are the place where
the loop stops.

`Stream` is the promise: each end reads whole messages, in order, each as it was written.

### TimeManager and Rudp

`TimeManager` has the slots by time point, and a registration as slot and place. Time
points are counted from the last multiple of the precision, in units of it, so that the state
space is finite; slot 0 is due. `insert` rounds up: between two multiples a delay of 0 is for
the next one, and exactly at a multiple (`exact`) it is for now. `exact` may hold or not when
a unit begins, and ends when a microsecond passes (`Moment`). A tick at a multiple may be over
within its microsecond, and then what is set next may make its slot again, while the
registrations of the timers that fired still name places in it. `instants` counts such
ticks; it is history.

`Rudp` uses it for the timers of the endpoints: the loop is at `tick`, `dispatch`, `select` or
`event` (`dispatch` again, after which comes the next tick), a coroutine is in `co`, what the
dispatcher holds is `queue`, with the function that `run_at` or the timer posted. Of KCP there
is `inbox` (messages that can be read), `unacked` (`ikcp_waitsnd`) and `flush` (when
`ikcp_check` wants the next update). The coroutine of an endpoint reads, writes and returns as
it likes; datagrams come at any time, acknowledgements only for what was sent. A write that is
resent after a lost datagram is in `Delays`: with pieces unacknowledged the timer may be set
for now.

The dispatcher cancels by address until its queue is empty. Of `cancel_contexts` the model keeps
how many addresses of destroyed endpoints are free (`freed`) and which endpoints were allocated
there since (`skipped`): `Allocate` takes a free one or any other, as the allocator likes, `Skip`
passes over the entries of who is there, and the end of the dispatch forgets both (`DispatchDone`).
`reused` is history: a free one was taken at some time. The entries of an endpoint that is
destroyed are all skipped, and `Without` leaves them out when it is swept. `add_connection`
allocates before it sweeps, so that the address comes from an earlier sweep of the same dispatch.

`TimePoint` is the code's: it adds `base_time` to a delay and compares the sum with the
time points of registrations, so that the branch of `set_timer` that keeps a timer which is
near enough is never taken. That is why the branch `near` of `SetTimer` has no effect in
any state, and it is what `NeverStranded` rests on: the mutant `TimePointNow` shows that with
the sum put right the id of a timer that has fired, which nobody resets, would pass for
one to come, and the chain would break. It needs `base_time` to be beyond any delay, which
`FarAssumption` says: it is the time since 1970 at which the socket was made (`rudp.cc:92`),
and the margin of `set_timer` is 5 ms.

`Only`, the filter of `Due` and `Without`, is a recursive function of the places of a
sequence, and not the library's operator, so that it can be reasoned about.

### TcpPackage and TrackerLink

`TcpPackage` is the framing: bytes are places in their package, a read takes any part of
what has come, a content's buffer is kept from read to read, a head's is made anew, so that
a head in two parts is lost. What a head holds that was not read, or is not at the place of
a head, is open (`Sizes`).

`TrackerLink` is a tracker that links to another (`link`, `addr`, `entry`, the wait of
`await_timeout` as `span` and `left`) and the other's `server_main` for each address the
connection came from (`serving`), with its entry for that address (`peers`). The other may
stop answering for good (`Stall`) or start anew. `lost` is history: a head was split, or
used without being read, on this link. Pings are small, so a write does not wait.

## 3. The runs

| run | checks | shows |
|---|---|---|
| `EventLoop_safety` | `TypeOK`, `NoLostExit`, `ImplementsMailbox`, `DeadNeverResumed` | FIFO, once per post, cancellation with addresses reused, exit not lost |
| `EventLoop_live` | `ExitStops`, `PostedIsTaken` | `exit` ends `run` with no timer armed, contexts destroyed anywhere; with a periodic timer posted work is taken in the end |
| `EventLoop_lostwakeup` | `NoLostWakeUp` violated | without a timer it may wait for ever |
| `EventContext_safety` | `ReturnTogether`, `RegisteredReturn` | registered threads leave `run` together, all of them after `exit_all` |
| `RwLock_safety` | `WordCountsHolders`, `ImplementsSharedLock`, `SomeoneEnters` | exclusion and progress |
| `ThreadPool_safety` | `TypeOK`, `RunsAtMostOnce`, `DrainedOnReturn`, `PushedIsRun` | every task once, before the destructor returns |
| `Peer_safety` | `TypeOK`, `DeliveredInOrder`, `ConnectedIsKnown`, `SessionsMatch` | order and integrity of what handlers get; sessions are kept apart |
| `Peer_live` | `EverythingArrives`, `SomeoneConnects` | nothing stays queued, one attempt connects |
| `Tracker_safety` | `TypeOK`, `OneRecordPerAddress`, `ListedWasThere`, `QuietIsListed`, `ConnectsAndSends` | registration, heartbeats and lists agree through reconnections, reuse of addresses and restarts; a client always connects again and sends what it was asked |
| `Kcp_stream` | `TypeOK`, `UnreceivedIsKept`, `ImplementsStream`, `EverythingIsRead` | over a network that loses, repeats and reorders, in every mode of `config`, messages are read once, whole, in order, and in the end |
| `TrackerLink_safety` | `TypeOK`, `ListedIsServed`, `LinkedIsListed`, `LinkEnds`, `QuietIsClosed` | entries, links and coroutines of two trackers agree through restarts, refusals, stalls and reuse of ports |
| `Rudp_safety` | `TypeOK`, `OneTimer`, `ReadyIsQueued`, `NeverStranded`, `LingerEnds` | also with slots made again in the microsecond of their tick and addresses reused within a dispatch: what is to be called is what an endpoint has registered, none of a closed one, and no reader sleeps beside a message; but for these two cases, every endpoint has its next update or its start to come, and a close ends |

The violated property states what a comment of the code says; `PROJECT.json` quotes it.

`Rudp_safety` has 696,360 states. `NeverStranded` makes an exception of each of the two cases,
and needs both: the code breaks it there, as the first two of these statements say.

Six more statements of comments and tests are in the modules, in no run, and do not hold
of the code:

* `CancelsOwn` (`Rudp`; "remove timer", `timer.hpp:88`): now is a multiple of the precision, to the
  microsecond, when an endpoint's timer of no delay is set. Its time point is now, the tick
  calls it and deletes the slot, and in the same microsecond another endpoint sets a timer of
  no delay and makes the slot again. The first one's registration, kept since its timer fired
  (`rudp.cc:73`), now names the other's callback: its next `set_timer` switches that off. The
  other endpoint then waits with neither a timer nor a function queued. The next datagram for
  it resumes it and sets a timer; if none comes any more, what was lost is never
  resent, and a close does not read the acknowledgements that came. If the first one's
  place is beyond the slot's end, `cancel` writes past the vector (`timer.cc:73`), which the
  model takes to change no callback.
* `StartIsKept` (`Rudp`; `execute_dispatcher.hpp:50`): in one dispatch a sweep destroys an
  endpoint, and another is allocated where it was. The start that `run` posts is skipped by
  its address (`execute_dispatcher.cc:23`), and the new endpoint begins only when a datagram
  or a posted function comes for it after that dispatch. It takes two calls of `add_connection`
  in one dispatch after the close, as `peer_t` makes for its channels and two datagrams of
  unknown senders do.
* `ExitAllEndsRun` (`EventContext`): a thread between the construction of its loop and its
  registration (`event.cc:173`) when `exit_all` runs keeps a loop that nobody ends.
* `DestructorReturns` (`ThreadPool`): `exit` is set outside the mutex (`thread_pool.cc:37`),
  so a worker may test the predicate before and wait after `notify_all`, and `join` waits
  for ever.
* `BothConnect` (`Peer`): a peer that is connected does not answer an `init_req`
  (`peer.cc:193`), so of two that connect at once one may never be told, although
  `test/net/peer.cc:40` counts two. The same keeps a peer that restarts from connecting again.
* `QuietIsAlwaysClosed` (`TrackerLink`): after its first time-out `client_main` goes on with
  a head it has not read (`tracker.cc:329`); if that holds a size other than 0, the link
  waits for a content that does not come, whose read has no time-out.

The models have further behaviour of the code that no run states as a property:

* With `RemoteDestroy`, a cancellation by another thread comes too late for the entry
  `dispatch` has looked up already, or is forgotten by the `clear` at the end of
  `dispatch` before the entry it was meant for is reached: `DeadNeverResumed` fails.
* With `DestroySleeping`, `DeadNeverResumed` fails too: the timer of `stop_for` captures
  the context (`execute_context.cc:38`), the destructor cancels the context but not the
  timer, and when it fires after the cancelled set was cleared the dead context is queued
  and resumed.
* A context created by a coroutine at an address that was just cancelled is not started
  by the entry its `run` queued (see `Mailbox` above).
* `thread_pool_t::empty` looks at the queue only, so it is true while the last task
  runs, although its comment says otherwise (`thread_pool.hpp:62`).
* Every `init_rsp` calls `connect_handler`, and every job that runs on channel 0 before
  the first answer has sent an `init_req`: `on_peer_connect` may come more than once.
* `~event_context_t` does not wait: another thread may still be inside `run`, between
  the condition and its return.
* A node that receives more than one package since its last ping may not be in the lists
  although it is connected: each package puts the heartbeat off by up to `node_tick_timespan`,
  and the limit of `node_tick_times` is two (`tracker.cc:602`). `QuietIsListed` is stated
  for nodes that received at most one.
* Nodes are never removed from the tracker, and a heart refreshes whatever record its
  address has: a client that does not register keeps the node that had its address before in
  the lists (`tracker.cc:262`). `ListedWasThere` makes this exception.
* `request_update_trackers` called while `tmain` is not waiting, as in the handler of
  `source-client/peer.cc:48`, is dropped; `request_update_nodes` is not.
* A node client's timer that calls `connect_server` while there is a connection, after a
  request reconnected it, connects nothing but resets `wait_next_package`, and forgets the
  tracker's UDP address, which only a new connection brings back.
* A TCP head that comes in two parts loses the first (`tcp.cc:87`), and the stream is out
  of step from there on: `LinkedIsListed` and `QuietIsClosed` are stated for links on which
  that did not happen. An early wake-up makes `await_timeout` sleep as long as it has slept.
* Only the linking side has a time-out: `server_main` keeps the connection of a tracker that
  vanished until the connection breaks. When `client_main` returns normally, at a time-out
  or the end of the stream, its entry stays open for ever, and the tracker does not link to
  that one again, nor stops listing it before its `last_ping` is old.
* An entry of a tracker that is closed stays so when a connection comes from its port
  again: the next `trackers_req` erases the entry of a connection that is in use.
* `ikcp_send` never refuses for a full window, whatever `rudp.cc:310` says: `snd_queue`
  grows without bound. Only a message of 128 pieces or more is refused, and then `awrite`
  waits for ever.
* `pmain` reads with a buffer of 1472 bytes: a longer message is never taken by
  `ikcp_recv`, and the channel stands still. `Recv` takes a buffer that is large enough.
* A datagram that `ikcp_input` refuses stays at the head of `recv_queue` and blocks the
  rest; `inactive_timeout` is stored and never used, so an endpoint whose other side has
  vanished lingers for ever (`LingerEnds` assumes that acknowledgements come).
* `LingerEnds` is conditional on posted functions that do not write for ever: `run_at`
  finds an endpoint that is closing, and each write puts the end off.
* `udp_main` parses the bytes of a `Package` as the `UDPConnectionReq` inside it
  (`tracker.cc:357`), so that `magic` is 0 and each request to be connected is dropped.

### Bounds

* `EventLoop`: `MaxPosts` (2 to 4) entries ever queued, `MaxInc` (0 or 1) reuses of an
  address, one or two contexts, one or two other threads. The races need one entry in the
  dispatcher's hand, one behind it and one posted during the sleep; a further post
  shows the state after them. `TickDone`, `OnEvent` and the history counters stop at
  `MaxPosts`. `EventLoop_live` has one context, since which context is posted does not
  matter to waking up, and two other threads, of which one can exit while the other is
  inside `wake_up`.
* `EventContext`: three threads, the main one and two that join; each thread is in each
  step of `run` while another is in each other.
* `RwLock`: three threads give two readers and a writer, and two losers of one exchange.
  The count of readers is a natural number: 2^63 readers are not reached.
* `ThreadPool`: three workers, three tasks, one spurious wake-up; `CommitBound` ends the
  commit of a task beyond the bound.
* `Peer`: two peers, whose session ids are equal, different, or 0 on one side, one or two
  channels, `MaxOps` (0 or 2) operations of both
  applications together, fragments of one or two packages. Every pair of operations on
  the same or different queues, channels and sides is covered; a third would repeat
  the relation of one of them to the next.
* `Tracker`: an edge server beside one other client, which is an edge server without the key,
  a node of another session, or a client that does not register; two addresses, one request
  of the applications, of either of two kinds, and one failure (broken connection, refusal or
  restart of the tracker). The heartbeat is two units and a program connects again after
  one, so that both orders of any two times, and half a heartbeat, occur. Two addresses are
  what reuse by the other client needs. Requests for at most 500 nodes are assumed.

* `Kcp`: windows of two and three segments, messages of up to two pieces, `WND_RCV` 3;
  `MaxMessages` is 4, as many as `Quota` leaves room for, so it excludes nothing there;
  up to four pieces in one direction, or two and one in both, one or two faults, at most
  two datagrams on their way when an end is updated. Four pieces close the other's window,
  so that probes are needed; two faults lose a segment and its resend, or a segment and the
  acknowledgement of the next.
* `Rudp`: two endpoints, so that one is swept when the other is added and their timers share
  a slot; one is written to, at most two pieces not acknowledged, one datagram of each
  under way, delays of at most one unit. `MaxCallbacks` (1) bounds the callbacks that were
  switched off and not yet swept by a tick (`HasRoom`), beyond which nothing new comes, but for
  acknowledgements of an endpoint that closes, and no tick at the same time follows: more of them
  change nothing but places. `MaxFreed` (2) bounds the endpoints destroyed in a dispatch
  beyond which the application adds none: with two, one endpoint is swept, and another takes
  its address. `MaxInstants` (1) bounds the ticks that are over within their microsecond: one makes
  a slot again, whose registrations stay stale in all that follows. The proofs are for any
  number of them.
* `TrackerLink`: two addresses, two links, one head in two parts, one fault; a package is
  a head of two and a content of two bytes, so that both come in parts.

### Fairness

Weak fairness of the threads and coroutines that have a step to take: the operating
system schedules threads, a spinning or woken thread goes on, time passes, and a
coroutine yields in the end. Nothing obliges anyone to post, commit, connect or ask
for a lock, except that the main thread, whose loop is counted from the constructor,
does call `run`. In `Peer`, weak fairness of a coroutine with a job or a package is the
fairness of the loop (`PostedIsTaken` in `EventLoop_live`: RUDP endpoints have timers) and
KCP's retransmission. Weak fairness of `RunJob` and `Start` alone is what the FIFO queue
of the dispatcher gives: a posted job is not overtaken for ever by packages.

In `Tracker`, weak fairness of time and of all that the loops do for a client, together: a
connection attempt succeeds if it is not refused. Nothing obliges applications to ask, or
connections to break.

In `Kcp`, the first datagram leaves the network, read or lost; the application reads; and
timers of what is really lost expire (`FlushLost`), as `ikcp_check` schedules them. Faults
are bounded, so a resend gets through. In `Rudp`, the loop goes on and so does time, by units
and by the microsecond (`Moment`), and an acknowledgement that keeps being possible, for an
endpoint that is written to, comes (strong fairness: it is delivered between rounds of the
loop, as KCP resends until it does). In `TrackerLink`, the loops run what is
ready and time passes; nothing obliges a stalled tracker to do anything.

Deadlock is checked for `RwLock`. In the other runs the system may stop: the loop after
exit, the pool after its destructor, the peers with nothing to send, or a bound reached.

## 4. The proofs

Every theorem holds for all values of the constants that the modules' `ASSUME`s admit: any number
of threads, tasks, clients, ports, channels, messages and faults, any windows, sizes and times.
Bounds of a model are constants like the others, so a theorem holds for each of them. The
assumptions say no more than the code: sets of threads, workers, peers' channels are finite; the
main thread is one of an event context's (`MainAssumption`); a pool has a thread
(`WorkersAssumption`: without one nobody would run what is left at the end); there are two peers
and two ends; windows, sizes and periods are at least 1 (`Windows`, `SizeAssumption`,
`TimeAssumption`); the clock is far from any delay (`FarAssumption`); the timers of a `Rudp`'s loop
are its endpoints', finitely many (`EndpointAssumption`), and its bounds are at least 1
(`BoundsAssumption`); markers such as `None`, `Nobody` and `Server` are no thread, no address and
no endpoint.

Each safety theorem has an inductive invariant of its own: the property alone does not say
enough of the state to survive a step.

`EventLoop_proofs`:

* `TypeCorrect`: `Spec => []TypeOK`. `TypeInv` is `TypeOK` with what the types need to be
  preserved: an entry in the dispatcher's hand exactly in `check` and `run`, a queue that
  is not empty at `pop` (only the loop takes entries), a handler at `lookup`.
* `ExitNeverLost`: `Spec => []NoLostExit`. The invariant covers the two ways to the sleep:
  from the retest of `is_exit` on, a set flag comes with a writer about to write the
  eventfd, or with the eventfd written.
* `CancellationSafe`: if no other thread destroys contexts and none is destroyed asleep,
  `Spec => DeadNeverResumed`, reuse of addresses included. `CancelInv` says that every
  entry of an ended life, queued or in hand, has its address in the cancelled set, that
  no timer of a dead context is armed, and that when the set is cleared the queue holds
  no such entry. That is where both rules are needed: with `DestroySleeping` or
  `RemoteDestroy` the property fails.
* `EventLoopImplementsMailbox`: under the same rules `Spec => ImplementsMailbox`, by cases
  over the actions. The refinement mapping counts the entry in the dispatcher's hand as
  pending until it has been looked up, and as gone every ended life of an address.
  `CancelInv` gives the step `Resume`; `CancelledDied` (a cancelled address is dead now
  or was reused) gives the step `Skip`.

`Threads_proofs`, of `EventContext` and `RwLock`:

* `NobodyLeavesAlone`: `ContextSpec => []ReturnTogether`. `ContextInv` counts: `loop_counter` is
  the number of registered loops not yet counted out (`CounterIsActive`). A thread returns when
  it reads 0, and what it read stays true: a loop ends only after `exit` is set (`ExitFirst`),
  and after that no thread registers one, so that the count only falls.
* `WordCorrect`: `Spec => [](TypeOK /\ WordCountsHolders)` for any finite set of threads.
  `WordCountsHolders` is inductive with the types: an exchange succeeds only if the word
  still is what was read, so a reader's stale `old` does no harm. `CountChanges` is the
  lemma on cardinalities. `TypeCorrect` states the part that the count never falls below 0;
  `RwLock_safety` leaves `TypeOK` to this proof.
* `RwLockImplementsSharedLock`: `Spec => ImplementsSharedLock`.

`ThreadPool_proofs`:

* `TypeCorrect`, `RunsOnce` and `Drained` follow from one invariant, `PoolInv`. The mutex is
  held exactly by the worker between `lock` and `unlock` (`MutexHeld`), so the front that
  a worker looked at is the one it removes (`QueueInOrder`: the queue holds the last tasks
  pushed, in order), and no two workers have the same task (`RunsCounted`). `IdleCounted`
  is an inequality, as a worker that leaves from the wait stays counted idle. `Leaving` is
  what `Drained` rests on: the queue is empty when the last worker ends, because a task
  commits only while the worker that runs it has yet to look at the queue again.

`Peer_proofs`:

* `Delivered`: `Spec => []DeliveredInOrder`. `DeliveryInv` says of each kind of item that the
  ones handed to the handler, the one in the buffer, those on their way and those in the queue
  are all that were queued, numbered in a row (`StreamInOrder`), and that the
  first package of a fragment is followed by its rest and nothing in between (`Pieces`), which
  is why the single buffer of a channel is enough. The argument needs `RunJob` to send a
  whole fragment in one step, as the code does.
* `KnownWhenConnected` and `SameSession`: `HandshakeInv` says that a request on its way carries
  its sender's session, and that an answer on its way is of a peer that runs channel 0
  and has found the sessions equal.
* `TypeCorrect`: with `BoundInv`, the number of operations per queue. The lengths of queues
  follow from the numbers of the items in them.

`Tracker_proofs`:

* `RegistryCorrect`: `Spec => []OneRecordPerAddress`, for any clients, addresses and times.
  `RegistryInv` adds the types of `nodes` and `infos` and that a connection the server serves
  has an address: `nodes[addr[c]]` is what a join or a heart looks up. Only `Join` and a
  restart change which address has which record (`SameAddresses` covers the others).
* `TypeCorrect`: `TypeInv` adds that nothing is on its way where there is no connection.
* `AnswersAreOfNodes`: `Spec => []ListedWasThere`. `ListingInv` relates each record to who is or
  was at its address (`FreshIsThere`), which `TimePasses` keeps because the age of a record
  and the time since its node left grow together. For the records of nodes that are there
  it needs `Registering`: the registration is the first package of a connection, so that a
  heart of a client that registers is never read before it. Of `Chosen`, a recursive function,
  it needs that what the scan collects is listed, in `Scan(start)`, and without repetition.
* `QuietStaysListed`: `Spec => []QuietIsListed`. `Beats` bounds the age of the record and
  what is left of the client's wait together: by one tick if it heard nothing since its ping,
  by two if it heard one package, unless a request or an answer is on its way, in which case
  no time passes. `JobsSend` excludes that a job shortens a wait and then sends nothing.

`TrackerLink_proofs`:

* `ServedCorrect`: `Spec => []ListedIsServed`, for any ports, sizes, times and bounds. The
  invariant adds `ConnectingIsFree`: nobody serves the address a connection is being made
  from, so that the entry of a former connection from there is closed or gone when the
  new one comes. A coroutine opens the entry of its own address only, and closes it when it ends.
* `TypeCorrect`: with the types of readers and streams and that streams exist with connections.
* `LinkedStaysListed`: `Spec => []LinkedIsListed`. `LinkedInv`, for a link on which no head was
  lost: what is on its way is a run of bytes that begins at the byte the reader is at
  and ends with a package (`Flow`), and the age of the entry and what is left of the wait
  make at most one tick. `Fresh` gives it at the start of a connection.

`Kcp_proofs`:

* `KcpCorrect`: `Spec => []KcpInv`. For each direction there are the pieces `T` that were
  written, cut into the messages at `C`, and `Right` says where they are. What has number
  `sn` in a buffer, in a queue or in a segment on its way is piece `sn` of `T` (`Of`); the
  queue of what can be read begins where the last message read ended; every piece not
  received in order is in `snd_buf` or in the other's `rcv_buf` (`Kept`); what is acknowledged,
  in `acklist` or on its way, was received, and no `una` is beyond what the receiver expects
  (`AcksRight`, `SegRight`). The last two are why a datagram that is repeated or comes late
  does no harm: numbers only grow, so an old acknowledgement stays true, and an old piece is
  the piece of its number for ever.
* `TypeCorrect` (order and windows) and `UnreceivedStaysKept` follow from it.
* `KcpImplementsStream`: `Spec => ImplementsStream`. `Recv` is a step of `Stream` because the
  queue of what can be read is a run of `T` from the start of the next message, so that the
  first `frg` 0 in it ends that message. Everything but `Send` and `Recv` is a stutter.

`Rudp_proofs`:

* `RudpInductive`: `Spec => []RudpInv`, on which the others rest. Its parts relate what
  no single property does. `TimersRight`: a callback that will be called is the one its
  owner has registered (`OnIsRegistered`), what a registration names is its owner's (`NamesOwn`)
  as long as it lives (`Lives`), and who is not open has registered nothing. A registration for a
  later time lives. One for now lives until the tick of its time, as long as no tick was over
  within its microsecond (`instants` is 0): then the tick ends the exact multiple, and what
  is set next is for later. `Timed`: while `instants` is 0, an endpoint whose coroutine waits has
  a timer, or the timer's function is in the dispatcher's queue. `Skipping`: whom the
  dispatcher skips has not begun, and there is nobody unless `reused`. `QueuedAreMade`: nobody
  in that queue was destroyed. `Running`: a coroutine runs in an open endpoint, while the loop
  dispatches. `Acknowledged`: acknowledgements, in the kernel and in an endpoint's queue, are of
  pieces sent.
* `OneTimerEach`: `Spec => []OneTimer`, without exception. `CancelKeepsOthers` and
  `InsertKeepsOthers` keep it for the other endpoints though a cancel may hit one of them, which
  only switches off; while `instants` is 0 it hits none (`CancelKeepsTimers`). `SetTimerIs` is the
  lemma on `set_timer`, which cancels and inserts in every case, as nothing is near
  (`NothingIsNear`, from `FarAssumption`); `CloseTimers` says that `close` finds every callback
  that is on. `DueIs` and `WithoutIs` say what the tick posts and what the sweep leaves in the
  queue.
* `NoneStranded`: `Spec => []NeverStranded`, from `Timed` and, for those that have not begun,
  `ReadyInv`. The two exceptions are in the property, as history, and not assumptions.
* `NobodyForgotten`: `Spec => []ReadyIsQueued`, with `ReadyInv`: inductive given `RudpInv`, without
  exception. An entry leaves the queue when its endpoint is resumed, and then goes on,
  or sleeps with all that came read; when the timer's function or a posted one runs, which
  puts an entry in front (`GoesOn`); when a sweep takes it, with its endpoint (`Grows`,
  `EntriesFor`); or when it is skipped, and then its endpoint has not begun (`SkipReady`).
* `TypeCorrect`: `Spec => []TypeOK`. `Acks(e) <= unacked[e]` needs the acknowledgements still in the
  kernel to be counted (`Acknowledged`), with lemmas on counting in sequences.

Recursive functions (`Chosen`, `Only`, the loops of `ikcp_input` and `ikcp_flush`) are reasoned
about as the provers allow: `Induction` is a lemma about *sets* of numbers, proved from the least
element of what would be missing (`WFMin`), and each proof first shows that a function with the
recursive equations exists. What such a function computes is never needed, only what it keeps.

Every invariant that a passing run checks is the subject of a theorem, and so is each refinement.
Only model-checked: liveness, which is out of the provers' reach: `ExitStops`, `PostedIsTaken`,
`RegisteredReturn`, `SomeoneEnters`, `PushedIsRun`, `EverythingArrives`, `SomeoneConnects`,
`ConnectsAndSends`, `EverythingIsRead`, `LinkEnds`, `QuietIsClosed`, `LingerEnds`.

## 5. What is not modelled

* Data races on plain variables (`is_exit`, `has_wake_up`, `exit`) are taken as
  interleavings of whole accesses. The loops that read them contain system calls, so
  reads are not hoisted; orders weaker than sequential consistency only add behaviours
  to those that already violate `NoLostWakeUp`.
* RUDP with several loops. Its races end in memory that was freed, or in a deadlock, and a
  property of what comes after would say nothing: `check_unknown` uses a map entry after
  it released `map_lock` (`rudp.cc:357`); the sweep of `add_connection` may free an endpoint
  whose coroutine is between `ikcp = nullptr` and its end; `close_all_peer` holds `map_lock`
  and an endpoint's lock while it waits for a function on another loop, whose thread may be
  spinning for `map_lock` in `find`, and sets the id to -1 before that function uses it
  (`rudp.cc:507`).
* A key added again while its closed endpoint is not swept: `emplace` keeps the old entry,
  and the new endpoint is freed and used (`rudp.cc:217`).
* A send buffer of the kernel that is full. `udp_output` then waits in the middle of
  `ikcp_flush` (`rudp.cc:541`; the comment above it says that sendto never waits), and the
  next function posted to the endpoint runs on a block that is half flushed.
* Clocks that step back (`gettimeofday`). In `Rudp` a unit of time passes in the sleep only, so
  a dispatch sees one unit; and `stop_for` removes its timer with the id -1 after it fired
  (`execute_context.cc:43`), which at the boundary of `CancelsOwn` indexes a slot that another
  made again: a context's timer is in `EventLoop`, which has no slots.
* Of KCP: sequence numbers beyond 2^32, stream mode (never set), `dead_link` and `state`
  (never read by `rudp.cc`), round-trip times as numbers.
* `udp_main` and `request_connect_node`, since no request is ever relayed (see above).
* The GUI, the video code, Windows and `select` demultiplexers, and unfinished parts (load
  balance, NAT, the viewer client's peer). `peer_t::disconnect` is called by no program.
* The edge server's store of fragments (see the plan) and the choice of a loop by load.

## 6. Plan

Done: `EventLoop` and its refinement, `RwLock`, `ThreadPool`, `EventContext`, `Peer`,
`Tracker`, `Kcp` and its refinement, `TimeManager` and `Rudp`, `TcpPackage` and `TrackerLink`.

Next, in this order:

1. `EdgeStore`: fragments stored by the edge server and pulled by viewers, with the peer
   that the source client reconnects.
2. `Peer` with restarts and with the identity of the peer records.
