-------------------------------- MODULE Tracker --------------------------------
(***************************************************************************)
(* A tracker server (tracker_server_t) and the node clients                *)
(* (tracker_node_client_t) connected to it: registration of nodes, their   *)
(* heartbeats, the lists of nodes the server answers with, requests of the *)
(* applications, broken connections and the programs' reconnection timers. *)
(*                                                                         *)
(* A handler runs to its next read without yielding, since writes go to    *)
(* the socket's buffer, so each is one step. Time is counted in units of   *)
(* which node_tick_timespan has Tick. It passes when nothing is due: the   *)
(* delays of the network and of the loops are short of a unit.             *)
(***************************************************************************)
EXTENDS Naturals, Sequences, FiniteSets

CONSTANTS
  Clients,      \* the node clients
  Askers,       \* the clients whose applications ask for nodes and trackers
  Addrs,        \* the addresses their connections can come from
  NoAddr,       \* no connection
  Profiles,     \* how the clients can be configured: [Clients -> Profile]
  NodeRequests, \* the parameters applications ask for nodes with
  Tick,         \* node_tick_timespan
  RetryDelay,   \* what the program waits before it connects again
  MaxRequests,  \* bound: requests of all applications
  MaxBreaks     \* bound: broken or refused connections and server restarts

Strategies == {"random", "min_workload", "edge_nodes"}
Profile    == [sid : Nat, key : BOOLEAN, registers : BOOLEAN, garbage : BOOLEAN]
ExpireAge  == 2 * Tick   \* node_tick_times * node_tick_timespan

ASSUME AddrsAssumption    == NoAddr \notin Addrs
ASSUME AskersAssumption   == Askers \subseteq Clients
ASSUME ProfilesAssumption == Profiles \subseteq [Clients -> Profile]
ASSUME RequestsAssumption == NodeRequests \subseteq [strategy : Strategies, count : Nat]
ASSUME TimeAssumption     == Tick \in Nat \ {0} /\ RetryDelay \in Nat \ {0}
ASSUME BoundsAssumption   == MaxRequests \in Nat /\ MaxBreaks \in Nat

VARIABLES
  profile,    \* sid, whether the edge key is right, as_peer_server, and what the
              \* uninitialized request_trackers happens to be; never changes
  st,         \* the client's socket: "down" (null), "connecting", "wait" (in tmain's await)
  timers,     \* the units left of each timer that calls connect_server
  span, left, \* the wait tmain is in: the time it was begun with, the time left of it
  waiting,    \* wait_next_package
  wantTrackers, \* request_trackers
  queue,      \* node_queue
  jobs,       \* functions posted to the client's coroutine with start_with
  addr,       \* the address the client's connection comes from
  serving,    \* the server's coroutine of that connection runs
  up, down,   \* packages on their way to the server, and to the client
  nodes,      \* nodes: the index of an address in infos, 0 for none
  infos,      \* node_infos; age is what passed since last_ping
  asked, breaks, \* how much of the bounds is used
  heard,      \* history: packages the client received since its last ping (at most 2)
  gone        \* history: time since the last connection left that keeps a record fresh

timing == <<timers, span, left>>
client == <<st, waiting, wantTrackers, queue, jobs, addr>>
server == <<nodes, infos>>
bounds == <<asked, breaks>>
vars   == <<profile, client, timing, serving, up, down, server, bounds, heard, gone>>

Sids    == {p[c].sid : p \in Profiles, c \in Clients} \cup {0}
Msg(t)  == [type |-> t]
CapAge(n) == IF n > ExpireAge THEN ExpireAge + 1 ELSE n

(* main calls connect_server at once.                                      *)
Init == /\ profile \in Profiles
        /\ st = [c \in Clients |-> "down"] /\ timers = [c \in Clients |-> {0}]
        /\ span = [c \in Clients |-> 0] /\ left = [c \in Clients |-> 0]
        /\ waiting = [c \in Clients |-> FALSE] /\ wantTrackers = [c \in Clients |-> profile[c].garbage]
        /\ queue = [c \in Clients |-> <<>>] /\ jobs = [c \in Clients |-> <<>>]
        /\ addr = [c \in Clients |-> NoAddr] /\ serving = [c \in Clients |-> FALSE]
        /\ up = [c \in Clients |-> <<>>] /\ down = [c \in Clients |-> <<>>]
        /\ nodes = [a \in Addrs |-> 0] /\ infos = <<>>
        /\ asked = 0 /\ breaks = 0 /\ heard = [c \in Clients |-> 0]
        /\ gone = [a \in Addrs |-> [s \in Sids |-> ExpireAge + 1]]
------------------------------------------------------------------------------
(* Connecting. client_t::connect does nothing while there is a socket.     *)

(* Mutant: connect makes a socket whether or not there is one.             *)
ConnectServerAnew(c) ==
  /\ 0 \in timers[c]
  /\ timers' = [timers EXCEPT ![c] = @ \ {0}]
  /\ waiting' = [waiting EXCEPT ![c] = FALSE]
  /\ st' = [st EXCEPT ![c] = "connecting"]
  /\ UNCHANGED <<profile, wantTrackers, queue, jobs, addr, span, left, serving, up, down,
                 server, bounds, heard, gone>>

(* The timer of the program's error handler, and main at first.            *)
ConnectServer(c) ==
  /\ 0 \in timers[c]
  /\ timers' = [timers EXCEPT ![c] = @ \ {0}]
  /\ waiting' = [waiting EXCEPT ![c] = FALSE]
  /\ st' = [st EXCEPT ![c] = IF @ = "down" THEN "connecting" ELSE @]
  /\ UNCHANGED <<profile, wantTrackers, queue, jobs, addr, span, left, serving, up, down,
                 server, bounds, heard, gone>>

NodeReq(c, r) == [type |-> "node_req", sid |-> profile[c].sid, strategy |-> r.strategy, count |-> r.count]

(* update_nodes: one package for each request that waits.                  *)
UpdateNodes(c, q) == [i \in 1..Len(q) |-> NodeReq(c, q[i])]

Prologue(c) == (IF profile[c].registers THEN <<Msg("init")>> ELSE <<>>) \o <<Msg("info_req")>>

(* Mutant: only jobs send the requests for nodes.                          *)
LoopTopNoNodes(c, before, q) ==
  /\ up' = [up EXCEPT ![c] = @ \o before \o (IF wantTrackers[c] THEN <<Msg("trackers_req")>> ELSE <<>>)]
  /\ wantTrackers' = [wantTrackers EXCEPT ![c] = FALSE]
  /\ queue' = [queue EXCEPT ![c] = q]
  /\ waiting' = [waiting EXCEPT ![c] = TRUE]
  /\ span' = [span EXCEPT ![c] = Tick] /\ left' = [left EXCEPT ![c] = Tick]

(* The top of tmain's loop, to the next await: before is what the client   *)
(* wrote ahead of it, q what is in node_queue.                             *)
LoopTop(c, before, q) ==
  /\ up' = [up EXCEPT ![c] = @ \o before
              \o (IF wantTrackers[c] THEN <<Msg("trackers_req")>> ELSE <<>>) \o UpdateNodes(c, q)]
  /\ wantTrackers' = [wantTrackers EXCEPT ![c] = FALSE]
  /\ queue' = [queue EXCEPT ![c] = <<>>]
  /\ waiting' = [waiting EXCEPT ![c] = TRUE]
  /\ span' = [span EXCEPT ![c] = Tick] /\ left' = [left EXCEPT ![c] = Tick]

(* What a handler the client calls asks for: request_update_nodes pushes,  *)
(* and posts a job if wait_next_package has been left set by a connection  *)
(* that broke; request_update_trackers is dropped.                         *)
HandlerAsks(c) == {<<>>} \cup {<<r>> : r \in IF c \in Askers /\ asked < MaxRequests THEN NodeRequests ELSE {}}

Established(c) ==
  /\ st[c] = "connecting"
  /\ \E a \in Addrs \ {addr[d] : d \in Clients}, ask \in HandlerAsks(c) :
       /\ addr' = [addr EXCEPT ![c] = a]
       /\ asked' = asked + Len(ask)
       /\ jobs' = [jobs EXCEPT ![c] = IF ask # <<>> /\ waiting[c] THEN <<"nodes">> ELSE <<>>]
       /\ LoopTop(c, Prologue(c), queue[c] \o ask)
  /\ st' = [st EXCEPT ![c] = "wait"]
  /\ serving' = [serving EXCEPT ![c] = TRUE]
  /\ heard' = [heard EXCEPT ![c] = 0]
  /\ UNCHANGED <<profile, timers, down, server, breaks, gone>>

Allowed(c) == profile[c].sid # 0 \/ profile[c].key

(* A connection that keeps the record of its address in session s fresh:   *)
(* one that registered for s, or one that does not register at all, whose  *)
(* hearts are taken for those of whoever had the address.                  *)
Holds(c, s) == IF profile[c].registers THEN profile[c].sid = s /\ Allowed(c) ELSE TRUE

(* The application's error handler: a timer that connects again.           *)
RetryLater(c) == timers' = [timers EXCEPT ![c] = @ \cup {RetryDelay}]

(* Mutant: the error handler connects itself, while there is a socket.     *)
ErrorAtOnce(c) ==
  /\ st' = [st EXCEPT ![c] = "down"]
  /\ UNCHANGED timers
  /\ span' = [span EXCEPT ![c] = 0] /\ left' = [left EXCEPT ![c] = 0]
  /\ jobs' = [jobs EXCEPT ![c] = <<>>] /\ addr' = [addr EXCEPT ![c] = NoAddr]
  /\ serving' = [serving EXCEPT ![c] = FALSE]
  /\ up' = [up EXCEPT ![c] = <<>>] /\ down' = [down EXCEPT ![c] = <<>>]
  /\ heard' = [heard EXCEPT ![c] = 0]
  /\ gone' = [a \in Addrs |-> [s \in Sids |-> IF a = addr[c] /\ Holds(c, s) THEN 0 ELSE gone[a][s]]]

(* An exception leaves tmain, or connect_to fails: wait_server calls the   *)
(* error handler, then closes the socket.                                  *)
Error(c) ==
  /\ st' = [st EXCEPT ![c] = "down"]
  /\ RetryLater(c)
  /\ span' = [span EXCEPT ![c] = 0] /\ left' = [left EXCEPT ![c] = 0]
  /\ jobs' = [jobs EXCEPT ![c] = <<>>] /\ addr' = [addr EXCEPT ![c] = NoAddr]
  /\ serving' = [serving EXCEPT ![c] = FALSE]
  /\ up' = [up EXCEPT ![c] = <<>>] /\ down' = [down EXCEPT ![c] = <<>>]
  /\ heard' = [heard EXCEPT ![c] = 0]
  /\ gone' = [a \in Addrs |-> [s \in Sids |-> IF a = addr[c] /\ Holds(c, s) THEN 0 ELSE gone[a][s]]]

(* Refused, timed out or reset. An exception out of the await leaves       *)
(* wait_next_package as it was.                                            *)
Break(c) ==
  /\ st[c] # "down" /\ breaks < MaxBreaks
  /\ breaks' = breaks + 1
  /\ Error(c)
  /\ UNCHANGED <<profile, waiting, wantTrackers, queue, server, asked>>

(* The server closed: tmain reads the end of the stream, takes it for a    *)
(* head, and the read of the content throws.                               *)
EndOfStream(c) ==
  /\ st[c] = "wait" /\ ~serving[c] /\ down[c] = <<>>
  /\ waiting' = [waiting EXCEPT ![c] = FALSE]
  /\ Error(c)
  /\ UNCHANGED <<profile, wantTrackers, queue, server, bounds>>
------------------------------------------------------------------------------
(* Requests of the application, from a timer on the client's loop.         *)

PostJob(c, j) == jobs' = [jobs EXCEPT ![c] = IF st[c] = "wait" /\ waiting[c] THEN Append(@, j) ELSE @]
ConnectIfDown(c) == st' = [st EXCEPT ![c] = IF @ = "down" THEN "connecting" ELSE @]

RequestUpdateNodes(c, r) ==
  /\ c \in Askers /\ asked < MaxRequests /\ asked' = asked + 1
  /\ queue' = [queue EXCEPT ![c] = Append(@, r)]
  /\ PostJob(c, "nodes")
  /\ ConnectIfDown(c)
  /\ UNCHANGED <<profile, waiting, wantTrackers, addr, timing, serving, up, down, server,
                 breaks, heard, gone>>

RequestUpdateTrackers(c) ==
  /\ c \in Askers /\ asked < MaxRequests /\ asked' = asked + 1
  /\ wantTrackers' = [wantTrackers EXCEPT ![c] = @ \/ st[c] # "wait"]
  /\ PostJob(c, "trackers")
  /\ ConnectIfDown(c)
  /\ UNCHANGED <<profile, waiting, queue, addr, timing, serving, up, down, server,
                 breaks, heard, gone>>

(* A job runs on the waiting coroutine and wakes it: await_timeout goes on *)
(* to wait for as long as it has waited, what sleep returns.               *)
RunJob(c) ==
  /\ st[c] = "wait" /\ jobs[c] # <<>>
  /\ jobs' = [jobs EXCEPT ![c] = Tail(@)]
  /\ \/ /\ Head(jobs[c]) = "nodes"
        /\ up' = [up EXCEPT ![c] = @ \o UpdateNodes(c, queue[c])]
        /\ queue' = [queue EXCEPT ![c] = <<>>]
     \/ /\ Head(jobs[c]) = "trackers"
        /\ up' = [up EXCEPT ![c] = Append(@, Msg("trackers_req"))]
        /\ UNCHANGED queue
  /\ span' = [span EXCEPT ![c] = span[c] - left[c]]
  /\ left' = [left EXCEPT ![c] = span[c] - left[c]]
  /\ UNCHANGED <<profile, st, waiting, wantTrackers, addr, timers, serving, down, server,
                 bounds, heard, gone>>

(* tmain takes one package, and calls a handler for it.                    *)
Receive(c) ==
  /\ st[c] = "wait" /\ down[c] # <<>>
  /\ down' = [down EXCEPT ![c] = Tail(@)]
  /\ \E ask \in IF Head(down[c]).type = "info_rsp" THEN {<<>>} ELSE HandlerAsks(c) :
       /\ asked' = asked + Len(ask)
       /\ LoopTop(c, <<>>, queue[c] \o ask)
  /\ heard' = [heard EXCEPT ![c] = IF @ < 2 THEN @ + 1 ELSE 2]
  /\ UNCHANGED <<profile, st, jobs, addr, timers, serving, server, breaks, gone>>

(* Nothing for the time of the wait: heartbeat.                            *)
Timeout(c) ==
  /\ st[c] = "wait" /\ left[c] = 0
  /\ LoopTop(c, <<Msg("heart")>>, queue[c])
  /\ heard' = [heard EXCEPT ![c] = 0]
  /\ UNCHANGED <<profile, st, jobs, addr, timers, serving, down, server, bounds, gone>>
------------------------------------------------------------------------------
(* The server: one package of a connection (server_main).                  *)

Arrived(c, t) == serving[c] /\ up[c] # <<>> /\ Head(up[c]).type = t
Consume(c)    == up' = [up EXCEPT ![c] = Tail(@)]
Reply(c, m)   == down' = [down EXCEPT ![c] = Append(@, m)]
ClientSide    == <<client, timing, asked, heard>>

(* Mutant: a node that comes back keeps the session it had.                *)
JoinKeepsSid(a, s) ==
  IF nodes[a] = 0
    THEN /\ nodes' = [nodes EXCEPT ![a] = Len(infos) + 1]
         /\ infos' = Append(infos, [addr |-> a, sid |-> s, age |-> 0])
    ELSE /\ infos' = [infos EXCEPT ![nodes[a]].age = 0]
         /\ UNCHANGED nodes

(* Mutant: every registration makes a record.                              *)
JoinAgain(a, s) == /\ nodes' = [nodes EXCEPT ![a] = Len(infos) + 1]
                   /\ infos' = Append(infos, [addr |-> a, sid |-> s, age |-> 0])

(* A known address gets no second record; its session and time are set.    *)
Join(a, s) ==
  IF nodes[a] = 0
    THEN /\ nodes' = [nodes EXCEPT ![a] = Len(infos) + 1]
         /\ infos' = Append(infos, [addr |-> a, sid |-> s, age |-> 0])
    ELSE /\ infos' = [infos EXCEPT ![nodes[a]].sid = s, ![nodes[a]].age = 0]
         /\ UNCHANGED nodes

(* An edge server must have the key, or the connection is closed.          *)
InitConnection(c) ==
  /\ Arrived(c, "init")
  /\ \/ /\ ~Allowed(c)
        /\ serving' = [serving EXCEPT ![c] = FALSE]
        /\ up' = [up EXCEPT ![c] = <<>>]
        /\ UNCHANGED server
     \/ /\ Allowed(c)
        /\ Join(addr[c], profile[c].sid)
        /\ Consume(c)
        /\ UNCHANGED serving
  /\ UNCHANGED <<profile, ClientSide, down, breaks, gone>>

(* Mutant: the heart is read and forgotten.                                *)
HeartIgnored(c) == /\ Arrived(c, "heart")
                   /\ Consume(c)
                   /\ UNCHANGED <<profile, ClientSide, serving, down, server, breaks, gone>>

(* Hearts of addresses that never registered are ignored.                  *)
Heart(c) ==
  /\ Arrived(c, "heart")
  /\ Consume(c)
  /\ infos' = IF nodes[addr[c]] = 0 THEN infos ELSE [infos EXCEPT ![nodes[addr[c]]].age = 0]
  /\ UNCHANGED <<profile, ClientSide, serving, down, nodes, breaks, gone>>

InfoReq(c) ==
  /\ Arrived(c, "info_req")
  /\ Consume(c) /\ Reply(c, Msg("info_rsp"))
  /\ UNCHANGED <<profile, ClientSide, serving, server, breaks, gone>>

TrackersReq(c) ==
  /\ Arrived(c, "trackers_req")
  /\ Consume(c) /\ Reply(c, Msg("trackers_rsp"))
  /\ UNCHANGED <<profile, ClientSide, serving, server, breaks, gone>>

(* Mutant: nodes are listed whenever they were heard of.                   *)
ListedAnyAge(i, s) == infos[i].sid = s

Listed(i, s) == infos[i].sid = s /\ infos[i].age <= ExpireAge

(* The scan of node_infos from start, round to it again.                   *)
Scan(start) == [k \in 1..Len(infos) |-> IF start + k - 1 > Len(infos) THEN start + k - 1 - Len(infos)
                                                                    ELSE start + k - 1]
(* What the loop adds: nodes that are listed, until there are count.       *)
Chosen(start, s, count) ==
  LET added[k \in 0..Len(infos)] ==
        IF k = 0 THEN <<>>
        ELSE IF Listed(Scan(start)[k], s) /\ Len(added[k - 1]) < count
             THEN Append(added[k - 1], Scan(start)[k])
        ELSE added[k - 1]
  IN  added[Len(infos)]

(* The session whose nodes a strategy lists.                               *)
Wanted(m) == IF m.strategy = "edge_nodes" THEN 0 ELSE m.sid

(* listed, the session they were listed for, is history.                   *)
NodeRsp(m, chosen) == [type |-> "node_rsp", sid |-> m.sid, listed |-> Wanted(m),
                       nodes |-> [k \in 1..Len(chosen) |-> infos[chosen[k]].addr]]

(* The answer to min_workload is empty.                                    *)
AnswerNodes(c) ==
  /\ Arrived(c, "node_req")
  /\ Consume(c)
  /\ LET m == Head(up[c]) IN
       \/ /\ infos = <<>> \/ m.strategy = "min_workload"
          /\ Reply(c, NodeRsp(m, <<>>))
       \/ /\ m.strategy # "min_workload"
          /\ \E start \in 1..Len(infos) : Reply(c, NodeRsp(m, Chosen(start, Wanted(m), m.count)))
  /\ UNCHANGED <<profile, ClientSide, serving, server, breaks, gone>>

Serve(c) == \/ InitConnection(c) \/ Heart(c) \/ InfoReq(c) \/ TrackersReq(c) \/ AnswerNodes(c)

(* The tracker's process ends and is started again: its maps are empty.    *)
Restart ==
  /\ breaks < MaxBreaks /\ breaks' = breaks + 1
  /\ serving' = [c \in Clients |-> FALSE]
  /\ up' = [c \in Clients |-> <<>>] /\ down' = [c \in Clients |-> <<>>]
  /\ nodes' = [a \in Addrs |-> 0] /\ infos' = <<>>
  /\ UNCHANGED <<profile, ClientSide, gone>>
------------------------------------------------------------------------------
(* Time passes when no package, job, timer or end of stream is due.        *)
Present(a, s) == \E c \in Clients : addr[c] = a /\ Holds(c, s)

Due(c) == \/ jobs[c] # <<>> \/ down[c] # <<>> \/ 0 \in timers[c]
          \/ st[c] = "wait" /\ (left[c] = 0 \/ up[c] # <<>> \/ ~serving[c])

TimePasses ==
  /\ \A c \in Clients : ~Due(c)
  /\ timers' = [c \in Clients |-> {t - 1 : t \in timers[c]}]
  /\ left' = [c \in Clients |-> IF st[c] = "wait" THEN left[c] - 1 ELSE left[c]]
  /\ infos' = [i \in 1..Len(infos) |-> [infos[i] EXCEPT !.age = CapAge(@ + 1)]]
  /\ gone' = [a \in Addrs |-> [s \in Sids |-> IF Present(a, s) THEN 0 ELSE CapAge(gone[a][s] + 1)]]
  /\ UNCHANGED <<profile, client, span, serving, up, down, nodes, bounds, heard>>

(* What the two loops do of themselves for a client and its connection.    *)
Proceed(c) == \/ ConnectServer(c) \/ Established(c) \/ EndOfStream(c)
              \/ RunJob(c) \/ Receive(c) \/ Timeout(c) \/ Serve(c)

Next == \/ TimePasses \/ Restart
        \/ \E c \in Clients :
             \/ Proceed(c) \/ Break(c)
             \/ RequestUpdateTrackers(c) \/ \E r \in NodeRequests : RequestUpdateNodes(c, r)

Spec == Init /\ [][Next]_vars

(* Loops take what is due and time goes on; a connection attempt ends.     *)
FairSpec == Spec /\ WF_vars(TimePasses) /\ \A c \in Clients : WF_vars(Proceed(c))
------------------------------------------------------------------------------
Requests == [type : {"node_req"}, sid : Sids, strategy : Strategies, count : Nat]
Plain    == {Msg(t) : t \in {"init", "heart", "info_req", "trackers_req", "info_rsp", "trackers_rsp"}}
Answers  == [type : {"node_rsp"}, sid : Sids, listed : Sids, nodes : Seq(Addrs)]

TypeOK ==
  /\ profile \in Profiles
  /\ st \in [Clients -> {"down", "connecting", "wait"}]
  /\ timers \in [Clients -> SUBSET (0..RetryDelay)]
  /\ span \in [Clients -> 0..Tick] /\ left \in [Clients -> 0..Tick]
  /\ \A c \in Clients : left[c] <= span[c]
  /\ waiting \in [Clients -> BOOLEAN] /\ wantTrackers \in [Clients -> BOOLEAN]
  /\ queue \in [Clients -> Seq(NodeRequests)] /\ jobs \in [Clients -> Seq({"nodes", "trackers"})]
  /\ addr \in [Clients -> Addrs \cup {NoAddr}] /\ serving \in [Clients -> BOOLEAN]
  /\ \A c \in Clients : st[c] = "wait" <=> addr[c] # NoAddr
  /\ up \in [Clients -> Seq(Requests \cup Plain)] /\ down \in [Clients -> Seq(Answers \cup Plain)]
  /\ nodes \in [Addrs -> 0..Len(infos)]
  /\ infos \in Seq([addr : Addrs, sid : Sids, age : 0..(ExpireAge + 1)])
  /\ asked \in 0..MaxRequests /\ breaks \in 0..MaxBreaks
  /\ heard \in [Clients -> 0..2] /\ gone \in [Addrs -> [Sids -> 0..(ExpireAge + 1)]]

(* The map and the vector agree whatever nodes come, leave and come back   *)
(* from an address another had: one record for each address.               *)
OneRecordPerAddress ==
  /\ \A a \in Addrs : nodes[a] # 0 => infos[nodes[a]].addr = a
  /\ \A i \in 1..Len(infos) : nodes[infos[i].addr] = i

(* Every node of an answer is registered with the session it is listed     *)
(* for (an edge server has the key), or has left that address no longer    *)
(* than two ticks ago; and none is in the answer twice. The exception is   *)
(* an address that has passed to a client that does not register: nodes    *)
(* are never removed, and its hearts count for the node that is gone.      *)
ListedWasThere ==
  \A c \in Clients : \A i \in 1..Len(down[c]) :
    LET m == down[c][i] IN
    m.type = "node_rsp" =>
      \A k \in 1..Len(m.nodes) :
        /\ Present(m.nodes[k], m.listed) \/ gone[m.nodes[k]][m.listed] <= ExpireAge
        /\ \A j \in 1..Len(m.nodes) : j # k => m.nodes[j] # m.nodes[k]

(* A registered node that has heard from the tracker at most once since    *)
(* its last ping is listed: one package puts the heartbeat off by one tick *)
(* at most, also when a job cuts the wait. With more packages it is not.   *)
QuietIsListed ==
  \A c \in Clients :
    /\ st[c] = "wait" /\ serving[c] /\ up[c] = <<>>
    /\ profile[c].registers /\ Allowed(c) /\ heard[c] <= 1
    => nodes[addr[c]] # 0 /\ Listed(nodes[addr[c]], profile[c].sid)

(* A client without a connection, or with requests for nodes that wait,    *)
(* comes to be connected with every request sent, wherever the requests    *)
(* were made (waiting, connecting, in a handler, without a connection) and *)
(* whatever breaks: a failure always leaves a timer that connects again.   *)
ConnectsAndSends ==
  \A c \in Clients : st[c] = "down" \/ queue[c] # <<>> ~> st[c] = "wait" /\ queue[c] = <<>>
===============================================================================
