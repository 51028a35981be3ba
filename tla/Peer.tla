--------------------------------- MODULE Peer ---------------------------------
(***************************************************************************)
(* Two peers (net::p2p::peer_t) that know each other's address: the        *)
(* init_req / init_rsp handshake, and the request and data queues of each  *)
(* channel, drained by jobs that run on the connection's coroutine.        *)
(*                                                                         *)
(* The RUDP connection below is used as the code uses it: per channel and  *)
(* direction a reliable stream of packages in order, which keeps trying    *)
(* until the other side has an endpoint. A job, and the handling of one    *)
(* package, run without yielding (awrite never waits), so each is a step.  *)
(* A fragment is as long as FragmentPieces packages.                       *)
(***************************************************************************)
EXTENDS Naturals, Sequences, FiniteSets

CONSTANTS
  Nodes,           \* the two peers
  Channels,        \* the channels both accept; 0 is one of them
  Callers,         \* the peers whose application calls connect_to_peer
  EarlyOps,        \* applications use a channel before its coroutine started
  FragmentPieces,  \* packages a fragment takes
  Sessions,        \* the session ids the two peers may be made with
  OpKinds,         \* the operations the applications use
  MaxOps           \* bound: operations of both applications

ASSUME NodesAssumption    == IsFiniteSet(Nodes) /\ Cardinality(Nodes) = 2 /\ Callers \subseteq Nodes
ASSUME ChannelsAssumption == IsFiniteSet(Channels) /\ Channels \subseteq Nat /\ 0 \in Channels
ASSUME DataAssumption     == /\ EarlyOps \in BOOLEAN
                             /\ FragmentPieces \in Nat \ {0}
                             /\ MaxOps \in Nat
                             /\ Sessions \subseteq [Nodes -> Nat]

(* The queues of channel_info_t, in the order async_do_write looks at them.*)
KindOrder == <<"frag_req", "frag_send", "meta_req", "meta_send">>
Kinds     == {KindOrder[i] : i \in 1..4}
ASSUME KindsAssumption == OpKinds \subseteq Kinds

VARIABLES
  sid,      \* the session id of each peer, fixed when it is made
  called,   \* the peers whose application has called connect_to_peer
  known,    \* the peers that have an entry for the other one in peers
  ep,       \* each RUDP endpoint: "none", "new" (its coroutine waits to start), "open"
  jobs,     \* the jobs async_do_write posted to the endpoint's coroutine
  queue,    \* the four queues of each channel, items by number
  has,      \* has_connect
  calls,    \* history: how often connect_handler was called
  cache,    \* fragment_recv_id and what fragment_recv_buffer_cache waits for
  net,      \* the packages on the way from each peer, per channel
  pushed,   \* history: items ever queued
  got       \* history: the items the other's handlers were given

links   == <<sid, called, known, ep, has, calls>>
history == <<pushed, got>>
vars    == <<links, jobs, queue, cache, net, history>>

Other(n)     == CHOOSE m \in Nodes : m # n
NoCache      == [id |-> 0, left |-> 0, some |-> FALSE]
Msg(t, i)    == [type |-> t, item |-> i]
PerChannel(v) == [n \in Nodes |-> [c \in Channels |-> v]]
PerKind(v)   == PerChannel([k \in Kinds |-> v])

Init == /\ sid \in Sessions
        /\ called = {} /\ known = {} /\ ep = PerChannel("none")
        /\ has = [n \in Nodes |-> FALSE] /\ calls = [n \in Nodes |-> 0]
        /\ jobs = PerChannel(0) /\ queue = PerKind(<<>>)
        /\ cache = PerChannel(NoCache) /\ net = PerChannel(<<>>)
        /\ pushed = PerKind(0) /\ got = PerKind(<<>>)

Send(n, c, msgs) == net' = [net EXCEPT ![n][c] = @ \o msgs]

(* udp.add_connection for channel 0 and each accepted channel              *)
AddConnections(n) == ep' = [ep EXCEPT ![n] = [c \in Channels |-> "new"]]
------------------------------------------------------------------------------
(* add_peer, then connect_to_peer. When the other's package came first,    *)
(* the map keeps its entry and the connections are there.                  *)
ConnectToPeer(n) ==
  /\ n \in Callers \ called
  /\ called' = called \cup {n}
  /\ \/ n \notin known /\ known' = known \cup {n} /\ AddConnections(n)
     \/ n \in known /\ UNCHANGED <<known, ep>>
  /\ UNCHANGED <<sid, has, calls, jobs, queue, cache, net, history>>

(* on_unknown_packet: always accept                                        *)
UnknownPacket(n) ==
  /\ n \notin known
  /\ \E c \in Channels : net[Other(n)][c] # <<>>
  /\ known' = known \cup {n} /\ AddConnections(n)
  /\ UNCHANGED <<sid, called, has, calls, jobs, queue, cache, net, history>>

(* Mutant: pmain goes on to read without writing first.                    *)
StartSilent(n, c) == /\ ep[n][c] = "new"
                     /\ ep' = [ep EXCEPT ![n][c] = "open"]
                     /\ UNCHANGED <<sid, called, known, has, calls, jobs, queue, cache, net, history>>

(* pmain starts: it stores conn and calls async_do_write.                  *)
Start(n, c) == /\ ep[n][c] = "new"
               /\ ep' = [ep EXCEPT ![n][c] = "open"]
               /\ jobs' = [jobs EXCEPT ![n][c] = @ + 1]
               /\ UNCHANGED <<sid, called, known, has, calls, queue, cache, net, history>>

OpsDone == {op \in Nodes \X Channels \X Kinds \X (1..MaxOps) : op[4] <= pushed[op[1]][op[2]][op[3]]}

(* Mutant: no job is posted while items of some kind wait for theirs.      *)
OperationJoinsJob(n, c, k) ==
  /\ n \in known /\ Cardinality(OpsDone) < MaxOps
  /\ EarlyOps \/ ep[n][c] = "open"
  /\ pushed' = [pushed EXCEPT ![n][c][k] = @ + 1]
  /\ queue' = [queue EXCEPT ![n][c][k] = Append(@, pushed[n][c][k] + 1)]
  /\ jobs' = [jobs EXCEPT ![n][c] =
                 IF ep[n][c] = "open" /\ (\A l \in Kinds : queue[n][c][l] = <<>>) THEN @ + 1 ELSE @]
  /\ UNCHANGED <<links, cache, net, got>>

(* pull_fragment_from_peer, send_fragment_to_peer, pull_meta_data and      *)
(* send_meta_data_to_peer: queue, then async_do_write, whose run_at finds  *)
(* no endpoint before the coroutine stored conn and drops the job.         *)
Operation(n, c, k) ==
  /\ n \in known /\ Cardinality(OpsDone) < MaxOps
  /\ EarlyOps \/ ep[n][c] = "open"
  /\ pushed' = [pushed EXCEPT ![n][c][k] = @ + 1]
  /\ queue' = [queue EXCEPT ![n][c][k] = Append(@, pushed[n][c][k] + 1)]
  /\ jobs' = [jobs EXCEPT ![n][c] = IF ep[n][c] = "open" THEN @ + 1 ELSE @]
  /\ UNCHANGED <<links, cache, net, got>>

(* send_fragments: for each fragment a fragment_rsp, then one              *)
(* fragment_rsp_rest per further piece; the other kinds send one package.  *)
Packages(k, items) ==
  IF k # "frag_send" THEN [i \in 1..Len(items) |-> Msg(k, items[i])]
  ELSE [p \in 1..(Len(items) * FragmentPieces) |->
          IF (p - 1) % FragmentPieces = 0
            THEN Msg("frag_rsp", items[((p - 1) \div FragmentPieces) + 1])
            ELSE Msg("frag_rest", 0)]

Nonempty(n, c) == {i \in 1..4 : queue[n][c][KindOrder[i]] # <<>>}
First(S)       == CHOOSE i \in S : \A j \in S : i <= j

(* Mutant: every channel asks for a connection.                            *)
InitReqAlways(n, c) == IF ~has[n] THEN <<Msg("init_req", sid[n])>> ELSE <<>>

InitReq(n, c) == IF ~has[n] /\ c = 0 THEN <<Msg("init_req", sid[n])>> ELSE <<>>

(* The job: init_req on channel 0 until connected, then the whole of the   *)
(* first queue that is not empty, and nothing of the others.               *)
RunJob(n, c) ==
  /\ jobs[n][c] > 0
  /\ jobs' = [jobs EXCEPT ![n][c] = @ - 1]
  /\ \/ Nonempty(n, c) = {} /\ Send(n, c, InitReq(n, c)) /\ UNCHANGED queue
     \/ \E i \in Nonempty(n, c) : LET k == KindOrder[i] IN
          /\ i = First(Nonempty(n, c))
          /\ Send(n, c, InitReq(n, c) \o Packages(k, queue[n][c][k]))
          /\ queue' = [queue EXCEPT ![n][c][k] = <<>>]
  /\ UNCHANGED <<links, cache, history>>
------------------------------------------------------------------------------
(* The loop of pmain: one package of the other's stream.                   *)

Arrived(n, c, t) == /\ ep[n][c] = "open"
                    /\ net[Other(n)][c] # <<>> /\ Head(net[Other(n)][c]).type = t
Item(n, c)       == Head(net[Other(n)][c]).item
Consume(n, c)    == net' = [net EXCEPT ![Other(n)][c] = Tail(@)]
Reply(n, c, m)   == net' = [net EXCEPT ![Other(n)][c] = Tail(@), ![n][c] = Append(@, m)]

(* Mutant: only the side that has a session compares.                      *)
SidAcceptedHalf(n, id) == sid[n] = 0 \/ id # 0

SidAccepted(n, id) == sid[n] = 0 \/ id = 0 \/ id = sid[n]

(* Mutant: answering a request is taken for being connected.               *)
RecvInitReqConnects(n, c) ==
  /\ Arrived(n, c, "init_req")
  /\ IF ~SidAccepted(n, Item(n, c)) \/ has[n]
       THEN Consume(n, c) /\ UNCHANGED has
       ELSE Reply(n, c, Msg("init_rsp", 0)) /\ has' = [has EXCEPT ![n] = TRUE]
  /\ UNCHANGED <<sid, called, known, ep, calls, jobs, queue, cache, history>>

(* A request of another session is ignored, and so is a request that comes *)
(* when this side is connected already.                                    *)
RecvInitReq(n, c) ==
  /\ Arrived(n, c, "init_req")
  /\ IF ~SidAccepted(n, Item(n, c)) \/ has[n]
       THEN Consume(n, c)
       ELSE Reply(n, c, Msg("init_rsp", 0))
  /\ UNCHANGED <<links, jobs, queue, cache, history>>

RecvInitRsp(n, c) ==
  /\ Arrived(n, c, "init_rsp")
  /\ has' = [has EXCEPT ![n] = TRUE]
  /\ calls' = [calls EXCEPT ![n] = @ + 1]
  /\ Consume(n, c)
  /\ UNCHANGED <<sid, called, known, ep, jobs, queue, cache, history>>

(* meta_req, meta_rsp and fragment_req are handed to the application.      *)
RecvSimple(n, c, k) ==
  /\ Arrived(n, c, k)
  /\ got' = [got EXCEPT ![Other(n)][c][k] = Append(@, Item(n, c))]
  /\ Consume(n, c)
  /\ UNCHANGED <<links, jobs, queue, cache, pushed>>

(* The last lines of both fragment cases: a buffer that waits for nothing  *)
(* is handed to the application and reset.                                 *)
Complete(n, c, b) ==
  IF b.left = 0
    THEN /\ got' = [got EXCEPT ![Other(n)][c]["frag_send"] = Append(@, b.id)]
         /\ cache' = [cache EXCEPT ![n][c] = [b EXCEPT !.some = FALSE]]
    ELSE cache' = [cache EXCEPT ![n][c] = b] /\ UNCHANGED got

RecvFragment(n, c) ==
  /\ Arrived(n, c, "frag_rsp")
  /\ Complete(n, c, IF cache[n][c].some THEN cache[n][c]
                    ELSE [id |-> Item(n, c), left |-> FragmentPieces - 1, some |-> TRUE])
  /\ Consume(n, c)
  /\ UNCHANGED <<links, jobs, queue, pushed>>

(* Mutant: the buffer of a complete fragment is not reset.                 *)
RecvRestKeeps(n, c) ==
  /\ Arrived(n, c, "frag_rest")
  /\ LET b == [cache[n][c] EXCEPT !.left = IF @ > 0 THEN @ - 1 ELSE 0] IN
       /\ cache' = [cache EXCEPT ![n][c] = b]
       /\ got' = IF b.left > 0 THEN got
                 ELSE [got EXCEPT ![Other(n)][c]["frag_send"] = Append(@, b.id)]
  /\ Consume(n, c)
  /\ UNCHANGED <<links, jobs, queue, pushed>>

(* Without a buffer the piece is left aside, but the empty buffer is handed*)
(* over with the last fragment's id.                                       *)
RecvRest(n, c) ==
  /\ Arrived(n, c, "frag_rest")
  /\ Complete(n, c, IF cache[n][c].some THEN [cache[n][c] EXCEPT !.left = @ - 1]
                                        ELSE cache[n][c])
  /\ Consume(n, c)
  /\ UNCHANGED <<links, jobs, queue, pushed>>
------------------------------------------------------------------------------
Coroutine(n, c) == \/ Start(n, c) \/ RunJob(n, c)
                   \/ RecvInitReq(n, c) \/ RecvInitRsp(n, c)
                   \/ RecvFragment(n, c) \/ RecvRest(n, c)
                   \/ \E k \in Kinds \ {"frag_send"} : RecvSimple(n, c, k)

Next == \E n \in Nodes :
           \/ ConnectToPeer(n) \/ UnknownPacket(n)
           \/ \E c \in Channels : \/ Coroutine(n, c)
                                  \/ \E k \in OpKinds : Operation(n, c, k)

Spec == Init /\ [][Next]_vars

(* The event loop resumes a coroutine that has a job or data, and RUDP     *)
(* delivers what was sent; applications need not do anything.              *)
FairSpec == /\ Spec
            /\ \A n \in Nodes : /\ WF_vars(UnknownPacket(n))
                                /\ \A c \in Channels : /\ WF_vars(Start(n, c))
                                                       /\ WF_vars(Coroutine(n, c))
                                                       /\ WF_vars(RunJob(n, c))
------------------------------------------------------------------------------
MsgTypes == (Kinds \ {"frag_send"}) \cup {"frag_rsp", "frag_rest", "init_req", "init_rsp"}

TypeOK ==
  /\ sid \in Sessions
  /\ called \subseteq Nodes /\ known \subseteq Nodes
  /\ ep \in [Nodes -> [Channels -> {"none", "new", "open"}]]
  /\ jobs \in [Nodes -> [Channels -> Nat]]
  /\ has \in [Nodes -> BOOLEAN] /\ calls \in [Nodes -> Nat]
  /\ \A n \in Nodes, c \in Channels :
       /\ \A k \in Kinds : queue[n][c][k] \in Seq(1..MaxOps)
       /\ net[n][c] \in Seq([type : MsgTypes, item : Nat])
       /\ c # 0 => \A i \in 1..Len(net[n][c]) : net[n][c][i].type \notin {"init_req", "init_rsp"}
       /\ cache[n][c] \in [id : 0..MaxOps, left : 0..FragmentPieces, some : BOOLEAN]

(* Whatever the order of jobs, the handlers of one channel are given each  *)
(* kind of item in the order it was queued: nothing twice, nothing left    *)
(* out, no fragment under the id of another.                               *)
DeliveredInOrder ==
  \A n \in Nodes, c \in Channels, k \in Kinds :
     /\ Len(got[n][c][k]) <= pushed[n][c][k]
     /\ \A i \in 1..Len(got[n][c][k]) : got[n][c][k][i] = i

(* A peer that counts itself connected was answered: the other side has it *)
(* in its map and runs the channel 0 connection.                           *)
ConnectedIsKnown ==
  \A n \in Nodes : has[n] => Other(n) \in known /\ ep[Other(n)][0] = "open" /\ calls[n] > 0

OneSession == 0 \in {sid[n] : n \in Nodes} \/ Cardinality({sid[n] : n \in Nodes}) = 1

(* Peers of different sessions never connect (session 0 is any session).   *)
SessionsMatch == \A n \in Nodes : has[n] => OneSession

(* What was queued reaches the other's handlers, as long as no application *)
(* uses a channel early: a job drains only one of the queues, but every    *)
(* operation posts a job (async_do_write).                                 *)
EverythingArrives ==
  \A n \in Nodes, c \in Channels, k \in OpKinds, i \in 1..MaxOps :
     pushed[n][c][k] >= i ~> Len(got[n][c][k]) >= i

(* One call of connect_to_peer between peers of one session connects       *)
(* somebody, whichever side is made to ask first.                          *)
SomeoneConnects == called # {} /\ OneSession ~> \E n \in Nodes : has[n]

(* Two peers that connect to each other both get on_peer_connect           *)
(* (test/net/peer.cc:40 counts two calls). In no run: the code does not    *)
(* keep it, a peer that has_connect answers no init_req any more.         *)
BothConnect == called = Nodes ~> \A n \in Nodes : has[n]
===============================================================================
