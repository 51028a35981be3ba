---------------------------- MODULE Tracker_proofs ----------------------------
(***************************************************************************)
(* The registry of the tracker server for any number of clients, addresses *)
(* and requests, and any configuration of the clients.                     *)
(***************************************************************************)
EXTENDS Tracker, WellFoundedInduction, TLAPS

Info == [addr : Addrs, sid : Nat, age : Nat]

(* What the registry consists of, and that a coroutine of the server has a *)
(* connection from some address.                                           *)
RegistryType == /\ infos \in Seq(Info)
                /\ nodes \in [Addrs -> Nat]
                /\ \A a \in Addrs : nodes[a] <= Len(infos)
                /\ profile \in Profiles
                /\ addr \in [Clients -> Addrs \cup {NoAddr}]
                /\ serving \in [Clients -> BOOLEAN]
                /\ \A c \in Clients : serving[c] => addr[c] \in Addrs

RegistryInv == RegistryType /\ OneRecordPerAddress

(* The steps that leave the registry alone, as far as the invariant sees.  *)
Untouched == UNCHANGED <<infos, nodes, profile>>

LEMMA SidIsNat ==
  ASSUME RegistryType, NEW c \in Clients
  PROVE  profile[c].sid \in Nat
BY ProfilesAssumption DEF RegistryType, Profile

LEMMA RecordOf ==
  ASSUME RegistryInv, NEW i \in 1..Len(infos)
  PROVE  /\ infos[i] \in Info /\ infos[i].addr \in Addrs
         /\ nodes[infos[i].addr] = i
<1>1. infos[i] \in Info
  BY DEF RegistryInv, RegistryType
<1>2. infos[i].addr \in Addrs
  BY <1>1 DEF Info
<1>3. nodes[infos[i].addr] = i
  BY DEF RegistryInv, OneRecordPerAddress
<1> QED BY <1>1, <1>2, <1>3

(* Growing old and hearing a heart change no address.                      *)
LEMMA SameAddresses ==
  ASSUME RegistryInv, nodes' = nodes, infos' \in Seq(Info), Len(infos') = Len(infos),
         \A i \in 1..Len(infos) : infos'[i].addr = infos[i].addr
  PROVE  /\ nodes' \in [Addrs -> Nat] /\ \A b \in Addrs : nodes'[b] <= Len(infos')
         /\ OneRecordPerAddress'
BY DEF RegistryInv, RegistryType, OneRecordPerAddress

(* A join keeps the map and the vector together, for a new address and for *)
(* one that is known.                                                      *)
LEMMA JoinKeeps ==
  ASSUME RegistryInv, NEW a \in Addrs, NEW s \in Nat, Join(a, s)
  PROVE  /\ infos' \in Seq(Info) /\ nodes' \in [Addrs -> Nat]
         /\ \A b \in Addrs : nodes'[b] <= Len(infos')
         /\ OneRecordPerAddress'
<1>1. CASE nodes[a] = 0
  <2> DEFINE r == [addr |-> a, sid |-> s, age |-> 0]
  <2>1. infos' = Append(infos, r) /\ nodes' = [nodes EXCEPT ![a] = Len(infos) + 1]
    BY <1>1 DEF Join
  <2>2. r \in Info /\ r.addr = a
    BY DEF Info
  <2>3. /\ infos' \in Seq(Info) /\ Len(infos') = Len(infos) + 1
        /\ infos'[Len(infos) + 1] = r
        /\ \A i \in 1..Len(infos) : infos'[i] = infos[i]
    BY <2>1, <2>2 DEF RegistryInv, RegistryType
  <2>4. nodes' \in [Addrs -> Nat] /\ \A b \in Addrs : nodes'[b] <= Len(infos')
    BY <2>1, <2>3 DEF RegistryInv, RegistryType
  <2>5. \A b \in Addrs : nodes'[b] # 0 => infos'[nodes'[b]].addr = b
    BY <2>1, <2>2, <2>3 DEF RegistryInv, RegistryType, OneRecordPerAddress
  <2>6. ASSUME NEW i \in 1..Len(infos') PROVE nodes'[infos'[i].addr] = i
    <3>1. CASE i = Len(infos) + 1
      BY <2>1, <2>2, <2>3, <3>1 DEF RegistryInv, RegistryType
    <3>2. CASE i \in 1..Len(infos)
      <4>1. nodes[infos[i].addr] = i /\ infos[i].addr \in Addrs
        BY <3>2, RecordOf
      <4>2. infos[i].addr # a
        BY <1>1, <3>2, <4>1
      <4> QED BY <2>1, <2>3, <3>2, <4>1, <4>2
    <3> QED BY <2>3, <3>1, <3>2 DEF RegistryInv, RegistryType
  <2> QED BY <2>3, <2>4, <2>5, <2>6 DEF OneRecordPerAddress
<1>2. CASE nodes[a] # 0
  <2> DEFINE n == nodes[a]
  <2>1. nodes' = nodes /\ infos' = [infos EXCEPT ![n].sid = s, ![n].age = 0]
    BY <1>2 DEF Join
  <2>2. n \in 1..Len(infos)
    BY <1>2 DEF RegistryInv, RegistryType
  <2> DEFINE r == [infos[n] EXCEPT !.sid = s, !.age = 0]
  <2>3. r \in Info /\ r.addr = infos[n].addr
    <3>1. infos[n] \in Info
      BY <2>2, RecordOf
    <3> QED BY <3>1 DEF Info
  <2>4. infos' = [infos EXCEPT ![n] = r]
    BY <2>1
  <2> HIDE DEF n, r
  <2>5. /\ infos' \in Seq(Info) /\ Len(infos') = Len(infos)
        /\ \A i \in 1..Len(infos) : infos'[i].addr = infos[i].addr
    BY <2>2, <2>3, <2>4 DEF RegistryInv, RegistryType
  <2> QED BY <2>1, <2>5, SameAddresses
<1> QED BY <1>1, <1>2

LEMMA UntouchedKeeps ==
  ASSUME RegistryInv, Untouched,
         addr' \in [Clients -> Addrs \cup {NoAddr}], serving' \in [Clients -> BOOLEAN],
         \A c \in Clients : serving'[c] => addr'[c] \in Addrs
  PROVE  RegistryInv'
BY DEF RegistryInv, RegistryType, OneRecordPerAddress, Untouched

LEMMA ErrorKeeps ==
  ASSUME RegistryInv, NEW c \in Clients, Error(c), Untouched
  PROVE  RegistryInv'
<1>1. addr' = [addr EXCEPT ![c] = NoAddr] /\ serving' = [serving EXCEPT ![c] = FALSE]
  BY DEF Error, RetryLater
<1>2. /\ addr' \in [Clients -> Addrs \cup {NoAddr}] /\ serving' \in [Clients -> BOOLEAN]
      /\ \A d \in Clients : serving'[d] => addr'[d] \in Addrs
  BY <1>1 DEF RegistryInv, RegistryType
<1> QED BY <1>2, UntouchedKeeps

LEMMA EstablishedKeeps ==
  ASSUME RegistryInv, NEW c \in Clients, Established(c)
  PROVE  RegistryInv'
<1>1. PICK a \in Addrs : addr' = [addr EXCEPT ![c] = a]
  BY DEF Established
<1>2. serving' = [serving EXCEPT ![c] = TRUE] /\ Untouched
  BY DEF Established, Untouched, server
<1>3. /\ addr' \in [Clients -> Addrs \cup {NoAddr}] /\ serving' \in [Clients -> BOOLEAN]
      /\ \A d \in Clients : serving'[d] => addr'[d] \in Addrs
  BY <1>1, <1>2 DEF RegistryInv, RegistryType
<1> QED BY <1>2, <1>3, UntouchedKeeps

LEMMA InitConnectionKeeps ==
  ASSUME RegistryInv, NEW c \in Clients, InitConnection(c)
  PROVE  RegistryInv'
<1>1. profile' = profile /\ addr' = addr /\ addr[c] \in Addrs
  BY DEF InitConnection, Arrived, ClientSide, client, RegistryInv, RegistryType
<1>2. CASE ~Allowed(c) /\ serving' = [serving EXCEPT ![c] = FALSE] /\ UNCHANGED server
  BY <1>1, <1>2, UntouchedKeeps DEF server, Untouched, RegistryInv, RegistryType
<1>3. CASE Join(addr[c], profile[c].sid) /\ UNCHANGED serving
  <2>1. profile[c].sid \in Nat
    BY SidIsNat DEF RegistryInv
  <2> QED BY <1>1, <1>3, <2>1, JoinKeeps DEF RegistryInv, RegistryType
<1> QED BY <1>2, <1>3 DEF InitConnection

LEMMA HeartKeeps ==
  ASSUME RegistryInv, NEW c \in Clients, Heart(c)
  PROVE  RegistryInv'
<1> DEFINE n == nodes[addr[c]]
<1>1. UNCHANGED <<profile, addr, serving, nodes>> /\ addr[c] \in Addrs
  BY DEF Heart, Arrived, ClientSide, client, RegistryInv, RegistryType
<1>2. infos' = IF n = 0 THEN infos ELSE [infos EXCEPT ![n].age = 0]
  BY DEF Heart
<1>3. n \in 0..Len(infos)
  BY <1>1 DEF RegistryInv, RegistryType
<1>4. ASSUME n # 0
      PROVE  /\ infos' \in Seq(Info) /\ Len(infos') = Len(infos)
             /\ \A i \in 1..Len(infos) : infos'[i].addr = infos[i].addr
  <2> DEFINE r == [infos[n] EXCEPT !.age = 0]
  <2>1. n \in 1..Len(infos)
    BY <1>3, <1>4 DEF RegistryInv, RegistryType
  <2>2. r \in Info /\ r.addr = infos[n].addr
    <3>1. infos[n] \in Info
      BY <2>1, RecordOf
    <3> QED BY <3>1 DEF Info
  <2>3. infos' = [infos EXCEPT ![n] = r]
    BY <1>2, <1>4
  <2> HIDE DEF n, r
  <2> QED BY <2>1, <2>2, <2>3 DEF RegistryInv, RegistryType
<1>5. CASE n # 0
  BY <1>1, <1>4, <1>5, SameAddresses DEF RegistryInv, RegistryType
<1>6. CASE n = 0
  BY <1>1, <1>2, <1>6, UntouchedKeeps DEF Untouched, RegistryInv, RegistryType
<1> QED BY <1>5, <1>6

LEMMA TimePassesKeeps ==
  ASSUME RegistryInv, TimePasses
  PROVE  RegistryInv'
<1>1. UNCHANGED <<profile, addr, serving, nodes>>
  BY DEF TimePasses, client
<1>2. infos' = [i \in 1..Len(infos) |-> [infos[i] EXCEPT !.age = CapAge(@ + 1)]]
  BY DEF TimePasses
<1>3. \A k \in Nat : CapAge(k + 1) \in Nat
  BY TimeAssumption DEF CapAge, ExpireAge
<1>4. /\ infos' \in Seq(Info) /\ Len(infos') = Len(infos)
      /\ \A i \in 1..Len(infos) : infos'[i].addr = infos[i].addr
  <2>1. ASSUME NEW i \in 1..Len(infos)
        PROVE  infos'[i] \in Info /\ infos'[i].addr = infos[i].addr
    <3>1. infos[i] \in Info
      BY RecordOf
    <3>2. infos'[i] = [infos[i] EXCEPT !.age = CapAge(infos[i].age + 1)]
      BY <1>2
    <3> QED BY <1>3, <3>1, <3>2 DEF Info
  <2>2. infos' \in Seq(Info) /\ Len(infos') = Len(infos)
    <3> DEFINE age(i) == [infos[i] EXCEPT !.age = CapAge(@ + 1)]
    <3>1. Len(infos) \in Nat
      BY DEF RegistryInv, RegistryType
    <3>2. infos' = [i \in 1..Len(infos) |-> age(i)]
      BY <1>2
    <3>3. \A i \in 1..Len(infos) : age(i) \in Info
      BY <2>1, <3>2
    <3> HIDE DEF age
    <3> QED BY <3>1, <3>2, <3>3
  <2> QED BY <2>1, <2>2
<1> QED BY <1>1, <1>4, SameAddresses DEF RegistryInv, RegistryType

LEMMA RestartKeeps ==
  ASSUME RegistryInv, Restart
  PROVE  RegistryInv'
BY DEF Restart, ClientSide, client, RegistryInv, RegistryType, OneRecordPerAddress

LEMMA RegistryInductive ==
  ASSUME RegistryInv, [Next]_vars
  PROVE  RegistryInv'
<1>1. CASE TimePasses
  BY <1>1, TimePassesKeeps
<1>2. CASE Restart
  BY <1>2, RestartKeeps
<1>3. ASSUME NEW c \in Clients, ConnectServer(c) \/ RequestUpdateTrackers(c) \/ RunJob(c)
                                  \/ Receive(c) \/ Timeout(c)
                                  \/ \E r \in NodeRequests : RequestUpdateNodes(c, r)
      PROVE  RegistryInv'
  <2>1. Untouched /\ UNCHANGED <<addr, serving>>
    BY <1>3 DEF ConnectServer, RequestUpdateTrackers, RunJob, Receive, Timeout, RequestUpdateNodes,
                LoopTop, Untouched, server
  <2> QED BY <2>1, UntouchedKeeps DEF RegistryInv, RegistryType
<1>4. ASSUME NEW c \in Clients, Established(c) PROVE RegistryInv'
  BY <1>4, EstablishedKeeps
<1>5. ASSUME NEW c \in Clients, Break(c) \/ EndOfStream(c) PROVE RegistryInv'
  <2>1. Error(c) /\ Untouched
    BY <1>5 DEF Break, EndOfStream, Untouched, server
  <2> QED BY <2>1, ErrorKeeps
<1>6. ASSUME NEW c \in Clients, Serve(c) PROVE RegistryInv'
  <2>1. CASE InitConnection(c)
    BY <2>1, InitConnectionKeeps
  <2>2. CASE Heart(c)
    BY <2>2, HeartKeeps
  <2>3. CASE InfoReq(c) \/ TrackersReq(c) \/ AnswerNodes(c)
    <3>1. Untouched /\ UNCHANGED <<addr, serving>>
      BY <2>3 DEF InfoReq, TrackersReq, AnswerNodes, ClientSide, client, Untouched, server
    <3> QED BY <3>1, UntouchedKeeps DEF RegistryInv, RegistryType
  <2> QED BY <1>6, <2>1, <2>2, <2>3 DEF Serve
<1>7. CASE UNCHANGED vars
  <2>1. Untouched /\ UNCHANGED <<addr, serving>>
    BY <1>7 DEF vars, client, server, Untouched
  <2> QED BY <2>1, UntouchedKeeps DEF RegistryInv, RegistryType
<1> QED BY <1>1, <1>2, <1>3, <1>4, <1>5, <1>6, <1>7 DEF Next, Proceed

(* The map and the vector of nodes agree in every reachable state, for     *)
(* every set of clients and addresses: server_main's joins never leave an  *)
(* address with two records, or an index that is another's.                *)
THEOREM RegistryCorrect == Spec => []OneRecordPerAddress
<1>1. Init => RegistryInv
  BY DEF Init, RegistryInv, RegistryType, OneRecordPerAddress
<1>2. RegistryInv /\ [Next]_vars => RegistryInv'
  BY RegistryInductive
<1>3. RegistryInv => OneRecordPerAddress
  BY DEF RegistryInv
<1> QED BY <1>1, <1>2, <1>3, PTL DEF Spec
-------------------------------------------------------------------------------
(* What the clients write                                                  *)

Uplink   == Requests \cup Plain
Downlink == Answers \cup Plain
Queries  == Requests \cup {Msg("trackers_req")}

Attached ==
  \A c \in Clients : /\ serving[c] => st[c] = "wait"
                     /\ st[c] # "wait" => up[c] = <<>> /\ down[c] = <<>>

TypeInv == TypeOK /\ Attached

(* Two clients never have one address at a time.                           *)
OwnAddress == \A c, d \in Clients : c # d => addr[c] # addr[d] \/ addr[c] = NoAddr

(* The registration is the first package of a connection; once it is read  *)
(* the record of the address is of the client's session.                   *)
HeadInit(c)   == up[c] # <<>> /\ up[c][1].type = "init"
Registered(c) == /\ Allowed(c) /\ nodes[addr[c]] # 0
                 /\ infos[nodes[addr[c]]].sid = profile[c].sid
Registering ==
  \A c \in Clients : serving[c] =>
    /\ \A i \in 1..Len(up[c]) : up[c][i].type = "init" => i = 1 /\ profile[c].registers
    /\ profile[c].registers => HeadInit(c) \/ Registered(c)

(* Somebody at the address of a fresh record keeps it fresh, or has left   *)
(* no longer ago than the record is old.                                   *)
FreshIsThere ==
  \A i \in 1..Len(infos) : infos[i].age <= ExpireAge =>
     \/ Present(infos[i].addr, infos[i].sid)
     \/ gone[infos[i].addr][infos[i].sid] <= infos[i].age

Beat      == {"init", "heart"}
Pinged(c) == \E i \in 1..Len(up[c]) : up[c][i].type \in Beat
Since(c)  == IF Pinged(c) THEN 0 ELSE infos[nodes[addr[c]]].age
Asking(c) == down[c] # <<>> \/ \E i \in 1..Len(up[c]) : up[c][i].type \notin Beat

Beats ==
  \A c \in Clients : serving[c] /\ profile[c].registers /\ Allowed(c) =>
    /\ heard[c] = 0 => Since(c) <= Tick /\ (~Asking(c) => Since(c) + left[c] <= Tick)
    /\ heard[c] = 1 => Since(c) <= 2 * Tick /\ (~Asking(c) => Since(c) + left[c] <= 2 * Tick)

(* A job that cuts a wait short has something to send.                     *)
JobsSend ==
  \A c \in Clients : st[c] = "wait" /\ left[c] # span[c] =>
    \A i \in 1..Len(jobs[c]) : jobs[c][i] = "nodes" => queue[c] # <<>>
-------------------------------------------------------------------------------
(* Types                                                                   *)

LEMMA PlainMessages ==
  /\ Msg("init") \in Plain /\ Msg("heart") \in Plain /\ Msg("info_req") \in Plain
  /\ Msg("trackers_req") \in Plain /\ Msg("info_rsp") \in Plain /\ Msg("trackers_rsp") \in Plain
BY DEF Plain

LEMMA TypesOf ==
  /\ \A m \in Queries : m.type \in {"node_req", "trackers_req"} /\ m \in Uplink
  /\ \A m \in Requests : m.type = "node_req"
  /\ \A m \in Plain : m.type \in {"init", "heart", "info_req", "trackers_req", "info_rsp", "trackers_rsp"}
BY DEF Queries, Requests, Plain, Uplink, Msg

LEMMA SidOf ==
  ASSUME TypeOK, NEW c \in Clients
  PROVE  /\ profile[c].sid \in Sids /\ profile[c].registers \in BOOLEAN
         /\ profile[c].garbage \in BOOLEAN /\ 0 \in Sids /\ Sids \subseteq Nat
<1>1. profile \in Profiles /\ profile \in [Clients -> Profile]
  BY ProfilesAssumption DEF TypeOK
<1>2. profile[c].sid \in Sids /\ 0 \in Sids
  BY <1>1 DEF Sids
<1>3. Sids \subseteq Nat
  <2> SUFFICES ASSUME NEW p \in Profiles, NEW d \in Clients PROVE p[d].sid \in Nat
    BY DEF Sids
  <2> QED BY ProfilesAssumption DEF Profile
<1>4. profile[c].registers \in BOOLEAN /\ profile[c].garbage \in BOOLEAN
  BY <1>1 DEF Profile
<1> QED BY <1>2, <1>3, <1>4

LEMMA ConcatAssoc ==
  \A s, x, y \in Seq(Uplink) : (s \o x) \o y = s \o (x \o y) /\ s \o x \in Seq(Uplink)
OBVIOUS

LEMMA UpdateNodesType ==
  ASSUME TypeOK, NEW c \in Clients, NEW q \in Seq(NodeRequests)
  PROVE  /\ UpdateNodes(c, q) \in Seq(Queries)
         /\ q # <<>> => UpdateNodes(c, q) # <<>>
<1>1. \A r \in NodeRequests : NodeReq(c, r) \in Queries
  BY SidOf, RequestsAssumption DEF NodeReq, Requests, Queries
<1>2. Len(q) \in Nat /\ \A i \in 1..Len(q) : q[i] \in NodeRequests
  OBVIOUS
<1>3. UpdateNodes(c, q) \in Seq(Queries) /\ Len(UpdateNodes(c, q)) = Len(q)
  BY <1>1, <1>2 DEF UpdateNodes
<1>4. q # <<>> => Len(q) # 0
  OBVIOUS
<1> HIDE DEF UpdateNodes
<1> QED BY <1>2, <1>3, <1>4

LEMMA LoopTopWrites ==
  ASSUME TypeOK, NEW c \in Clients, NEW before \in Seq(Plain), NEW q \in Seq(NodeRequests),
         LoopTop(c, before, q)
  PROVE  /\ \E x \in Seq(Queries) : up' = [up EXCEPT ![c] = up[c] \o (before \o x)]
         /\ up' \in [Clients -> Seq(Uplink)]
         /\ wantTrackers' \in [Clients -> BOOLEAN] /\ waiting' \in [Clients -> BOOLEAN]
         /\ queue' \in [Clients -> Seq(NodeRequests)]
         /\ span' \in [Clients -> 0..Tick] /\ left' \in [Clients -> 0..Tick]
         /\ \A d \in Clients : left'[d] <= span'[d]
         /\ span' = [span EXCEPT ![c] = Tick] /\ left' = [left EXCEPT ![c] = Tick]
<1> DEFINE w == IF wantTrackers[c] THEN <<Msg("trackers_req")>> ELSE <<>>
           u == UpdateNodes(c, q)
           x == w \o u
<1>1. w \in Seq(Queries)
  BY DEF Queries
<1>2. u \in Seq(Queries)
  BY UpdateNodesType
<1>3. up' = [up EXCEPT ![c] = up[c] \o before \o w \o u]
  BY DEF LoopTop
<1> HIDE DEF w, u
<1>4. x \in Seq(Queries)
  BY <1>1, <1>2
<1>5. up \in [Clients -> Seq(Uplink)] /\ up[c] \in Seq(Uplink)
  BY DEF TypeOK, Uplink
<1>6. /\ before \in Seq(Uplink) /\ w \in Seq(Uplink) /\ u \in Seq(Uplink)
      /\ x \in Seq(Uplink) /\ up[c] \o before \in Seq(Uplink)
  <2>1. before \in Seq(Uplink) /\ w \in Seq(Uplink) /\ u \in Seq(Uplink)
    BY <1>1, <1>2, TypesOf DEF Uplink
  <2> QED BY <1>5, <2>1
<1>7. up[c] \o before \o w \o u = up[c] \o (before \o x)
  <2>1. ((up[c] \o before) \o w) \o u = (up[c] \o before) \o (w \o u)
    BY <1>6, ConcatAssoc, Zenon
  <2>2. (up[c] \o before) \o (w \o u) = up[c] \o (before \o (w \o u))
    BY <1>5, <1>6, ConcatAssoc, Zenon
  <2> QED BY <2>1, <2>2, Zenon
<1> HIDE DEF x
<1>8. up[c] \o (before \o x) \in Seq(Uplink)
  BY <1>5, <1>6
<1>9. up' = [up EXCEPT ![c] = up[c] \o (before \o x)]
  BY <1>3, <1>7, Zenon
<1>10. up' \in [Clients -> Seq(Uplink)]
  BY <1>5, <1>8, <1>9
<1>11. /\ wantTrackers' \in [Clients -> BOOLEAN] /\ waiting' \in [Clients -> BOOLEAN]
       /\ queue' \in [Clients -> Seq(NodeRequests)]
  BY DEF LoopTop, TypeOK
<1>12. /\ span' \in [Clients -> 0..Tick] /\ left' \in [Clients -> 0..Tick]
       /\ \A d \in Clients : left'[d] <= span'[d]
       /\ span' = [span EXCEPT ![c] = Tick] /\ left' = [left EXCEPT ![c] = Tick]
  BY TimeAssumption DEF LoopTop, TypeOK
<1> QED BY <1>4, <1>9, <1>10, <1>11, <1>12
-------------------------------------------------------------------------------
(* What the server answers                                                 *)

LEMMA Induction ==
  ASSUME NEW S \in SUBSET Nat, 0 \in S, \A n \in S : n + 1 \in S
  PROVE  S = Nat
<1> SUFFICES ASSUME Nat \ S # {} PROVE FALSE
  OBVIOUS
<1>1. PICK m \in Nat \ S : \A k \in Nat \ S : ~ (<<k, m>> \in OpToRel(<, Nat))
  BY NatLessThanWellFounded, WFMin
<1>2. \A k \in Nat \ S : ~ (k < m)
  BY <1>1 DEF OpToRel
<1>3. m - 1 \in Nat /\ m - 1 < m
  OBVIOUS
<1>4. m - 1 \in S
  BY <1>2, <1>3
<1>5. (m - 1) + 1 \in S /\ (m - 1) + 1 = m
  BY <1>4
<1> QED BY <1>5

(* A round of the scan comes to every record once.                         *)
LEMMA ScanIs ==
  ASSUME Len(infos) \in Nat, NEW start \in 1..Len(infos)
  PROVE  /\ \A k \in 1..Len(infos) : Scan(start)[k] \in 1..Len(infos)
         /\ \A k, l \in 1..Len(infos) : Scan(start)[k] = Scan(start)[l] => k = l
BY DEF Scan

(* One step of the loop that adds nodes.                                   *)
Added(f, start, s, count, k) ==
  IF k = 0 THEN <<>>
  ELSE IF Listed(Scan(start)[k], s) /\ Len(f[k - 1]) < count
       THEN Append(f[k - 1], Scan(start)[k])
  ELSE f[k - 1]

IsLoop(f, start, s, count, n) == f = [k \in 0..n |-> Added(f, start, s, count, k)]

LEMMA LoopExists ==
  ASSUME NEW start, NEW s, NEW count, NEW n \in Nat
  PROVE  \E f : IsLoop(f, start, s, count, n)
<1> DEFINE Loop(f, m) == f = [k \in 0..m |-> Added(f, start, s, count, k)]
           S == {m \in Nat : \E f : Loop(f, m)}
<1>1. 0 \in S
  <2> DEFINE f == [k \in 0..0 |-> <<>>]
  <2>1. \A k \in 0..0 : k = 0 /\ Added(f, start, s, count, k) = <<>>
    BY DEF Added
  <2>2. Loop(f, 0)
    BY <2>1
  <2> HIDE DEF Loop, f
  <2> QED BY <2>2
<1>2. ASSUME NEW m \in S PROVE m + 1 \in S
  <2>1. PICK f : Loop(f, m)
    OBVIOUS
  <2> DEFINE g == [k \in 0..(m + 1) |-> IF k = m + 1 THEN Added(f, start, s, count, k) ELSE f[k]]
  <2>2. ASSUME NEW k \in 0..(m + 1) PROVE g[k] = Added(g, start, s, count, k)
    <3>1. CASE k = 0
      <4>1. g[k] = f[k] /\ f[k] = Added(f, start, s, count, k)
        BY <2>1, <3>1
      <4> QED BY <3>1, <4>1 DEF Added
    <3>2. CASE k # 0
      <4>1. k - 1 \in 0..m /\ g[k - 1] = f[k - 1]
        BY <3>2
      <4>2. g[k] = Added(f, start, s, count, k)
        BY <2>1, <3>2
      <4> HIDE DEF g
      <4> QED BY <3>2, <4>1, <4>2 DEF Added
    <3> QED BY <3>1, <3>2
  <2>3. Loop(g, m + 1)
    <3>1. g = [k \in 0..(m + 1) |-> g[k]]
      OBVIOUS
    <3> HIDE DEF g
    <3> QED BY <2>2, <3>1
  <2> HIDE DEF Loop, g
  <2> QED BY <2>3
<1> HIDE DEF Loop
<1>3. S = Nat
  <2> HIDE DEF S
  <2>1. S \in SUBSET Nat
    BY DEF S
  <2> QED BY <1>1, <1>2, <2>1, Induction
<1>4. \E f : Loop(f, n)
  BY <1>3
<1> QED BY <1>4 DEF Loop, IsLoop

(* The records of an answer are listed ones, none twice.                   *)
LEMMA ChosenAre ==
  ASSUME Len(infos) \in Nat, NEW start \in 1..Len(infos), NEW s, NEW count \in Nat
  PROVE  LET r == Chosen(start, s, count)
         IN  /\ r \in Seq(1..Len(infos))
             /\ \A k \in 1..Len(r) : Listed(r[k], s) /\ \A j \in 1..Len(r) : j # k => r[j] # r[k]
<1> DEFINE n == Len(infos)
           added[k \in 0..n] ==
             IF k = 0 THEN <<>>
             ELSE IF Listed(Scan(start)[k], s) /\ Len(added[k - 1]) < count
                  THEN Append(added[k - 1], Scan(start)[k])
             ELSE added[k - 1]
<1>1. Chosen(start, s, count) = added[n]
  BY DEF Chosen
<1>2. added = [k \in 0..n |-> Added(added, start, s, count, k)]
  <2>1. n \in Nat
    OBVIOUS
  <2>2. \E f : IsLoop(f, start, s, count, n)
    <3> HIDE DEF n, added
    <3> QED BY <2>1, LoopExists, Zenon
  <2> QED BY <2>2 DEF Added, IsLoop
<1> HIDE DEF added
<1> DEFINE Good(k, r) ==
             /\ r \in Seq(1..n)
             /\ \A i \in 1..Len(r) : Listed(r[i], s) /\ \E l \in 1..k : r[i] = Scan(start)[l]
             /\ \A i, j \in 1..Len(r) : j # i => r[j] # r[i]
           S == {k \in Nat : k <= n => Good(k, added[k])}
<1>3. 0 \in S
  <2>1. added[0] = <<>>
    <3>1. 0 \in 0..n
      OBVIOUS
    <3>2. added[0] = Added(added, start, s, count, 0)
      BY <1>2, <3>1
    <3> QED BY <3>2 DEF Added
  <2>2. Good(0, <<>>)
    OBVIOUS
  <2> HIDE DEF Good
  <2> QED BY <2>1, <2>2
<1>4. ASSUME NEW k \in S PROVE k + 1 \in S
  <2> SUFFICES ASSUME k + 1 <= n PROVE Good(k + 1, added[k + 1])
    <3> HIDE DEF Good
    <3> QED OBVIOUS
  <2> DEFINE r == added[k]
             x == Scan(start)[k + 1]
  <2>1. Good(k, r)
    <3>1. k \in S /\ k \in Nat /\ k <= n
      OBVIOUS
    <3> HIDE DEF Good
    <3> QED BY <3>1
  <2>2. /\ x \in 1..n /\ \A l \in 1..k : Scan(start)[l] # x
        /\ k + 1 \in 1..(k + 1)
    <3>1. k + 1 \in 1..Len(infos) /\ \A l \in 1..k : l \in 1..Len(infos) /\ l # k + 1
      OBVIOUS
    <3> QED BY <3>1, ScanIs
  <2>3. \/ added[k + 1] = r
        \/ Listed(x, s) /\ added[k + 1] = Append(r, x)
    <3>1. k + 1 \in 0..n /\ k + 1 # 0 /\ (k + 1) - 1 = k
      OBVIOUS
    <3>2. added[k + 1] = Added(added, start, s, count, k + 1)
      BY <1>2, <3>1
    <3> QED BY <3>1, <3>2 DEF Added
  <2> HIDE DEF x, r
  <2>4. \A l \in 1..k : l \in 1..(k + 1)
    OBVIOUS
  <2>5. CASE added[k + 1] = r
    BY <2>1, <2>4, <2>5
  <2>6. CASE Listed(x, s) /\ added[k + 1] = Append(r, x)
    <3> DEFINE z == Append(r, x)
    <3>1. /\ z \in Seq(1..n) /\ Len(z) = Len(r) + 1 /\ Len(r) \in Nat
          /\ z[Len(r) + 1] = x /\ \A i \in 1..Len(r) : z[i] = r[i]
      BY <2>1, <2>2
    <3> HIDE DEF z
    <3>2. \A i \in 1..Len(z) : i \in 1..Len(r) \/ i = Len(r) + 1
      BY <3>1
    <3>3. ASSUME NEW i \in 1..Len(z) PROVE Listed(z[i], s) /\ \E l \in 1..(k + 1) : z[i] = Scan(start)[l]
      <4>1. CASE i \in 1..Len(r)
        <5>1. z[i] = r[i] /\ Listed(r[i], s)
          BY <2>1, <3>1, <4>1
        <5>2. PICK l \in 1..k : r[i] = Scan(start)[l]
          BY <2>1, <4>1
        <5> QED BY <2>4, <5>1, <5>2, Zenon
      <4>2. CASE i = Len(r) + 1
        BY <2>2, <2>6, <3>1, <4>2 DEF x
      <4> QED BY <3>2, <4>1, <4>2
    <3>4. ASSUME NEW i \in 1..Len(r) PROVE z[i] # x
      <4>1. z[i] = r[i]
        BY <3>1
      <4>2. PICK l \in 1..k : r[i] = Scan(start)[l]
        BY <2>1
      <4> QED BY <2>2, <4>1, <4>2, Zenon
    <3>5. ASSUME NEW i \in 1..Len(z), NEW j \in 1..Len(z), j # i PROVE z[j] # z[i]
      <4>1. CASE i \in 1..Len(r) /\ j \in 1..Len(r)
        BY <2>1, <3>1, <3>5, <4>1
      <4>2. CASE i \in 1..Len(r) /\ j = Len(r) + 1
        BY <3>1, <3>4, <4>2
      <4>3. CASE i = Len(r) + 1 /\ j \in 1..Len(r)
        BY <3>1, <3>4, <4>3
      <4> QED BY <3>2, <3>5, <4>1, <4>2, <4>3
    <3>6. Good(k + 1, z)
      BY <3>1, <3>3, <3>5
    <3> HIDE DEF Good
    <3> QED BY <2>6, <3>6 DEF z
  <2> QED BY <2>3, <2>5, <2>6
<1>5. S = Nat
  <2> HIDE DEF S
  <2>1. S \in SUBSET Nat
    BY DEF S
  <2> QED BY <1>3, <1>4, <2>1, Induction
<1>6. Good(n, added[n])
  <2> HIDE DEF Good
  <2>1. n \in S /\ n <= n
    BY <1>5
  <2> QED BY <2>1
<1> QED BY <1>1, <1>6
-------------------------------------------------------------------------------
(* The types of the clients' side                                          *)

ClientTypes ==
  /\ st \in [Clients -> {"down", "connecting", "wait"}]
  /\ timers \in [Clients -> SUBSET (0..RetryDelay)]
  /\ span \in [Clients -> 0..Tick] /\ left \in [Clients -> 0..Tick]
  /\ \A c \in Clients : left[c] <= span[c]
  /\ waiting \in [Clients -> BOOLEAN] /\ wantTrackers \in [Clients -> BOOLEAN]
  /\ queue \in [Clients -> Seq(NodeRequests)] /\ jobs \in [Clients -> Seq({"nodes", "trackers"})]
  /\ asked \in 0..MaxRequests /\ breaks \in 0..MaxBreaks
  /\ heard \in [Clients -> 0..2]

LinkTypes ==
  /\ addr \in [Clients -> Addrs \cup {NoAddr}] /\ serving \in [Clients -> BOOLEAN]
  /\ \A c \in Clients : st[c] = "wait" <=> addr[c] # NoAddr
  /\ up \in [Clients -> Seq(Uplink)] /\ down \in [Clients -> Seq(Downlink)]

ServerTypes ==
  /\ profile \in Profiles
  /\ nodes \in [Addrs -> 0..Len(infos)]
  /\ infos \in Seq([addr : Addrs, sid : Sids, age : 0..(ExpireAge + 1)])
  /\ gone \in [Addrs -> [Sids -> 0..(ExpireAge + 1)]]

LEMMA TypesAre ==
  /\ TypeInv <=> ClientTypes /\ LinkTypes /\ ServerTypes /\ Attached
  /\ TypeInv' <=> (ClientTypes /\ LinkTypes /\ ServerTypes /\ Attached)'
BY DEF TypeInv, TypeOK, ClientTypes, LinkTypes, ServerTypes, Uplink, Downlink

LEMMA AgesAre ==
  /\ Tick \in Nat /\ ExpireAge \in Nat /\ ExpireAge = Tick + Tick /\ RetryDelay \in Nat
  /\ \A n \in 0..(ExpireAge + 1) : /\ CapAge(n + 1) \in 0..(ExpireAge + 1) /\ CapAge(n + 1) <= n + 1
                                   /\ n <= ExpireAge => CapAge(n + 1) = n + 1
  /\ \A m, n \in 0..(ExpireAge + 1) : m <= n => CapAge(m + 1) <= CapAge(n + 1)
BY TimeAssumption DEF ExpireAge, CapAge

(* A handler asks for one node request, if the bound allows it.            *)
LEMMA AskIs ==
  ASSUME NEW c \in Clients, asked \in 0..MaxRequests, NEW ask \in HandlerAsks(c) \cup {<<>>}
  PROVE  ask \in Seq(NodeRequests) /\ asked + Len(ask) \in 0..MaxRequests
<1>1. CASE ask = <<>>
  BY <1>1
<1>2. ASSUME NEW r \in NodeRequests, ask = <<r>>, asked < MaxRequests
      PROVE  ask \in Seq(NodeRequests) /\ asked + Len(ask) \in 0..MaxRequests
  <2>1. ask \in Seq(NodeRequests) /\ Len(ask) = 1
    BY <1>2
  <2> QED BY <1>2, <2>1, BoundsAssumption
<1>3. ask = <<>> \/ (asked < MaxRequests /\ \E r \in NodeRequests : ask = <<r>>)
  BY DEF HandlerAsks
<1> QED BY <1>1, <1>2, <1>3

LEMMA TailOf ==
  ASSUME NEW T, NEW s \in Seq(T), s # <<>>
  PROVE  /\ Tail(s) \in Seq(T) /\ Len(Tail(s)) = Len(s) - 1 /\ Len(s) \in Nat \ {0}
         /\ \A i \in 1..Len(Tail(s)) : i + 1 \in 1..Len(s) /\ Tail(s)[i] = s[i + 1]
         /\ Head(s) = s[1] /\ 1 \in 1..Len(s) /\ s[1] \in T
OBVIOUS

LEMMA ErrorTypes ==
  ASSUME TypeInv, NEW c \in Clients, Error(c),
         UNCHANGED <<profile, wantTrackers, queue, server, asked>>,
         waiting' \in [Clients -> BOOLEAN], breaks' \in 0..MaxBreaks
  PROVE  TypeInv'
<1>1. ClientTypes /\ LinkTypes /\ ServerTypes /\ Attached
  BY TypesAre
<1>2. ClientTypes'
  BY <1>1, AgesAre DEF Error, RetryLater, ClientTypes
<1>3. LinkTypes'
  BY <1>1, AddrsAssumption DEF Error, LinkTypes, ClientTypes
<1>4. ServerTypes'
  <2>1. gone' \in [Addrs -> [Sids -> 0..(ExpireAge + 1)]]
    BY <1>1, AgesAre DEF Error, ServerTypes
  <2> QED BY <1>1, <2>1 DEF server, ServerTypes
<1>5. Attached'
  <2>1. \A d \in Clients \ {c} :
          serving'[d] = serving[d] /\ st'[d] = st[d] /\ up'[d] = up[d] /\ down'[d] = down[d]
    BY <1>1 DEF Error, LinkTypes, ClientTypes
  <2>2. serving'[c] = FALSE /\ up'[c] = <<>> /\ down'[c] = <<>>
    BY <1>1 DEF Error, LinkTypes, ClientTypes
  <2>3. ASSUME NEW d \in Clients
        PROVE  /\ serving'[d] => st'[d] = "wait"
               /\ st'[d] # "wait" => up'[d] = <<>> /\ down'[d] = <<>>
    <3>1. CASE d = c
      BY <2>2, <3>1
    <3>2. CASE d # c
      BY <1>1, <2>1, <3>2 DEF Attached
    <3> QED BY <3>1, <3>2
  <2> QED BY <2>3 DEF Attached
<1> QED BY <1>2, <1>3, <1>4, <1>5, TypesAre

LEMMA EstablishedTypes ==
  ASSUME TypeInv, NEW c \in Clients, Established(c)
  PROVE  TypeInv'
<1>1. ClientTypes /\ LinkTypes /\ ServerTypes /\ Attached /\ TypeOK
  BY TypesAre DEF TypeInv
<1>2. PICK a \in Addrs, ask \in HandlerAsks(c) :
        /\ addr' = [addr EXCEPT ![c] = a] /\ asked' = asked + Len(ask)
        /\ jobs' = [jobs EXCEPT ![c] = IF ask # <<>> /\ waiting[c] THEN <<"nodes">> ELSE <<>>]
        /\ LoopTop(c, Prologue(c), queue[c] \o ask)
  BY DEF Established
<1>3. ask \in Seq(NodeRequests) /\ asked + Len(ask) \in 0..MaxRequests
  BY <1>1, <1>2, AskIs DEF ClientTypes
<1>4. Prologue(c) \in Seq(Plain)
  BY PlainMessages DEF Prologue
<1>5. queue[c] \o ask \in Seq(NodeRequests)
  BY <1>1, <1>3 DEF ClientTypes
<1>6. /\ up' \in [Clients -> Seq(Uplink)]
      /\ wantTrackers' \in [Clients -> BOOLEAN] /\ waiting' \in [Clients -> BOOLEAN]
      /\ queue' \in [Clients -> Seq(NodeRequests)]
      /\ span' \in [Clients -> 0..Tick] /\ left' \in [Clients -> 0..Tick]
      /\ \A d \in Clients : left'[d] <= span'[d]
  BY <1>1, <1>2, <1>4, <1>5, LoopTopWrites
<1>7. ClientTypes'
  <2>1. jobs' \in [Clients -> Seq({"nodes", "trackers"})]
    <3>1. <<"nodes">> \in Seq({"nodes", "trackers"}) /\ <<>> \in Seq({"nodes", "trackers"})
      OBVIOUS
    <3> QED BY <1>1, <1>2, <3>1 DEF ClientTypes
  <2>2. st' \in [Clients -> {"down", "connecting", "wait"}] /\ heard' \in [Clients -> 0..2]
    <3>1. st' = [st EXCEPT ![c] = "wait"] /\ heard' = [heard EXCEPT ![c] = 0] /\ 0 \in 0..2
      BY DEF Established
    <3>2. st \in [Clients -> {"down", "connecting", "wait"}] /\ heard \in [Clients -> 0..2]
      BY <1>1 DEF ClientTypes
    <3> QED BY <3>1, <3>2
  <2>3. timers' = timers /\ breaks' = breaks /\ asked' \in 0..MaxRequests
    BY <1>2, <1>3 DEF Established
  <2> QED BY <1>1, <1>6, <2>1, <2>2, <2>3 DEF ClientTypes
<1>8. LinkTypes'
  BY <1>1, <1>2, <1>6, AddrsAssumption DEF Established, LinkTypes, ClientTypes
<1>9. ServerTypes'
  BY <1>1 DEF Established, ServerTypes, server
<1>10. Attached'
  <2>1. \A d \in Clients : d # c => up'[d] = up[d]
    BY <1>1, <1>2 DEF LoopTop, LinkTypes
  <2>2. /\ st' = [st EXCEPT ![c] = "wait"] /\ serving' = [serving EXCEPT ![c] = TRUE] /\ down' = down
    BY DEF Established
  <2>3. \A d \in Clients \ {c} : st'[d] = st[d] /\ serving'[d] = serving[d]
    BY <1>1, <2>2 DEF LinkTypes, ClientTypes
  <2>4. st'[c] = "wait"
    BY <1>1, <2>2 DEF ClientTypes
  <2>5. ASSUME NEW d \in Clients
        PROVE  /\ serving'[d] => st'[d] = "wait"
               /\ st'[d] # "wait" => up'[d] = <<>> /\ down'[d] = <<>>
    <3>1. CASE d = c
      BY <2>4, <3>1
    <3>2. CASE d # c
      BY <1>1, <2>1, <2>2, <2>3, <3>2 DEF Attached
    <3> QED BY <3>1, <3>2
  <2> QED BY <2>5 DEF Attached
<1> QED BY <1>7, <1>8, <1>9, <1>10, TypesAre

LEMMA ReceiveTypes ==
  ASSUME TypeInv, NEW c \in Clients, Receive(c) \/ Timeout(c)
  PROVE  TypeInv'
<1>1. ClientTypes /\ LinkTypes /\ ServerTypes /\ Attached /\ TypeOK
  BY TypesAre DEF TypeInv
<1>2. PICK before \in Seq(Plain), q \in Seq(NodeRequests) :
        LoopTop(c, before, q) /\ asked' \in 0..MaxRequests
  <2>1. CASE Receive(c)
    <3>1. PICK ask \in {<<>>} \cup HandlerAsks(c) :
            asked' = asked + Len(ask) /\ LoopTop(c, <<>>, queue[c] \o ask)
      BY <2>1 DEF Receive
    <3>2. ask \in Seq(NodeRequests) /\ asked + Len(ask) \in 0..MaxRequests
      BY <1>1, <3>1, AskIs DEF ClientTypes
    <3>3. queue[c] \o ask \in Seq(NodeRequests) /\ <<>> \in Seq(Plain)
      BY <1>1, <3>2 DEF ClientTypes
    <3> QED BY <3>1, <3>2, <3>3
  <2>2. CASE Timeout(c)
    <3>1. <<Msg("heart")>> \in Seq(Plain) /\ queue[c] \in Seq(NodeRequests)
      BY <1>1, PlainMessages DEF ClientTypes
    <3> QED BY <1>1, <2>2, <3>1 DEF Timeout, bounds, ClientTypes
  <2> QED BY <2>1, <2>2
<1>3. /\ up' \in [Clients -> Seq(Uplink)]
      /\ wantTrackers' \in [Clients -> BOOLEAN] /\ waiting' \in [Clients -> BOOLEAN]
      /\ queue' \in [Clients -> Seq(NodeRequests)]
      /\ span' \in [Clients -> 0..Tick] /\ left' \in [Clients -> 0..Tick]
      /\ \A d \in Clients : left'[d] <= span'[d]
  BY <1>1, <1>2, LoopTopWrites
<1>4. /\ UNCHANGED <<profile, st, jobs, addr, timers, serving, server, breaks, gone>>
      /\ st[c] = "wait" /\ \A d \in Clients : d # c => up'[d] = up[d]
  BY <1>1, <1>2 DEF Receive, Timeout, LoopTop, LinkTypes, bounds
<1>5. heard' \in [Clients -> 0..2] /\ breaks' = breaks
  <2>1. heard \in [Clients -> 0..2] /\ heard[c] \in 0..2
    BY <1>1 DEF ClientTypes
  <2>2. \E n \in 0..2 : heard' = [heard EXCEPT ![c] = n]
    <3>1. CASE Receive(c)
      <4>1. heard' = [heard EXCEPT ![c] = IF heard[c] < 2 THEN heard[c] + 1 ELSE 2]
        BY <3>1 DEF Receive
      <4>2. (IF heard[c] < 2 THEN heard[c] + 1 ELSE 2) \in 0..2
        BY <2>1
      <4> QED BY <4>1, <4>2, Zenon
    <3>2. CASE Timeout(c)
      <4>1. heard' = [heard EXCEPT ![c] = 0] /\ 0 \in 0..2
        BY <3>2 DEF Timeout
      <4> QED BY <4>1
    <3> QED BY <3>1, <3>2
  <2> QED BY <2>1, <2>2, <1>4
<1>6. ClientTypes'
  BY <1>1, <1>2, <1>3, <1>4, <1>5 DEF ClientTypes
<1>7. /\ down' \in [Clients -> Seq(Downlink)]
      /\ \A d \in Clients : d # c => down'[d] = down[d]
  <2>1. down' = down \/ (down[c] # <<>> /\ down' = [down EXCEPT ![c] = Tail(@)])
    BY DEF Receive, Timeout
  <2>2. down \in [Clients -> Seq(Downlink)]
    BY <1>1 DEF LinkTypes
  <2>3. CASE down[c] # <<>> /\ down' = [down EXCEPT ![c] = Tail(@)]
    <3>1. Tail(down[c]) \in Seq(Downlink)
      BY <2>2, <2>3, TailOf
    <3> QED BY <2>2, <2>3, <3>1
  <2> QED BY <2>1, <2>2, <2>3
<1>8. LinkTypes'
  BY <1>1, <1>3, <1>4, <1>7 DEF LinkTypes
<1>9. ServerTypes'
  BY <1>1, <1>4 DEF ServerTypes, server
<1>10. Attached'
  <2>1. ASSUME NEW d \in Clients
        PROVE  /\ serving'[d] => st'[d] = "wait"
               /\ st'[d] # "wait" => up'[d] = <<>> /\ down'[d] = <<>>
    <3>1. CASE d = c
      BY <1>4, <3>1
    <3>2. CASE d # c
      BY <1>1, <1>4, <1>7, <3>2 DEF Attached
    <3> QED BY <3>1, <3>2
  <2> QED BY <2>1 DEF Attached
<1> QED BY <1>6, <1>8, <1>9, <1>10, TypesAre

LEMMA RunJobWrites ==
  ASSUME TypeInv, NEW c \in Clients, RunJob(c)
  PROVE  \E x \in Seq(Queries) :
           /\ up' = [up EXCEPT ![c] = up[c] \o x]
           /\ queue[c] # <<>> \/ jobs[c][1] # "nodes" => x # <<>>
           /\ queue' = queue \/ queue' = [queue EXCEPT ![c] = <<>>]
<1>1. /\ queue[c] \in Seq(NodeRequests) /\ up[c] \in Seq(Uplink) /\ TypeOK
      /\ Head(jobs[c]) = jobs[c][1]
  BY TypesAre DEF TypeInv, ClientTypes, LinkTypes, RunJob
<1>2. CASE /\ Head(jobs[c]) = "nodes"
           /\ up' = [up EXCEPT ![c] = @ \o UpdateNodes(c, queue[c])]
           /\ queue' = [queue EXCEPT ![c] = <<>>]
  <2>1. UpdateNodes(c, queue[c]) \in Seq(Queries) /\ (queue[c] # <<>> => UpdateNodes(c, queue[c]) # <<>>)
    BY <1>1, UpdateNodesType
  <2> HIDE DEF UpdateNodes
  <2> QED BY <1>1, <1>2, <2>1
<1>3. CASE /\ Head(jobs[c]) = "trackers"
           /\ up' = [up EXCEPT ![c] = Append(@, Msg("trackers_req"))]
           /\ UNCHANGED queue
  <2> DEFINE x == <<Msg("trackers_req")>>
  <2>1. x \in Seq(Queries) /\ x # <<>>
    BY DEF Queries
  <2>2. Msg("trackers_req") \in Uplink
    BY PlainMessages DEF Uplink
  <2>3. Append(up[c], Msg("trackers_req")) = up[c] \o x
    BY <1>1, <2>2
  <2>4. up' = [up EXCEPT ![c] = up[c] \o x]
    BY <1>3, <2>3
  <2> HIDE DEF x
  <2> QED BY <1>3, <2>1, <2>4
<1> QED BY <1>2, <1>3 DEF RunJob

LEMMA RunJobTypes ==
  ASSUME TypeInv, NEW c \in Clients, RunJob(c)
  PROVE  TypeInv'
<1>1. ClientTypes /\ LinkTypes /\ ServerTypes /\ Attached
  BY TypesAre
<1>2. PICK x \in Seq(Queries) : /\ up' = [up EXCEPT ![c] = up[c] \o x]
                                /\ queue' = queue \/ queue' = [queue EXCEPT ![c] = <<>>]
  BY RunJobWrites
<1>3. up \in [Clients -> Seq(Uplink)] /\ x \in Seq(Uplink)
  BY <1>1, TypesOf DEF LinkTypes
<1>4. up' \in [Clients -> Seq(Uplink)] /\ \A d \in Clients : d # c => up'[d] = up[d]
  <2>1. up[c] \o x \in Seq(Uplink)
    BY <1>3
  <2> QED BY <1>2, <1>3, <2>1
<1>5. queue' \in [Clients -> Seq(NodeRequests)]
  <2>1. <<>> \in Seq(NodeRequests) /\ queue \in [Clients -> Seq(NodeRequests)]
    BY <1>1 DEF ClientTypes
  <2> QED BY <1>2, <2>1
<1>6. jobs' \in [Clients -> Seq({"nodes", "trackers"})]
  BY <1>1 DEF RunJob, ClientTypes
<1>7. /\ span' \in [Clients -> 0..Tick] /\ left' \in [Clients -> 0..Tick]
      /\ \A d \in Clients : left'[d] <= span'[d]
  <2>1. span[c] - left[c] \in 0..Tick
    BY <1>1, AgesAre DEF ClientTypes
  <2> QED BY <1>1, <2>1, AgesAre DEF ClientTypes, RunJob
<1>8. ClientTypes'
  BY <1>1, <1>5, <1>6, <1>7 DEF RunJob, ClientTypes, bounds
<1>9. LinkTypes'
  BY <1>1, <1>4 DEF RunJob, LinkTypes
<1>10. ServerTypes'
  BY <1>1 DEF RunJob, ServerTypes, server
<1>11. Attached'
  <2>1. st[c] = "wait" /\ UNCHANGED <<st, serving, down>>
    BY DEF RunJob
  <2> QED BY <1>1, <1>4, <2>1 DEF Attached
<1> QED BY <1>8, <1>9, <1>10, <1>11, TypesAre
-------------------------------------------------------------------------------
(* What the server writes                                                  *)

Records == [addr : Addrs, sid : Sids, age : 0..(ExpireAge + 1)]

LEMMA InfosAre ==
  ASSUME TypeInv
  PROVE  /\ infos \in Seq(Records) /\ Len(infos) \in Nat /\ nodes \in [Addrs -> 0..Len(infos)]
         /\ \A i \in 1..Len(infos) : /\ infos[i] \in Records /\ infos[i].addr \in Addrs
                                     /\ infos[i].sid \in Sids /\ infos[i].age \in 0..(ExpireAge + 1)
<1>1. infos \in Seq(Records) /\ nodes \in [Addrs -> 0..Len(infos)]
  BY TypesAre DEF ServerTypes, Records
<1>2. \A i \in 1..Len(infos) : infos[i] \in Records
  BY <1>1
<1> QED BY <1>1, <1>2 DEF Records

LEMMA RecordWith ==
  ASSUME NEW x \in Records, NEW s \in Sids, NEW n \in 0..(ExpireAge + 1)
  PROVE  /\ [x EXCEPT !.sid = s, !.age = n] = [addr |-> x.addr, sid |-> s, age |-> n]
         /\ [x EXCEPT !.age = n] = [addr |-> x.addr, sid |-> x.sid, age |-> n]
         /\ [x EXCEPT !.age = n] \in Records
<1>1. /\ x = [addr |-> x.addr, sid |-> x.sid, age |-> x.age]
      /\ x.addr \in Addrs /\ x.sid \in Sids
  BY DEF Records
<1>2. [x EXCEPT !.age = n] = [addr |-> x.addr, sid |-> x.sid, age |-> n]
  BY <1>1
<1>3. [x EXCEPT !.sid = s, !.age = n] = [addr |-> x.addr, sid |-> s, age |-> n]
  <2> DEFINE y == [x EXCEPT !.sid = s, !.age = n]
  <2>1. y \in Records /\ y.addr = x.addr /\ y.sid = s /\ y.age = n
    BY DEF Records
  <2> HIDE DEF y
  <2>2. y = [addr |-> y.addr, sid |-> y.sid, age |-> y.age]
    BY <2>1 DEF Records
  <2>3. y = [addr |-> x.addr, sid |-> s, age |-> n]
    BY <2>1, <2>2
  <2> QED BY <2>3 DEF y
<1> QED BY <1>1, <1>2, <1>3 DEF Records

LEMMA ServedIs ==
  ASSUME TypeInv, NEW c \in Clients, serving[c]
  PROVE  st[c] = "wait" /\ addr[c] \in Addrs
BY TypesAre DEF Attached, LinkTypes

(* After a join the record of the address is fresh and of that session,    *)
(* and the others are what they were.                                      *)
LEMMA JoinSets ==
  ASSUME TypeInv, OneRecordPerAddress, NEW a \in Addrs, NEW s \in Sids, Join(a, s)
  PROVE  /\ infos' \in Seq(Records) /\ nodes' \in [Addrs -> 0..Len(infos')]
         /\ nodes'[a] \in 1..Len(infos')
         /\ infos'[nodes'[a]] = [addr |-> a, sid |-> s, age |-> 0]
         /\ \A b \in Addrs : b # a => nodes'[b] = nodes[b]
         /\ \A i \in 1..Len(infos') : i # nodes'[a] => /\ i \in 1..Len(infos) /\ infos'[i] = infos[i]
                                                       /\ infos[i].addr # a
         /\ \A i \in 1..Len(infos) : i \in 1..Len(infos')
<1> DEFINE r == [addr |-> a, sid |-> s, age |-> 0]
<1>1. /\ infos \in Seq(Records) /\ Len(infos) \in Nat /\ nodes \in [Addrs -> 0..Len(infos)]
      /\ \A i \in 1..Len(infos) : infos[i] \in Records
  BY InfosAre
<1>2. r \in Records
  BY AgesAre DEF Records
<1>3. CASE nodes[a] = 0
  <2>1. infos' = Append(infos, r) /\ nodes' = [nodes EXCEPT ![a] = Len(infos) + 1]
    BY <1>3 DEF Join
  <2>2. \A i \in 1..Len(infos) : infos[i].addr # a
    BY <1>3 DEF OneRecordPerAddress
  <2> HIDE DEF r
  <2>3. /\ infos' \in Seq(Records) /\ Len(infos') = Len(infos) + 1
        /\ infos'[Len(infos) + 1] = r
        /\ \A i \in 1..Len(infos) : infos'[i] = infos[i]
    BY <2>1, <1>1, <1>2
  <2>4. nodes' \in [Addrs -> 0..Len(infos')] /\ nodes'[a] = Len(infos) + 1
    BY <2>1, <2>3, <1>1
  <2>5. \A b \in Addrs : b # a => nodes'[b] = nodes[b]
    BY <2>1, <1>1
  <2>6. \A i \in 1..Len(infos') : i # Len(infos) + 1 => i \in 1..Len(infos)
    BY <2>3, <1>1
  <2>7. \A i \in 1..Len(infos) : i \in 1..Len(infos')
    BY <2>3, <1>1
  <2> QED BY <1>1, <2>2, <2>3, <2>4, <2>5, <2>6, <2>7 DEF r
<1>4. CASE nodes[a] # 0
  <2> DEFINE n == nodes[a]
  <2>1. nodes' = nodes /\ infos' = [infos EXCEPT ![n].sid = s, ![n].age = 0]
    BY <1>4 DEF Join
  <2>2. n \in 1..Len(infos) /\ infos[n].addr = a /\ infos[n] \in Records
    BY <1>1, <1>4 DEF OneRecordPerAddress
  <2>3. [infos[n] EXCEPT !.sid = s, !.age = 0] = r
    <3>1. 0 \in 0..(ExpireAge + 1)
      BY AgesAre
    <3>2. [infos[n] EXCEPT !.sid = s, !.age = 0] = [addr |-> infos[n].addr, sid |-> s, age |-> 0]
      BY <2>2, <3>1, RecordWith, Zenon
    <3> QED BY <2>2, <3>2
  <2>4. infos' = [infos EXCEPT ![n] = r]
    BY <2>1, <2>3
  <2>5. \A i \in 1..Len(infos) : i # n => infos[i].addr # a
    BY <2>2 DEF OneRecordPerAddress
  <2>6. n = nodes[a]
    OBVIOUS
  <2> HIDE DEF r, n
  <2>7. /\ infos' \in Seq(Records) /\ Len(infos') = Len(infos) /\ infos'[n] = r
        /\ \A i \in 1..Len(infos) : i # n => infos'[i] = infos[i]
    BY <1>1, <1>2, <2>2, <2>4
  <2> QED BY <1>1, <2>1, <2>2, <2>5, <2>6, <2>7 DEF r
<1> QED BY <1>3, <1>4

(* A heart sets the age of the record of its address, if there is one.     *)
LEMMA HeartSets ==
  ASSUME TypeInv, OneRecordPerAddress, NEW c \in Clients, Heart(c)
  PROVE  /\ infos' \in Seq(Records) /\ Len(infos') = Len(infos) /\ nodes' = nodes
         /\ \A i \in 1..Len(infos) :
              /\ infos'[i].addr = infos[i].addr /\ infos'[i].sid = infos[i].sid
              /\ infos[i].addr = addr[c] => infos'[i].age = 0
              /\ infos[i].addr # addr[c] => infos'[i].age = infos[i].age
<1> DEFINE n == nodes[addr[c]]
<1>1. /\ infos \in Seq(Records) /\ Len(infos) \in Nat /\ nodes \in [Addrs -> 0..Len(infos)]
      /\ \A i \in 1..Len(infos) : infos[i] \in Records
  BY InfosAre
<1>2. addr[c] \in Addrs /\ n \in 0..Len(infos)
  BY <1>1, ServedIs DEF Heart, Arrived
<1>3. infos' = (IF n = 0 THEN infos ELSE [infos EXCEPT ![n].age = 0]) /\ nodes' = nodes
  BY DEF Heart
<1>4. CASE n = 0
  <2>1. \A i \in 1..Len(infos) : infos[i].addr # addr[c]
    BY <1>4 DEF OneRecordPerAddress
  <2> QED BY <1>1, <1>3, <1>4, <2>1
<1>5. CASE n # 0
  <2> DEFINE r == [infos[n] EXCEPT !.age = 0]
  <2>1. n \in 1..Len(infos) /\ infos[n].addr = addr[c] /\ infos[n] \in Records
    BY <1>1, <1>2, <1>5 DEF OneRecordPerAddress
  <2>2. r \in Records /\ r.addr = infos[n].addr /\ r.sid = infos[n].sid /\ r.age = 0
    <3>1. 0 \in 0..(ExpireAge + 1)
      BY AgesAre
    <3>2. r \in Records /\ r = [addr |-> infos[n].addr, sid |-> infos[n].sid, age |-> 0]
      <4>1. infos[n].sid \in Sids
        BY <2>1 DEF Records
      <4> QED BY <2>1, <3>1, <4>1, RecordWith, Zenon
    <3> QED BY <3>2
  <2>3. \A i \in 1..Len(infos) : i # n => infos[i].addr # addr[c]
    BY <1>2 DEF OneRecordPerAddress
  <2>4. infos' = [infos EXCEPT ![n] = r]
    BY <1>3, <1>5
  <2> HIDE DEF r, n
  <2>5. /\ infos' \in Seq(Records) /\ Len(infos') = Len(infos) /\ infos'[n] = r
        /\ \A i \in 1..Len(infos) : i # n => infos'[i] = infos[i]
    BY <1>1, <2>1, <2>2, <2>4
  <2> QED BY <1>3, <2>1, <2>2, <2>3, <2>5
<1> QED BY <1>4, <1>5

LEMMA TimePassesSets ==
  ASSUME TypeInv, TimePasses
  PROVE  /\ infos' \in Seq(Records) /\ Len(infos') = Len(infos) /\ nodes' = nodes
         /\ \A i \in 1..Len(infos) : /\ infos'[i].addr = infos[i].addr /\ infos'[i].sid = infos[i].sid
                                     /\ infos'[i].age = CapAge(infos[i].age + 1)
<1> DEFINE older(i) == [infos[i] EXCEPT !.age = CapAge(@ + 1)]
<1>1. /\ infos \in Seq(Records) /\ Len(infos) \in Nat /\ nodes' = nodes
      /\ \A i \in 1..Len(infos) : infos[i] \in Records /\ infos[i].age \in 0..(ExpireAge + 1)
  BY InfosAre DEF TimePasses
<1>2. infos' = [i \in 1..Len(infos) |-> older(i)]
  BY DEF TimePasses
<1>3. ASSUME NEW i \in 1..Len(infos)
      PROVE  /\ older(i) \in Records /\ older(i).addr = infos[i].addr /\ older(i).sid = infos[i].sid
             /\ older(i).age = CapAge(infos[i].age + 1)
  <2>1. CapAge(infos[i].age + 1) \in 0..(ExpireAge + 1)
    BY <1>1, AgesAre
  <2> QED BY <1>1, <2>1 DEF Records
<1> HIDE DEF older
<1>4. \A i \in 1..Len(infos) : infos'[i] = older(i)
  BY <1>2
<1>5. infos' \in Seq(Records) /\ Len(infos') = Len(infos)
  BY <1>1, <1>2, <1>3
<1> QED BY <1>1, <1>3, <1>4, <1>5

(* A package a coroutine of the server takes is the first that came.       *)
LEMMA TakesFirst ==
  ASSUME TypeInv, NEW c \in Clients, NEW t, Arrived(c, t)
  PROVE  /\ st[c] = "wait" /\ addr[c] \in Addrs /\ up[c] # <<>> /\ up[c][1].type = t
         /\ up[c] \in Seq(Uplink) /\ Head(up[c]) = up[c][1] /\ up[c][1] \in Uplink
         /\ Len(up[c]) \in Nat \ {0} /\ Tail(up[c]) \in Seq(Uplink) /\ Len(Tail(up[c])) = Len(up[c]) - 1
         /\ \A i \in 1..Len(Tail(up[c])) : i + 1 \in 1..Len(up[c]) /\ Tail(up[c])[i] = up[c][i + 1]
<1>1. up[c] \in Seq(Uplink) /\ up[c] # <<>> /\ Head(up[c]).type = t /\ serving[c]
  BY TypesAre DEF LinkTypes, Arrived
<1>2. /\ Tail(up[c]) \in Seq(Uplink) /\ Len(Tail(up[c])) = Len(up[c]) - 1 /\ Len(up[c]) \in Nat \ {0}
      /\ \A i \in 1..Len(Tail(up[c])) : i + 1 \in 1..Len(up[c]) /\ Tail(up[c])[i] = up[c][i + 1]
      /\ Head(up[c]) = up[c][1] /\ 1 \in 1..Len(up[c]) /\ up[c][1] \in Uplink
  BY <1>1, TailOf
<1> QED BY <1>1, <1>2, ServedIs

(* What an answer lists: records that were listed for the session asked    *)
(* for, none twice.                                                        *)
LEMMA AnswerIs ==
  ASSUME TypeInv, NEW c \in Clients, AnswerNodes(c)
  PROVE  \E chosen \in Seq(1..Len(infos)) :
           /\ up[c][1] \in Requests
           /\ down' = [down EXCEPT ![c] = Append(@, NodeRsp(up[c][1], chosen))]
           /\ \A k \in 1..Len(chosen) :
                /\ Listed(chosen[k], Wanted(up[c][1]))
                /\ \A j \in 1..Len(chosen) : j # k => chosen[j] # chosen[k]
<1> DEFINE m == up[c][1]
<1>1. Head(up[c]) = m /\ m \in Uplink /\ m.type = "node_req"
  BY TakesFirst DEF AnswerNodes
<1>2. m \in Requests
  BY <1>1, TypesOf DEF Uplink
<1>3. ASSUME Reply(c, NodeRsp(m, <<>>))
      PROVE  \E chosen \in Seq(1..Len(infos)) :
               /\ down' = [down EXCEPT ![c] = Append(@, NodeRsp(m, chosen))]
               /\ \A k \in 1..Len(chosen) :
                    /\ Listed(chosen[k], Wanted(m))
                    /\ \A j \in 1..Len(chosen) : j # k => chosen[j] # chosen[k]
  <2> DEFINE e == <<>>
  <2>1. e \in Seq(1..Len(infos)) /\ ~ \E k \in 1..Len(e) : TRUE
    OBVIOUS
  <2>2. down' = [down EXCEPT ![c] = Append(@, NodeRsp(m, e))]
    BY <1>3 DEF Reply
  <2> HIDE DEF e, m
  <2> QED BY <1>2, <2>1, <2>2
<1>4. ASSUME NEW start \in 1..Len(infos), Reply(c, NodeRsp(m, Chosen(start, Wanted(m), m.count)))
      PROVE  \E chosen \in Seq(1..Len(infos)) :
               /\ down' = [down EXCEPT ![c] = Append(@, NodeRsp(m, chosen))]
               /\ \A k \in 1..Len(chosen) :
                    /\ Listed(chosen[k], Wanted(m))
                    /\ \A j \in 1..Len(chosen) : j # k => chosen[j] # chosen[k]
  <2> DEFINE r == Chosen(start, Wanted(m), m.count)
  <2>1. m.count \in Nat /\ Len(infos) \in Nat
    BY <1>2, InfosAre DEF Requests
  <2>2. /\ r \in Seq(1..Len(infos))
        /\ \A k \in 1..Len(r) : /\ Listed(r[k], Wanted(m))
                                /\ \A j \in 1..Len(r) : j # k => r[j] # r[k]
    <3> HIDE DEF m
    <3> QED BY <2>1, ChosenAre, Zenon
  <2>3. down' = [down EXCEPT ![c] = Append(@, NodeRsp(m, r))]
    BY <1>4 DEF Reply
  <2> HIDE DEF r, m
  <2> QED BY <2>2, <2>3
<1>5. \/ Reply(c, NodeRsp(m, <<>>))
      \/ \E start \in 1..Len(infos) : Reply(c, NodeRsp(m, Chosen(start, Wanted(m), m.count)))
  BY <1>1 DEF AnswerNodes
<1> HIDE DEF m
<1> QED BY <1>2, <1>3, <1>4, <1>5, Zenon DEF m

LEMMA NodeRspType ==
  ASSUME TypeInv, NEW m \in Requests, NEW chosen \in Seq(1..Len(infos))
  PROVE  /\ NodeRsp(m, chosen) \in Answers /\ NodeRsp(m, chosen).type = "node_rsp"
         /\ NodeRsp(m, chosen).listed = Wanted(m) /\ Wanted(m) \in Sids
         /\ Len(NodeRsp(m, chosen).nodes) = Len(chosen)
         /\ \A k \in 1..Len(chosen) : NodeRsp(m, chosen).nodes[k] = infos[chosen[k]].addr
<1> DEFINE as == [k \in 1..Len(chosen) |-> infos[chosen[k]].addr]
<1>1. m.sid \in Sids /\ Wanted(m) \in Sids
  BY DEF Requests, Wanted, Sids
<1>2. \A k \in 1..Len(chosen) : infos[chosen[k]].addr \in Addrs
  BY InfosAre
<1>3. as \in Seq(Addrs) /\ Len(as) = Len(chosen) /\ \A k \in 1..Len(chosen) : as[k] = infos[chosen[k]].addr
  <2>1. Len(chosen) \in Nat
    OBVIOUS
  <2> QED BY <1>2, <2>1
<1>4. NodeRsp(m, chosen) = [type |-> "node_rsp", sid |-> m.sid, listed |-> Wanted(m), nodes |-> as]
  BY DEF NodeRsp
<1> DEFINE r == NodeRsp(m, chosen)
<1> HIDE DEF as, r
<1>5. r.type = "node_rsp" /\ r.listed = Wanted(m) /\ r.nodes = as
  BY <1>4 DEF r
<1>6. r \in Answers
  <2>1. r = [type |-> "node_rsp", sid |-> m.sid, listed |-> Wanted(m), nodes |-> as]
    BY <1>4 DEF r
  <2>2. \A x, y \in Sids, z \in Seq(Addrs) :
          [type |-> "node_rsp", sid |-> x, listed |-> y, nodes |-> z] \in Answers
    BY DEF Answers
  <2> QED BY <1>1, <1>3, <2>1, <2>2, Zenon
<1> QED BY <1>1, <1>3, <1>5, <1>6, Zenon DEF r

(* What a package of the server does to the links.                         *)
LEMMA ServeLinks ==
  ASSUME TypeInv, NEW c \in Clients, Serve(c)
  PROVE  /\ st[c] = "wait" /\ up' \in [Clients -> Seq(Uplink)] /\ down' \in [Clients -> Seq(Downlink)]
         /\ serving' \in [Clients -> BOOLEAN]
         /\ \A d \in Clients : /\ d # c => up'[d] = up[d] /\ down'[d] = down[d] /\ serving'[d] = serving[d]
                               /\ serving'[d] => serving[d]
         /\ serving'[c] => up'[c] = Tail(up[c])
<1>1. /\ serving \in [Clients -> BOOLEAN] /\ up \in [Clients -> Seq(Uplink)]
      /\ down \in [Clients -> Seq(Downlink)]
  BY TypesAre DEF LinkTypes
<1>2. \E t \in {"init", "heart", "info_req", "trackers_req", "node_req"} : Arrived(c, t)
  BY DEF Serve, InitConnection, Heart, InfoReq, TrackersReq, AnswerNodes
<1>3. st[c] = "wait" /\ Tail(up[c]) \in Seq(Uplink)
  BY <1>2, TakesFirst
<1>4. CASE serving' = [serving EXCEPT ![c] = FALSE] /\ up' = [up EXCEPT ![c] = <<>>] /\ down' = down
  <2>1. <<>> \in Seq(Uplink)
    OBVIOUS
  <2> QED BY <1>1, <1>3, <1>4, <2>1
<1>5. CASE /\ Consume(c) /\ serving' = serving
           /\ down' = down \/ \E m \in Downlink : down' = [down EXCEPT ![c] = Append(@, m)]
  <2>1. \A m \in Downlink : Append(down[c], m) \in Seq(Downlink)
    BY <1>1
  <2>2. down' \in [Clients -> Seq(Downlink)] /\ \A d \in Clients : d # c => down'[d] = down[d]
    BY <1>1, <1>5, <2>1
  <2>3. /\ up' \in [Clients -> Seq(Uplink)] /\ up'[c] = Tail(up[c])
        /\ \A d \in Clients : d # c => up'[d] = up[d]
    BY <1>1, <1>3, <1>5 DEF Consume
  <2> QED BY <1>1, <1>3, <1>5, <2>2, <2>3
<1>6. CASE InfoReq(c) \/ TrackersReq(c)
  <2>1. Consume(c) /\ serving' = serving /\ (Reply(c, Msg("info_rsp")) \/ Reply(c, Msg("trackers_rsp")))
    BY <1>6 DEF InfoReq, TrackersReq
  <2> QED BY <1>5, <2>1, PlainMessages DEF Reply, Downlink
<1>7. CASE AnswerNodes(c)
  <2>1. PICK chosen \in Seq(1..Len(infos)) :
          up[c][1] \in Requests /\ down' = [down EXCEPT ![c] = Append(@, NodeRsp(up[c][1], chosen))]
    BY <1>7, AnswerIs
  <2>2. NodeRsp(up[c][1], chosen) \in Downlink
    BY <2>1, NodeRspType DEF Downlink
  <2> QED BY <1>5, <1>7, <2>1, <2>2 DEF AnswerNodes
<1>8. CASE InitConnection(c) \/ Heart(c)
  BY <1>4, <1>5, <1>8 DEF InitConnection, Heart
<1> QED BY <1>6, <1>7, <1>8 DEF Serve

LEMMA ServeTypes ==
  ASSUME TypeInv, OneRecordPerAddress, NEW c \in Clients, Serve(c)
  PROVE  TypeInv'
<1>1. ClientTypes /\ LinkTypes /\ ServerTypes /\ Attached
  BY TypesAre
<1>2. /\ st[c] = "wait" /\ up' \in [Clients -> Seq(Uplink)] /\ down' \in [Clients -> Seq(Downlink)]
      /\ serving' \in [Clients -> BOOLEAN]
      /\ \A d \in Clients : /\ d # c => up'[d] = up[d] /\ down'[d] = down[d] /\ serving'[d] = serving[d]
                            /\ serving'[d] => serving[d]
  BY ServeLinks
<1>3. UNCHANGED <<profile, st, waiting, wantTrackers, queue, jobs, addr, timers, span, left, asked,
                  breaks, heard, gone>>
  BY DEF Serve, InitConnection, Heart, InfoReq, TrackersReq, AnswerNodes, ClientSide, client, timing
<1>4. ClientTypes'
  BY <1>1, <1>3 DEF ClientTypes
<1>5. LinkTypes'
  BY <1>1, <1>2, <1>3 DEF LinkTypes
<1>6. Attached'
  <2>1. ASSUME NEW d \in Clients
        PROVE  /\ serving'[d] => st'[d] = "wait"
               /\ st'[d] # "wait" => up'[d] = <<>> /\ down'[d] = <<>>
    <3>1. CASE d = c
      BY <1>2, <1>3, <3>1
    <3>2. CASE d # c
      BY <1>1, <1>2, <1>3, <3>2 DEF Attached
    <3> QED BY <3>1, <3>2
  <2> QED BY <2>1 DEF Attached
<1>7. infos' \in Seq(Records) /\ nodes' \in [Addrs -> 0..Len(infos')]
  <2>1. CASE UNCHANGED <<infos, nodes>>
    BY <2>1, InfosAre
  <2>2. CASE InitConnection(c) /\ Join(addr[c], profile[c].sid)
    <3>1. addr[c] \in Addrs /\ profile[c].sid \in Sids
      BY <1>2, <2>2, TakesFirst, SidOf DEF InitConnection, TypeInv
    <3> QED BY <2>2, <3>1, JoinSets
  <2>3. CASE Heart(c)
    <3>1. infos' \in Seq(Records) /\ Len(infos') = Len(infos) /\ nodes' = nodes
      BY <2>3, HeartSets
    <3> QED BY <3>1, InfosAre
  <2> QED BY <2>1, <2>2, <2>3 DEF Serve, InitConnection, InfoReq, TrackersReq, AnswerNodes, server
<1>8. ServerTypes'
  BY <1>1, <1>3, <1>7 DEF ServerTypes, Records
<1> QED BY <1>4, <1>5, <1>6, <1>8, TypesAre

LEMMA ConnectServerTypes ==
  ASSUME TypeInv, NEW c \in Clients, ConnectServer(c)
  PROVE  TypeInv'
<1>1. ClientTypes /\ LinkTypes /\ ServerTypes /\ Attached
  BY TypesAre
<1>2. UNCHANGED <<profile, wantTrackers, queue, jobs, addr, span, left, serving, up, down, nodes,
                  infos, asked, breaks, heard, gone>>
  BY DEF ConnectServer, server, bounds
<1>3. /\ st' \in [Clients -> {"down", "connecting", "wait"}]
      /\ \A d \in Clients : (st'[d] = "wait") <=> (st[d] = "wait")
  BY <1>1 DEF ConnectServer, ClientTypes
<1>4. timers' \in [Clients -> SUBSET (0..RetryDelay)] /\ waiting' \in [Clients -> BOOLEAN]
  BY <1>1 DEF ConnectServer, ClientTypes
<1>5. ClientTypes'
  BY <1>1, <1>2, <1>3, <1>4 DEF ClientTypes
<1>6. LinkTypes'
  BY <1>1, <1>2, <1>3 DEF LinkTypes
<1>7. ServerTypes' /\ Attached'
  BY <1>1, <1>2, <1>3 DEF ServerTypes, Attached
<1> QED BY <1>5, <1>6, <1>7, TypesAre

LEMMA RequestTypes ==
  ASSUME TypeInv, NEW c \in Clients,
         RequestUpdateTrackers(c) \/ \E r \in NodeRequests : RequestUpdateNodes(c, r)
  PROVE  TypeInv'
<1>1. ClientTypes /\ LinkTypes /\ ServerTypes /\ Attached
  BY TypesAre
<1>2. /\ UNCHANGED <<profile, waiting, addr, timers, span, left, serving, up, down, nodes, infos,
                     breaks, heard, gone>>
      /\ ConnectIfDown(c) /\ (PostJob(c, "nodes") \/ PostJob(c, "trackers"))
      /\ asked < MaxRequests /\ asked' = asked + 1
  BY DEF RequestUpdateTrackers, RequestUpdateNodes, timing, server
<1>3. /\ st' \in [Clients -> {"down", "connecting", "wait"}]
      /\ \A d \in Clients : (st'[d] = "wait") <=> (st[d] = "wait")
  BY <1>1, <1>2 DEF ConnectIfDown, ClientTypes
<1>4. asked' \in 0..MaxRequests
  BY <1>1, <1>2, BoundsAssumption DEF ClientTypes
<1>5. jobs' \in [Clients -> Seq({"nodes", "trackers"})]
  <2>1. \A j \in {"nodes", "trackers"} : Append(jobs[c], j) \in Seq({"nodes", "trackers"})
    BY <1>1 DEF ClientTypes
  <2> QED BY <1>1, <1>2, <2>1 DEF PostJob, ClientTypes
<1>6. queue' \in [Clients -> Seq(NodeRequests)] /\ wantTrackers' \in [Clients -> BOOLEAN]
  <2>1. CASE RequestUpdateTrackers(c)
    BY <1>1, <2>1 DEF RequestUpdateTrackers, ClientTypes
  <2>2. ASSUME NEW r \in NodeRequests, RequestUpdateNodes(c, r)
        PROVE  queue' \in [Clients -> Seq(NodeRequests)] /\ wantTrackers' = wantTrackers
    <3>1. Append(queue[c], r) \in Seq(NodeRequests)
      BY <1>1 DEF ClientTypes
    <3> QED BY <1>1, <2>2, <3>1 DEF RequestUpdateNodes, ClientTypes
  <2> QED BY <1>1, <2>1, <2>2 DEF ClientTypes
<1>7. ClientTypes'
  BY <1>1, <1>2, <1>3, <1>4, <1>5, <1>6 DEF ClientTypes
<1>8. LinkTypes'
  BY <1>1, <1>2, <1>3 DEF LinkTypes
<1>9. ServerTypes' /\ Attached'
  BY <1>1, <1>2, <1>3 DEF ServerTypes, Attached
<1> QED BY <1>7, <1>8, <1>9, TypesAre

LEMMA TimePassesTypes ==
  ASSUME TypeInv, TimePasses
  PROVE  TypeInv'
<1>1. ClientTypes /\ LinkTypes /\ ServerTypes /\ Attached
  BY TypesAre
<1>2. UNCHANGED <<profile, st, waiting, wantTrackers, queue, jobs, addr, span, serving, up, down,
                  nodes, asked, breaks, heard>>
  BY DEF TimePasses, client, bounds
<1>3. timers' \in [Clients -> SUBSET (0..RetryDelay)]
  <2>1. \A c \in Clients : ~ 0 \in timers[c]
    BY DEF TimePasses, Due
  <2>2. timers' = [c \in Clients |-> {t - 1 : t \in timers[c]}]
    BY DEF TimePasses
  <2>3. ASSUME NEW c \in Clients PROVE {t - 1 : t \in timers[c]} \in SUBSET (0..RetryDelay)
    BY <1>1, <2>1, AgesAre DEF ClientTypes
  <2> QED BY <2>2, <2>3
<1>4. left' \in [Clients -> 0..Tick] /\ \A c \in Clients : left'[c] <= span'[c]
  <2>1. left' = [c \in Clients |-> IF st[c] = "wait" THEN left[c] - 1 ELSE left[c]]
    BY DEF TimePasses
  <2>2. ASSUME NEW c \in Clients PROVE left'[c] \in 0..Tick /\ left'[c] <= span[c]
    <3>1. left[c] \in 0..Tick /\ left[c] <= span[c] /\ span[c] \in 0..Tick
      BY <1>1 DEF ClientTypes
    <3>2. st[c] = "wait" => left[c] # 0
      BY DEF TimePasses, Due
    <3> QED BY <2>1, <3>1, <3>2, AgesAre
  <2> QED BY <1>2, <2>1, <2>2
<1>5. infos' \in Seq(Records) /\ nodes' \in [Addrs -> 0..Len(infos')]
  BY TimePassesSets, InfosAre
<1>6. gone' \in [Addrs -> [Sids -> 0..(ExpireAge + 1)]]
  <2>1. gone' = [a \in Addrs |-> [s \in Sids |-> IF Present(a, s) THEN 0 ELSE CapAge(gone[a][s] + 1)]]
    BY DEF TimePasses
  <2>2. ASSUME NEW a \in Addrs, NEW s \in Sids
        PROVE  (IF Present(a, s) THEN 0 ELSE CapAge(gone[a][s] + 1)) \in 0..(ExpireAge + 1)
    <3>1. gone[a][s] \in 0..(ExpireAge + 1) /\ 0 \in 0..(ExpireAge + 1)
      BY <1>1, AgesAre DEF ServerTypes
    <3> QED BY <3>1, AgesAre
  <2> QED BY <2>1, <2>2
<1>7. ClientTypes'
  BY <1>1, <1>2, <1>3, <1>4 DEF ClientTypes
<1>8. LinkTypes'
  BY <1>1, <1>2 DEF LinkTypes
<1>9. ServerTypes'
  BY <1>1, <1>2, <1>5, <1>6 DEF ServerTypes, Records
<1>10. Attached'
  BY <1>1, <1>2 DEF Attached
<1> QED BY <1>7, <1>8, <1>9, <1>10, TypesAre

LEMMA RestartTypes ==
  ASSUME TypeInv, Restart
  PROVE  TypeInv'
<1>1. ClientTypes /\ LinkTypes /\ ServerTypes /\ Attached
  BY TypesAre
<1>2. /\ UNCHANGED <<profile, st, waiting, wantTrackers, queue, jobs, addr, timers, span, left, asked,
                     heard, gone>>
      /\ breaks < MaxBreaks /\ breaks' = breaks + 1
  BY DEF Restart, ClientSide, client, timing
<1>3. /\ serving' = [c \in Clients |-> FALSE] /\ up' = [c \in Clients |-> <<>>]
      /\ down' = [c \in Clients |-> <<>>] /\ nodes' = [a \in Addrs |-> 0] /\ infos' = <<>>
  BY DEF Restart
<1>4. ClientTypes'
  BY <1>1, <1>2, BoundsAssumption DEF ClientTypes
<1>5. LinkTypes'
  BY <1>1, <1>2, <1>3 DEF LinkTypes
<1>6. ServerTypes'
  BY <1>1, <1>2, <1>3 DEF ServerTypes
<1>7. Attached'
  BY <1>3 DEF Attached
<1> QED BY <1>4, <1>5, <1>6, <1>7, TypesAre

LEMMA StartTypes ==
  ASSUME Init
  PROVE  TypeInv
<1>1. /\ 0 \in 0..RetryDelay /\ 0 \in 0..Tick /\ 0 \in 0..MaxRequests /\ 0 \in 0..MaxBreaks
      /\ 0 \in 0..2 /\ (ExpireAge + 1) \in 0..(ExpireAge + 1) /\ 0 <= 0
  BY AgesAre, BoundsAssumption
<1>2. profile \in Profiles /\ \A c \in Clients : profile[c].garbage \in BOOLEAN
  BY ProfilesAssumption DEF Init, Profile
<1>3. ClientTypes
  BY <1>1, <1>2 DEF Init, ClientTypes
<1>4. LinkTypes
  BY DEF Init, LinkTypes
<1>5. ServerTypes
  <2>1. Len(infos) = 0 /\ infos = <<>> /\ nodes = [a \in Addrs |-> 0]
    BY DEF Init
  <2>2. gone \in [Addrs -> [Sids -> 0..(ExpireAge + 1)]]
    BY <1>1 DEF Init
  <2> QED BY <1>2, <2>1, <2>2 DEF ServerTypes
<1>6. Attached
  BY DEF Init, Attached
<1> QED BY <1>3, <1>4, <1>5, <1>6, TypesAre

LEMMA TypesInductive ==
  ASSUME TypeInv, OneRecordPerAddress, [Next]_vars
  PROVE  TypeInv'
<1>1. CASE TimePasses
  BY <1>1, TimePassesTypes
<1>2. CASE Restart
  BY <1>2, RestartTypes
<1>3. ASSUME NEW c \in Clients, Proceed(c) PROVE TypeInv'
  <2>1. CASE EndOfStream(c)
    <3>1. waiting' \in [Clients -> BOOLEAN] /\ breaks' \in 0..MaxBreaks
      BY <2>1, TypesAre DEF EndOfStream, ClientTypes, bounds
    <3> QED BY <2>1, <3>1, ErrorTypes DEF EndOfStream, bounds
  <2> QED BY <1>3, <2>1, ConnectServerTypes, EstablishedTypes, RunJobTypes, ReceiveTypes, ServeTypes
          DEF Proceed
<1>4. ASSUME NEW c \in Clients, Break(c) PROVE TypeInv'
  <2>1. waiting' \in [Clients -> BOOLEAN] /\ breaks' \in 0..MaxBreaks
    BY <1>4, TypesAre, BoundsAssumption DEF Break, ClientTypes
  <2> QED BY <1>4, <2>1, ErrorTypes DEF Break
<1>5. ASSUME NEW c \in Clients,
             RequestUpdateTrackers(c) \/ \E r \in NodeRequests : RequestUpdateNodes(c, r)
      PROVE  TypeInv'
  BY <1>5, RequestTypes
<1>6. CASE UNCHANGED vars
  BY <1>6 DEF vars, client, timing, server, bounds, TypeInv, TypeOK, Attached
<1> QED BY <1>1, <1>2, <1>3, <1>4, <1>5, <1>6 DEF Next

(* Every variable of the tracker and of its clients keeps its type, and    *)
(* nothing is on its way on a connection that is down.                     *)
THEOREM TypeCorrect == Spec => []TypeOK
<1>1. Init => RegistryInv /\ TypeInv
  BY StartTypes DEF Init, RegistryInv, RegistryType, OneRecordPerAddress
<1>2. RegistryInv /\ TypeInv /\ [Next]_vars => RegistryInv' /\ TypeInv'
  BY RegistryInductive, TypesInductive DEF RegistryInv
<1>3. TypeInv => TypeOK
  BY DEF TypeInv
<1> QED BY <1>1, <1>2, <1>3, PTL DEF Spec
-------------------------------------------------------------------------------
(* Who is, or was, at an address                                           *)

There(a, s, n) == Present(a, s) \/ gone[a][s] <= n

(* The steps that change nobody's address: all but those of a connection   *)
(* that is made or broken, and time.                                       *)
Staying == UNCHANGED <<profile, addr, gone>>

LEMMA WhoStays ==
  ASSUME [Next]_vars
  PROVE  \/ TimePasses
         \/ \E c \in Clients : Established(c)
         \/ \E c \in Clients : Error(c) /\ UNCHANGED <<profile, nodes, infos, queue, wantTrackers>>
         \/ Staying
<1>1. ASSUME NEW c \in Clients,
             \/ ConnectServer(c) \/ RunJob(c) \/ Receive(c) \/ Timeout(c) \/ RequestUpdateTrackers(c)
             \/ \E r \in NodeRequests : RequestUpdateNodes(c, r)
      PROVE  Staying
  BY <1>1 DEF ConnectServer, RunJob, Receive, Timeout, RequestUpdateTrackers, RequestUpdateNodes, Staying
<1>2. ASSUME NEW c \in Clients, Serve(c) PROVE Staying
  BY <1>2 DEF Serve, InitConnection, Heart, InfoReq, TrackersReq, AnswerNodes, ClientSide, client, Staying
<1>3. Restart => Staying
  BY DEF Restart, ClientSide, client, Staying
<1>4. UNCHANGED vars => Staying
  BY DEF vars, client, Staying
<1>5. ASSUME NEW c \in Clients, Break(c) \/ EndOfStream(c)
      PROVE  Error(c) /\ UNCHANGED <<profile, nodes, infos, queue, wantTrackers>>
  BY <1>5 DEF Break, EndOfStream, server
<1> QED BY <1>1, <1>2, <1>3, <1>4, <1>5 DEF Next, Proceed

LEMMA OwnAddressInductive ==
  ASSUME TypeInv, OwnAddress, [Next]_vars
  PROVE  OwnAddress'
<1>1. addr \in [Clients -> Addrs \cup {NoAddr}]
  BY TypesAre DEF LinkTypes
<1>2. ASSUME NEW c \in Clients, Established(c) PROVE OwnAddress'
  <2>1. PICK a \in Addrs : a \notin {addr[d] : d \in Clients} /\ addr' = [addr EXCEPT ![c] = a]
    BY <1>2 DEF Established
  <2> QED BY <1>1, <2>1 DEF OwnAddress
<1>3. ASSUME NEW c \in Clients, Error(c) PROVE OwnAddress'
  <2>1. addr' = [addr EXCEPT ![c] = NoAddr]
    BY <1>3 DEF Error
  <2> QED BY <1>1, <2>1 DEF OwnAddress
<1>4. TimePasses => addr' = addr
  BY DEF TimePasses, client
<1>5. Staying => addr' = addr
  BY DEF Staying
<1>6. addr' = addr => OwnAddress'
  BY DEF OwnAddress
<1> QED BY <1>2, <1>3, <1>4, <1>5, <1>6, WhoStays

(* Whoever is at an address stays or leaves a trace; no time passes.       *)
LEMMA ThereKeeps ==
  ASSUME TypeInv, [Next]_vars, ~TimePasses
  PROVE  \A a \in Addrs, s \in Sids, n \in Nat : There(a, s, n) => There(a, s, n)'
<1> SUFFICES ASSUME NEW a \in Addrs, NEW s \in Sids, NEW n \in Nat, There(a, s, n)
             PROVE  There(a, s, n)'
  OBVIOUS
<1>1. /\ addr \in [Clients -> Addrs \cup {NoAddr}] /\ st \in [Clients -> {"down", "connecting", "wait"}]
      /\ gone \in [Addrs -> [Sids -> 0..(ExpireAge + 1)]]
      /\ \A c \in Clients : st[c] = "wait" <=> addr[c] # NoAddr
  BY TypesAre DEF LinkTypes, ClientTypes, ServerTypes
<1>2. CASE Staying
  BY <1>2 DEF Staying, There, Present, Holds, Allowed
<1>3. ASSUME NEW c \in Clients, Established(c) PROVE There(a, s, n)'
  <2>1. PICK b \in Addrs : addr' = [addr EXCEPT ![c] = b]
    BY <1>3 DEF Established
  <2>2. addr[c] = NoAddr /\ profile' = profile /\ gone' = gone
    BY <1>1, <1>3 DEF Established
  <2>3. ASSUME NEW d \in Clients, addr[d] = a PROVE addr'[d] = a
    BY <1>1, <2>1, <2>2, <2>3, AddrsAssumption
  <2>4. \A d \in Clients : Holds(d, s)' <=> Holds(d, s)
    BY <2>2 DEF Holds, Allowed
  <2> QED BY <2>2, <2>3, <2>4 DEF There, Present
<1>4. ASSUME NEW c \in Clients, Error(c), profile' = profile PROVE There(a, s, n)'
  <2>1. /\ addr' = [addr EXCEPT ![c] = NoAddr]
        /\ gone' = [b \in Addrs |-> [t \in Sids |-> IF b = addr[c] /\ Holds(c, t) THEN 0 ELSE gone[b][t]]]
    BY <1>4 DEF Error
  <2>2. gone'[a][s] = IF a = addr[c] /\ Holds(c, s) THEN 0 ELSE gone[a][s]
    BY <2>1
  <2>3. \A d \in Clients : Holds(d, s)' <=> Holds(d, s)
    BY <1>4 DEF Holds, Allowed
  <2>4. CASE gone[a][s] <= n
    BY <2>2, <2>4 DEF There
  <2>5. ASSUME NEW d \in Clients, addr[d] = a, Holds(d, s) PROVE There(a, s, n)'
    <3>1. CASE d = c
      BY <2>2, <2>5, <3>1 DEF There
    <3>2. CASE d # c
      <4>1. addr'[d] = a
        BY <1>1, <2>1, <2>5, <3>2
      <4> QED BY <2>3, <2>5, <4>1 DEF There, Present
    <3> QED BY <3>1, <3>2
  <2> QED BY <2>4, <2>5 DEF There, Present
<1> QED BY <1>2, <1>3, <1>4, WhoStays

LEMMA ThereAges ==
  ASSUME TypeInv, TimePasses
  PROVE  \A a \in Addrs, s \in Sids, n \in 0..(ExpireAge + 1) :
           There(a, s, n) => There(a, s, CapAge(n + 1))'
<1> SUFFICES ASSUME NEW a \in Addrs, NEW s \in Sids, NEW n \in 0..(ExpireAge + 1), There(a, s, n)
             PROVE  There(a, s, CapAge(n + 1))'
  OBVIOUS
<1>1. gone[a][s] \in 0..(ExpireAge + 1)
  BY TypesAre DEF ServerTypes
<1>2. /\ gone'[a][s] = IF Present(a, s) THEN 0 ELSE CapAge(gone[a][s] + 1)
      /\ UNCHANGED <<profile, addr>>
  BY DEF TimePasses, client
<1>3. CapAge(n + 1) \in Nat
  BY AgesAre
<1>4. CASE Present(a, s)
  BY <1>2, <1>4 DEF There, Present, Holds, Allowed
<1>5. CASE ~Present(a, s)
  <2>1. gone[a][s] <= n
    BY <1>5 DEF There
  <2>2. CapAge(gone[a][s] + 1) <= CapAge(n + 1)
    BY <1>1, <2>1, AgesAre
  <2>3. gone'[a][s] <= CapAge(n + 1)
    BY <1>2, <1>5, <2>2
  <2> QED BY <2>3 DEF There
<1> QED BY <1>4, <1>5
-------------------------------------------------------------------------------
(* Registrations come first                                                *)

NoInit(x) == \A i \in 1..Len(x) : x[i].type # "init"

LEMMA ConcatIs ==
  ASSUME NEW T, NEW x \in Seq(T), NEW y \in Seq(T)
  PROVE  /\ x \o y \in Seq(T) /\ Len(x \o y) = Len(x) + Len(y) /\ Len(x) \in Nat /\ Len(y) \in Nat
         /\ \A i \in 1..Len(x) : i \in 1..Len(x \o y) /\ (x \o y)[i] = x[i]
         /\ \A i \in 1..Len(y) : Len(x) + i \in 1..Len(x \o y) /\ (x \o y)[Len(x) + i] = y[i]
         /\ \A i \in 1..Len(x \o y) : \/ i \in 1..Len(x) /\ (x \o y)[i] = x[i]
                                      \/ i - Len(x) \in 1..Len(y) /\ (x \o y)[i] = y[i - Len(x)]
OBVIOUS

LEMMA QueriesRegisterNobody ==
  ASSUME NEW x \in Seq(Queries)
  PROVE  NoInit(x) /\ NoInit(<<Msg("heart")>> \o x) /\ NoInit(<<Msg("info_req")>> \o x)
         /\ x \in Seq(Uplink) /\ NoInit(<<>> \o x)
<1>1. x \in Seq(Uplink) /\ NoInit(x)
  BY TypesOf DEF NoInit
<1>2. ASSUME NEW m \in Uplink, m.type # "init" PROVE NoInit(<<m>> \o x)
  <2>1. <<m>> \in Seq(Uplink) /\ Len(<<m>>) = 1 /\ <<m>>[1] = m
    BY <1>2
  <2>2. \A i \in 1..1 : i = 1
    OBVIOUS
  <2> DEFINE z == <<m>>
  <2> HIDE DEF z
  <2>3. z \in Seq(Uplink) /\ Len(z) = 1 /\ z[1] = m
    BY <2>1 DEF z
  <2>4. ASSUME NEW i \in 1..Len(z \o x) PROVE (z \o x)[i].type # "init"
    <3>1. \/ i \in 1..Len(z) /\ (z \o x)[i] = z[i]
          \/ i - Len(z) \in 1..Len(x) /\ (z \o x)[i] = x[i - Len(z)]
      <4>1. z \in Seq(Uplink) /\ x \in Seq(Uplink)
        BY <1>1, <2>3
      <4> QED BY <4>1, ConcatIs, Zenon
    <3> QED BY <1>1, <1>2, <2>2, <2>3, <3>1 DEF NoInit
  <2> QED BY <2>4 DEF NoInit, z
<1>3. Msg("heart") \in Uplink /\ Msg("info_req") \in Uplink
  BY PlainMessages DEF Uplink
<1>4. Msg("heart").type # "init" /\ Msg("info_req").type # "init"
  BY DEF Msg
<1>5. <<>> \o x = x
  BY <1>1
<1> QED BY <1>1, <1>2, <1>3, <1>4, <1>5

Registers(c) ==
  serving[c] =>
    /\ \A i \in 1..Len(up[c]) : up[c][i].type = "init" => i = 1 /\ profile[c].registers
    /\ profile[c].registers => HeadInit(c) \/ Registered(c)

(* A connection on which only other packages were written.                 *)
LEMMA WritesKeepRegisters ==
  ASSUME TypeInv, NEW c \in Clients, Registers(c), serving'[c] => serving[c], profile' = profile,
         Registered(c) => Registered(c)', NEW x \in Seq(Uplink), NoInit(x), up'[c] = up[c] \o x
  PROVE  Registers(c)'
<1>1. up[c] \in Seq(Uplink)
  BY TypesAre DEF LinkTypes
<1>2. \A i \in 1..Len(up'[c]) : \/ i \in 1..Len(up[c]) /\ up'[c][i] = up[c][i]
                                \/ i - Len(up[c]) \in 1..Len(x) /\ up'[c][i] = x[i - Len(up[c])]
  BY <1>1, ConcatIs
<1>3. HeadInit(c) => HeadInit(c)'
  <2> SUFFICES ASSUME HeadInit(c) PROVE HeadInit(c)'
    OBVIOUS
  <2>1. up[c] # <<>> /\ 1 \in 1..Len(up[c]) /\ up[c][1].type = "init"
    BY <1>1, TailOf DEF HeadInit
  <2>2. up'[c][1] = up[c][1] /\ 1 \in 1..Len(up'[c])
    BY <1>1, <2>1, ConcatIs
  <2>3. up'[c] # <<>>
    BY <2>2
  <2> QED BY <2>1, <2>2, <2>3 DEF HeadInit
<1>4. ASSUME serving[c], NEW i \in 1..Len(up'[c]), up'[c][i].type = "init"
      PROVE  i = 1 /\ profile[c].registers
  BY <1>2, <1>4 DEF NoInit, Registers
<1> QED BY <1>3, <1>4 DEF Registers

LEMMA SameKeepsRegisters ==
  ASSUME NEW c \in Clients, Registers(c), serving'[c] => serving[c], profile' = profile,
         Registered(c) => Registered(c)', up'[c] = up[c]
  PROVE  Registers(c)'
BY DEF Registers, HeadInit

(* Its registration is what a new connection starts with.                  *)
LEMMA EstablishedRegisters ==
  ASSUME TypeInv, NEW c \in Clients, Established(c)
  PROVE  Registers(c)'
<1>1. /\ st \in [Clients -> {"down", "connecting", "wait"}] /\ up \in [Clients -> Seq(Uplink)]
      /\ up[c] = <<>> /\ TypeOK /\ profile' = profile
  BY TypesAre DEF LinkTypes, ClientTypes, Attached, Established, TypeInv
<1>2. PICK ask \in HandlerAsks(c) : LoopTop(c, Prologue(c), queue[c] \o ask)
  BY DEF Established
<1>3. Prologue(c) \in Seq(Plain) /\ queue[c] \o ask \in Seq(NodeRequests)
  <2>1. ask \in Seq(NodeRequests) /\ queue[c] \in Seq(NodeRequests)
    BY AskIs, TypesAre DEF ClientTypes
  <2> QED BY <2>1, PlainMessages DEF Prologue
<1>4. PICK x \in Seq(Queries) : up' = [up EXCEPT ![c] = up[c] \o (Prologue(c) \o x)]
  BY <1>1, <1>2, <1>3, LoopTopWrites
<1>5. x \in Seq(Uplink) /\ Prologue(c) \in Seq(Uplink) /\ NoInit(x) /\ NoInit(<<Msg("info_req")>> \o x)
  <2>1. Prologue(c) \in Seq(Uplink)
    BY <1>3 DEF Uplink
  <2> QED BY <2>1, QueriesRegisterNobody
<1>6. up'[c] = Prologue(c) \o x
  BY <1>1, <1>4, <1>5
<1>7. CASE ~profile[c].registers
  <2>1. Prologue(c) = <<Msg("info_req")>>
    BY <1>7 DEF Prologue
  <2>2. NoInit(up'[c])
    BY <1>5, <1>6, <2>1
  <2> QED BY <1>1, <1>7, <2>2 DEF Registers, NoInit
<1>8. CASE profile[c].registers
  <2> DEFINE p == Prologue(c)
  <2> DEFINE a == <<Msg("init")>>
             b == <<Msg("info_req")>>
  <2>1. p = a \o b
    BY <1>8 DEF Prologue
  <2>2. p \in Seq(Uplink) /\ Len(p) = 2 /\ p[1].type = "init" /\ p[2].type # "init"
    <3>1. a \in Seq(Uplink) /\ Len(a) = 1 /\ a[1].type = "init"
      BY PlainMessages DEF Uplink, Msg
    <3>2. b \in Seq(Uplink) /\ Len(b) = 1 /\ b[1].type # "init"
      BY PlainMessages DEF Uplink, Msg
    <3> HIDE DEF a, b
    <3>3. 1 \in 1..Len(a) /\ 1 \in 1..Len(b)
      BY <3>1, <3>2
    <3>4. (a \o b)[1] = a[1] /\ (a \o b)[Len(a) + 1] = b[1] /\ Len(a \o b) = Len(a) + Len(b)
      BY <3>1, <3>2, <3>3, ConcatIs
    <3>5. (a \o b)[2] = b[1] /\ Len(a \o b) = 2
      BY <3>1, <3>2, <3>4
    <3> QED BY <1>5, <2>1, <3>1, <3>2, <3>4, <3>5
  <2> DEFINE u == up'[c]
  <2>7. u = p \o x
    BY <1>6
  <2> HIDE DEF p, u
  <2>3. \A i \in 1..Len(u) : \/ i \in 1..2 /\ u[i] = p[i]
                             \/ i - 2 \in 1..Len(x) /\ u[i] = x[i - 2]
    <3>1. \A i \in 1..Len(p \o x) : \/ i \in 1..Len(p) /\ (p \o x)[i] = p[i]
                                    \/ i - Len(p) \in 1..Len(x) /\ (p \o x)[i] = x[i - Len(p)]
      <4>1. p \in Seq(Uplink) /\ x \in Seq(Uplink)
        BY <1>5, <2>2
      <4> QED BY <4>1, ConcatIs, Zenon
    <3> QED BY <2>2, <2>7, <3>1
  <2>4. u # <<>> /\ u[1].type = "init"
    <3>1. 1 \in 1..Len(p)
      BY <2>2
    <3>2. 1 \in 1..Len(p \o x) /\ (p \o x)[1] = p[1]
      BY <1>5, <2>2, <3>1, ConcatIs
    <3> QED BY <2>2, <2>7, <3>2
  <2>5. ASSUME NEW i \in 1..Len(u), u[i].type = "init" PROVE i = 1
    <3>1. CASE i \in 1..2 /\ u[i] = p[i]
      <4>1. i = 1 \/ i = 2
        BY <3>1
      <4> QED BY <2>2, <2>5, <3>1, <4>1
    <3>2. CASE i - 2 \in 1..Len(x) /\ u[i] = x[i - 2]
      BY <1>5, <2>5, <3>2 DEF NoInit
    <3> QED BY <2>3, <3>1, <3>2
  <2> QED BY <1>1, <1>8, <2>4, <2>5 DEF Registers, HeadInit, u
<1> QED BY <1>7, <1>8

(* What the client writes when its wait ends.                              *)
LEMMA PacketWrites ==
  ASSUME TypeInv, NEW c \in Clients, Receive(c) \/ Timeout(c)
  PROVE  \E x \in Seq(Queries) :
           \/ up' = [up EXCEPT ![c] = up[c] \o x]
           \/ Timeout(c) /\ up' = [up EXCEPT ![c] = up[c] \o (<<Msg("heart")>> \o x)]
<1>1. queue \in [Clients -> Seq(NodeRequests)] /\ asked \in 0..MaxRequests /\ TypeOK
  BY TypesAre DEF ClientTypes, TypeInv
<1>2. CASE Timeout(c)
  <2>1. <<Msg("heart")>> \in Seq(Plain) /\ LoopTop(c, <<Msg("heart")>>, queue[c])
    BY <1>2, PlainMessages DEF Timeout
  <2>2. \E x \in Seq(Queries) : up' = [up EXCEPT ![c] = up[c] \o (<<Msg("heart")>> \o x)]
    BY <1>1, <2>1, LoopTopWrites
  <2> QED BY <1>2, <2>2
<1>3. CASE Receive(c)
  <2>1. PICK ask \in HandlerAsks(c) \cup {<<>>} : LoopTop(c, <<>>, queue[c] \o ask)
    BY <1>3 DEF Receive
  <2>2. queue[c] \o ask \in Seq(NodeRequests) /\ <<>> \in Seq(Plain)
    BY <1>1, <2>1, AskIs
  <2>3. PICK x \in Seq(Queries) : up' = [up EXCEPT ![c] = up[c] \o (<<>> \o x)]
    BY <1>1, <2>1, <2>2, LoopTopWrites
  <2>4. <<>> \o x = x
    OBVIOUS
  <2> QED BY <1>3, <2>3, <2>4
<1> QED BY <1>2, <1>3

(* The registry a registered client sees stays as it is while others join, *)
(* and while hearts and time change the ages.                              *)
LEMMA RegisteredKeeps ==
  ASSUME TypeInv, OneRecordPerAddress, OneRecordPerAddress', OwnAddress, NEW c \in Clients,
         Serve(c) \/ TimePasses, NEW d \in Clients, serving[d], Registered(d)
  PROVE  Registered(d)'
<1>1. /\ addr[d] \in Addrs /\ nodes \in [Addrs -> 0..Len(infos)] /\ Len(infos) \in Nat
      /\ nodes[addr[d]] \in 1..Len(infos) /\ Allowed(d)
  BY ServedIs, InfosAre DEF Registered
<1>2. profile' = profile /\ addr' = addr
  BY DEF Serve, InitConnection, Heart, InfoReq, TrackersReq, AnswerNodes, TimePasses, ClientSide, client
<1>3. CASE UNCHANGED <<nodes, infos>>
  BY <1>2, <1>3 DEF Registered, Allowed
<1>4. CASE /\ nodes' = nodes
           /\ \A i \in 1..Len(infos) : infos'[i].sid = infos[i].sid
  BY <1>1, <1>2, <1>4 DEF Registered, Allowed
<1>5. CASE InitConnection(c) /\ Join(addr[c], profile[c].sid)
  <2>1. addr[c] \in Addrs /\ profile[c].sid \in Sids
    BY <1>5, TakesFirst, SidOf DEF InitConnection, TypeInv
  <2>2. /\ infos'[nodes'[addr[c]]] = [addr |-> addr[c], sid |-> profile[c].sid, age |-> 0]
        /\ nodes'[addr[c]] \in 1..Len(infos') /\ infos' \in Seq(Records)
        /\ \A b \in Addrs : b # addr[c] => nodes'[b] = nodes[b]
        /\ \A i \in 1..Len(infos') : i # nodes'[addr[c]] => infos'[i] = infos[i]
        /\ \A i \in 1..Len(infos) : i \in 1..Len(infos')
    BY <1>5, <2>1, JoinSets
  <2>3. CASE d = c
    <3>1. infos'[nodes'[addr[c]]].sid = profile[c].sid /\ nodes'[addr[c]] # 0
      BY <2>2
    <3> QED BY <1>1, <1>2, <2>3, <3>1 DEF Registered, Allowed
  <2>4. CASE d # c
    <3>1. addr[d] # addr[c]
      BY <1>1, <2>4, AddrsAssumption DEF OwnAddress
    <3>2. nodes'[addr[d]] = nodes[addr[d]] /\ nodes'[addr[d]] \in 1..Len(infos') /\ nodes'[addr[d]] # 0
      BY <1>1, <2>2, <3>1
    <3>3. infos'[nodes'[addr[d]]].addr = addr[d] /\ infos'[nodes'[addr[c]]].addr = addr[c]
      BY <1>1, <2>1, <2>2, <3>2 DEF OneRecordPerAddress
    <3>4. infos'[nodes'[addr[d]]] = infos[nodes[addr[d]]]
      BY <2>2, <3>1, <3>2, <3>3
    <3> QED BY <1>2, <3>2, <3>4 DEF Registered, Allowed
  <2> QED BY <2>3, <2>4
<1>6. CASE Heart(c)
  BY <1>4, <1>6, HeartSets
<1>7. CASE TimePasses
  BY <1>4, <1>7, TimePassesSets
<1> QED BY <1>3, <1>5, <1>6, <1>7
        DEF Serve, InitConnection, InfoReq, TrackersReq, AnswerNodes, server

LEMMA ServeRegisters ==
  ASSUME TypeInv, OneRecordPerAddress, OneRecordPerAddress', OwnAddress, NEW c \in Clients, Serve(c),
         NEW d \in Clients, Registers(d)
  PROVE  Registers(d)'
<1> SUFFICES ASSUME serving'[d] PROVE Registers(d)'
  BY DEF Registers
<1>1. /\ serving[d] /\ (d # c => up'[d] = up[d]) /\ (d = c => up'[d] = Tail(up[d]))
      /\ profile' = profile
  <2>1. profile' = profile
    BY DEF Serve, InitConnection, Heart, InfoReq, TrackersReq, AnswerNodes
  <2> QED BY <2>1, ServeLinks
<1>2. Registered(d) => Registered(d)'
  BY <1>1, RegisteredKeeps
<1>3. CASE d # c
  BY <1>1, <1>2, <1>3, SameKeepsRegisters
<1>4. CASE d = c
  <2>1. /\ up'[c] = Tail(up[c]) /\ up[c] # <<>>
        /\ Len(Tail(up[c])) \in Nat
        /\ \A i \in 1..Len(Tail(up[c])) : i + 1 \in 1..Len(up[c]) /\ Tail(up[c])[i] = up[c][i + 1]
    <3>1. \E t \in {"init", "heart", "info_req", "trackers_req", "node_req"} : Arrived(c, t)
      BY DEF Serve, InitConnection, Heart, InfoReq, TrackersReq, AnswerNodes
    <3> QED BY <1>1, <1>4, <3>1, TakesFirst
  <2>2. ASSUME NEW i \in 1..Len(up'[c]) PROVE up'[c][i].type # "init"
    <3>1. i + 1 \in 1..Len(up[c]) /\ up'[c][i] = up[c][i + 1] /\ i + 1 # 1
      BY <2>1
    <3> QED BY <1>1, <1>4, <3>1 DEF Registers
  <2>3. ASSUME HeadInit(c), profile[c].registers PROVE Registered(c)'
    <3>1. InitConnection(c) /\ Join(addr[c], profile[c].sid) /\ Allowed(c)
      <4>1. InitConnection(c)
        <5>1. \A t : Arrived(c, t) => t = "init"
          <6> SUFFICES ASSUME NEW t, Arrived(c, t) PROVE t = "init"
            OBVIOUS
          <6> QED BY <2>3, TakesFirst DEF HeadInit
        <5> QED BY <5>1 DEF Serve, Heart, InfoReq, TrackersReq, AnswerNodes
      <4>2. serving'[c] /\ serving \in [Clients -> BOOLEAN]
        BY <1>4, TypesAre DEF LinkTypes
      <4> QED BY <4>1, <4>2 DEF InitConnection
    <3>2. addr[c] \in Addrs /\ profile[c].sid \in Sids /\ addr' = addr
      BY <3>1, TakesFirst, SidOf DEF InitConnection, TypeInv, ClientSide, client
    <3>3. /\ infos'[nodes'[addr[c]]] = [addr |-> addr[c], sid |-> profile[c].sid, age |-> 0]
          /\ nodes'[addr[c]] \in 1..Len(infos') /\ infos' \in Seq(Records)
      BY <3>1, <3>2, JoinSets
    <3>4. infos'[nodes'[addr[c]]].sid = profile[c].sid /\ nodes'[addr[c]] # 0
      BY <3>3
    <3> QED BY <1>1, <3>1, <3>2, <3>4 DEF Registered, Allowed
  <2>4. profile[c].registers => Registered(c)'
    BY <1>1, <1>2, <1>4, <2>3 DEF Registers
  <2> QED BY <1>1, <1>4, <2>2, <2>4 DEF Registers
<1> QED BY <1>3, <1>4

LEMMA RegisteringInductive ==
  ASSUME RegistryInv, RegistryInv', TypeInv, OwnAddress, Registering, [Next]_vars
  PROVE  Registering'
<1>1. \A d \in Clients : Registers(d)
  BY DEF Registering, Registers
<1>2. OneRecordPerAddress /\ OneRecordPerAddress'
  BY DEF RegistryInv
<1>3. /\ st \in [Clients -> {"down", "connecting", "wait"}] /\ up \in [Clients -> Seq(Uplink)]
      /\ serving \in [Clients -> BOOLEAN] /\ addr \in [Clients -> Addrs \cup {NoAddr}] /\ TypeOK
      /\ queue \in [Clients -> Seq(NodeRequests)] /\ asked \in 0..MaxRequests
  BY TypesAre DEF LinkTypes, ClientTypes, TypeInv
<1> SUFFICES ASSUME NEW d \in Clients PROVE Registers(d)'
  BY DEF Registering, Registers
<1>4. CASE TimePasses
  <2>1. UNCHANGED <<profile, serving, up>>
    BY <1>4 DEF TimePasses
  <2>2. serving[d] /\ Registered(d) => Registered(d)'
    BY <1>2, <1>4, RegisteredKeeps
  <2> QED BY <1>1, <2>1, <2>2 DEF Registers, HeadInit
<1>5. CASE Restart
  BY <1>5 DEF Restart, Registers
<1>6. ASSUME NEW c \in Clients, Serve(c) PROVE Registers(d)'
  BY <1>1, <1>2, <1>6, ServeRegisters
<1>7. ASSUME UNCHANGED <<profile, serving, up, addr, nodes, infos>> PROVE Registers(d)'
  BY <1>1, <1>7 DEF Registers, HeadInit, Registered, Allowed
<1>8. ASSUME NEW c \in Clients,
             \/ ConnectServer(c) \/ RequestUpdateTrackers(c)
             \/ \E r \in NodeRequests : RequestUpdateNodes(c, r)
      PROVE  Registers(d)'
  BY <1>7, <1>8 DEF ConnectServer, RequestUpdateTrackers, RequestUpdateNodes, server
<1>9. ASSUME NEW c \in Clients, Error(c), UNCHANGED <<profile, nodes, infos>> PROVE Registers(d)'
  <2>1. CASE d = c
    BY <1>3, <1>9, <2>1 DEF Error, Registers
  <2>2. CASE d # c
    <3>1. up'[d] = up[d] /\ serving'[d] = serving[d] /\ addr'[d] = addr[d]
      BY <1>3, <1>9, <2>2 DEF Error
    <3>2. Registered(d) => Registered(d)'
      BY <1>9, <3>1 DEF Registered, Allowed
    <3> QED BY <1>1, <1>9, <3>1, <3>2, SameKeepsRegisters
  <2> QED BY <2>1, <2>2
<1>10. ASSUME NEW c \in Clients, Established(c) PROVE Registers(d)'
  <2>1. CASE d # c
    <3>1. up'[d] = up[d] /\ serving'[d] = serving[d] /\ addr'[d] = addr[d] /\ UNCHANGED <<profile, nodes, infos>>
      BY <1>3, <1>10, <2>1 DEF Established, LoopTop, server
    <3>2. Registered(d) => Registered(d)'
      BY <3>1 DEF Registered, Allowed
    <3> QED BY <1>1, <3>1, <3>2, SameKeepsRegisters
  <2> QED BY <1>10, <2>1, EstablishedRegisters
<1>11. ASSUME NEW c \in Clients, NEW x \in Seq(Uplink), NoInit(x), up' = [up EXCEPT ![c] = up[c] \o x],
              UNCHANGED <<profile, serving, addr, nodes, infos>>
       PROVE  Registers(d)'
  <2>1. Registered(d) => Registered(d)'
    BY <1>11 DEF Registered, Allowed
  <2>2. CASE d = c
    <3>1. up'[d] = up[d] \o x
      BY <1>3, <1>11, <2>2
    <3> QED BY <1>1, <1>11, <2>1, <3>1, WritesKeepRegisters
  <2>3. CASE d # c
    <3>1. up'[d] = up[d]
      BY <1>3, <1>11, <2>3
    <3> QED BY <1>1, <1>11, <2>1, <3>1, SameKeepsRegisters
  <2> QED BY <2>2, <2>3
<1>12. ASSUME NEW c \in Clients, RunJob(c) PROVE Registers(d)'
  <2>1. PICK x \in Seq(Queries) : up' = [up EXCEPT ![c] = up[c] \o x]
    BY <1>12, RunJobWrites
  <2>2. UNCHANGED <<profile, serving, addr, nodes, infos>>
    BY <1>12 DEF RunJob, server
  <2> QED BY <1>11, <2>1, <2>2, QueriesRegisterNobody
<1>13. ASSUME NEW c \in Clients, Receive(c) \/ Timeout(c) PROVE Registers(d)'
  <2>1. PICK x \in Seq(Queries) : \/ up' = [up EXCEPT ![c] = up[c] \o x]
                                  \/ up' = [up EXCEPT ![c] = up[c] \o (<<Msg("heart")>> \o x)]
    BY <1>13, PacketWrites
  <2>3. NoInit(x) /\ NoInit(<<Msg("heart")>> \o x) /\ x \in Seq(Uplink) /\ <<Msg("heart")>> \o x \in Seq(Uplink)
    <3>1. <<Msg("heart")>> \in Seq(Uplink)
      BY PlainMessages DEF Uplink
    <3>2. x \in Seq(Uplink) /\ NoInit(x) /\ NoInit(<<Msg("heart")>> \o x)
      BY QueriesRegisterNobody
    <3> QED BY <3>1, <3>2
  <2>2. UNCHANGED <<profile, serving, addr, nodes, infos>>
    BY <1>13 DEF Receive, Timeout, server
  <2> QED BY <1>11, <2>1, <2>2, <2>3
<1>14. CASE UNCHANGED vars
  BY <1>7, <1>14 DEF vars, client, server
<1> QED BY <1>4, <1>5, <1>6, <1>8, <1>9, <1>10, <1>12, <1>13, <1>14
        DEF Next, Proceed, Break, EndOfStream, server
-------------------------------------------------------------------------------
(* What is listed was there                                                *)

FreshAt(i) == infos[i].age <= ExpireAge => There(infos[i].addr, infos[i].sid, infos[i].age)

LEMMA FreshIs ==
  /\ FreshIsThere <=> \A i \in 1..Len(infos) : FreshAt(i)
  /\ FreshIsThere' <=> \A i \in 1..Len(infos') : FreshAt(i)'
BY DEF FreshIsThere, FreshAt, There, Present, Holds, Allowed

LEMMA FreshNext ==
  ASSUME NEW i, NEW b, NEW t, NEW n, infos'[i].addr = b, infos'[i].sid = t, infos'[i].age = n,
         n <= ExpireAge => There(b, t, n)'
  PROVE  FreshAt(i)'
BY DEF FreshAt, There, Present, Holds, Allowed

(* A client of the session is at its address, and so is one that does not  *)
(* register and whose hearts are taken for those of that session.          *)
LEMMA PresentIs ==
  ASSUME NEW c \in Clients, NEW b, NEW t, NEW n, addr'[c] = b, profile' = profile,
         profile[c].registers => profile[c].sid = t /\ Allowed(c)
  PROVE  There(b, t, n)'
<1>1. Holds(c, t)'
  BY DEF Holds, Allowed
<1> QED BY <1>1 DEF There, Present

LEMMA FreshInductive ==
  ASSUME RegistryInv, TypeInv, Registering, FreshIsThere, [Next]_vars
  PROVE  FreshIsThere'
<1>1. /\ infos \in Seq(Records) /\ Len(infos) \in Nat
      /\ \A i \in 1..Len(infos) : /\ infos[i] \in Records /\ infos[i].addr \in Addrs
                                  /\ infos[i].sid \in Sids /\ infos[i].age \in 0..(ExpireAge + 1)
  BY InfosAre
<1>2. OneRecordPerAddress /\ \A i \in 1..Len(infos) : FreshAt(i)
  BY FreshIs DEF RegistryInv
<1> SUFFICES ASSUME NEW i \in 1..Len(infos') PROVE FreshAt(i)'
  BY FreshIs
<1>3. CASE TimePasses
  <2>1. /\ i \in 1..Len(infos) /\ infos'[i].addr = infos[i].addr /\ infos'[i].sid = infos[i].sid
        /\ infos'[i].age = CapAge(infos[i].age + 1)
    BY <1>3, TimePassesSets
  <2>2. PICK b \in Addrs, t \in Sids, m \in 0..(ExpireAge + 1) :
          b = infos[i].addr /\ t = infos[i].sid /\ m = infos[i].age
    BY <1>1, <2>1
  <2>3. ASSUME CapAge(m + 1) <= ExpireAge PROVE There(b, t, CapAge(m + 1))'
    <3>1. m <= ExpireAge
      BY <2>3, AgesAre DEF CapAge
    <3>2. There(b, t, m)
      BY <1>2, <2>1, <2>2, <3>1 DEF FreshAt
    <3> QED BY <1>3, <3>2, ThereAges
  <2> DEFINE n == CapAge(m + 1)
  <2>4. infos'[i].addr = b /\ infos'[i].sid = t /\ infos'[i].age = n /\ (n <= ExpireAge => There(b, t, n)')
    BY <2>1, <2>2, <2>3
  <2> HIDE DEF n
  <2> QED BY <2>4, FreshNext
<1>4. ASSUME ~TimePasses, i \in 1..Len(infos), infos'[i] = infos[i] PROVE FreshAt(i)'
  <2>1. PICK b \in Addrs, t \in Sids, m \in 0..(ExpireAge + 1) :
          b = infos[i].addr /\ t = infos[i].sid /\ m = infos[i].age
    BY <1>1, <1>4
  <2>2. m \in Nat /\ (m <= ExpireAge => There(b, t, m))
    BY <1>2, <1>4, <2>1, AgesAre DEF FreshAt
  <2>3. m <= ExpireAge => There(b, t, m)'
    BY <1>4, <2>2, ThereKeeps
  <2> QED BY <1>4, <2>1, <2>3, FreshNext
<1>5. ASSUME ~TimePasses, infos' = infos PROVE FreshAt(i)'
  BY <1>4, <1>5
<1>6. CASE Restart
  BY <1>6 DEF Restart
<1>7. ASSUME NEW c \in Clients, InitConnection(c), ~TimePasses PROVE FreshAt(i)'
  <2>1. CASE UNCHANGED server
    BY <1>5, <1>7, <2>1 DEF server
  <2>2. CASE Allowed(c) /\ Join(addr[c], profile[c].sid)
    <3>1. /\ addr[c] \in Addrs /\ profile[c].sid \in Sids /\ UNCHANGED <<profile, addr>>
      BY <1>7, TakesFirst, SidOf DEF InitConnection, TypeInv, ClientSide, client
    <3>2. /\ infos'[nodes'[addr[c]]] = [addr |-> addr[c], sid |-> profile[c].sid, age |-> 0]
          /\ \A j \in 1..Len(infos') : j # nodes'[addr[c]] => j \in 1..Len(infos) /\ infos'[j] = infos[j]
      BY <1>2, <2>2, <3>1, JoinSets
    <3>3. CASE i # nodes'[addr[c]]
      BY <1>4, <1>7, <3>2, <3>3
    <3>4. CASE i = nodes'[addr[c]]
      <4>1. PICK b \in Addrs, t \in Sids : b = addr[c] /\ t = profile[c].sid
        BY <3>1
      <4>2. infos'[i].addr = b /\ infos'[i].sid = t /\ infos'[i].age = 0
        BY <3>2, <3>4, <4>1
      <4>3. There(b, t, 0)'
        BY <2>2, <3>1, <4>1, PresentIs
      <4> QED BY <4>2, <4>3, FreshNext
    <3> QED BY <3>3, <3>4
  <2> QED BY <1>7, <2>1, <2>2 DEF InitConnection
<1>8. ASSUME NEW c \in Clients, Heart(c), ~TimePasses PROVE FreshAt(i)'
  <2>1. /\ infos' \in Seq(Records) /\ Len(infos') = Len(infos) /\ i \in 1..Len(infos)
        /\ infos'[i].addr = infos[i].addr /\ infos'[i].sid = infos[i].sid
        /\ infos[i].addr = addr[c] => infos'[i].age = 0
        /\ infos[i].addr # addr[c] => infos'[i].age = infos[i].age
    <3>1. /\ infos' \in Seq(Records) /\ Len(infos') = Len(infos)
          /\ \A j \in 1..Len(infos) :
               /\ infos'[j].addr = infos[j].addr /\ infos'[j].sid = infos[j].sid
               /\ infos[j].addr = addr[c] => infos'[j].age = 0
               /\ infos[j].addr # addr[c] => infos'[j].age = infos[j].age
      BY <1>2, <1>8, HeartSets
    <3> QED BY <3>1
  <2>2. PICK b \in Addrs, t \in Sids, m \in 0..(ExpireAge + 1) :
          b = infos[i].addr /\ t = infos[i].sid /\ m = infos[i].age
    BY <1>1, <2>1
  <2>3. CASE infos[i].addr # addr[c]
    <3>1. m \in Nat /\ (m <= ExpireAge => There(b, t, m))
      <4>1. FreshAt(i) /\ m \in Nat
        BY <1>2, <2>1, <2>2, AgesAre
      <4> QED BY <2>2, <4>1, Zenon DEF FreshAt
    <3>2. m <= ExpireAge => There(b, t, m)'
      BY <1>8, <3>1, ThereKeeps
    <3> QED BY <2>1, <2>2, <2>3, <3>2, FreshNext
  <2>4. CASE infos[i].addr = addr[c]
    <3>1. UNCHANGED <<profile, addr>> /\ serving[c] /\ up[c] # <<>> /\ up[c][1].type = "heart"
      BY <1>8, TakesFirst DEF Heart, ClientSide, client, Arrived
    <3>2. profile[c].registers => Registered(c)
      BY <3>1 DEF Registering, HeadInit
    <3>3. nodes[addr[c]] = i
      BY <1>2, <2>1, <2>4 DEF OneRecordPerAddress
    <3>4. profile[c].registers => profile[c].sid = t /\ Allowed(c)
      BY <2>2, <3>2, <3>3 DEF Registered
    <3>5. There(b, t, 0)'
      BY <2>2, <2>4, <3>1, <3>4, PresentIs
    <3> QED BY <2>1, <2>2, <2>4, <3>5, FreshNext
  <2> QED BY <2>3, <2>4
<1>9. ASSUME NEW c \in Clients,
             \/ ConnectServer(c) \/ RequestUpdateTrackers(c) \/ RunJob(c) \/ Receive(c) \/ Timeout(c)
             \/ Established(c) \/ EndOfStream(c) \/ Break(c) \/ InfoReq(c) \/ TrackersReq(c)
             \/ AnswerNodes(c) \/ \E r \in NodeRequests : RequestUpdateNodes(c, r)
      PROVE  infos' = infos
  BY <1>9 DEF ConnectServer, RequestUpdateTrackers, RunJob, Receive, Timeout, Established, EndOfStream,
              Break, InfoReq, TrackersReq, AnswerNodes, RequestUpdateNodes, server
<1>10. UNCHANGED vars => infos' = infos
  BY DEF vars, server
<1> QED BY <1>3, <1>5, <1>6, <1>7, <1>8, <1>9, <1>10 DEF Next, Proceed, Serve

(* What ListedWasThere says of one package.                                *)
Shown(m) ==
  m.type = "node_rsp" =>
    \A k \in 1..Len(m.nodes) :
      /\ There(m.nodes[k], m.listed, ExpireAge)
      /\ \A j \in 1..Len(m.nodes) : j # k => m.nodes[j] # m.nodes[k]

LEMMA ListedIs ==
  /\ ListedWasThere <=> \A c \in Clients : \A i \in 1..Len(down[c]) : Shown(down[c][i])
  /\ ListedWasThere' <=> \A c \in Clients : \A i \in 1..Len(down'[c]) : Shown(down[c][i])'
BY DEF ListedWasThere, Shown, There, Present, Holds, Allowed

LEMMA ShownNext ==
  ASSUME NEW d, NEW i, NEW m, down'[d][i] = m, Shown(m)'
  PROVE  Shown(down[d][i])'
BY SMTT(30) DEF Shown, There, Present, Holds, Allowed

LEMMA AnswersAre ==
  ASSUME NEW m \in Downlink, m.type = "node_rsp"
  PROVE  m.nodes \in Seq(Addrs) /\ m.listed \in Sids /\ \A k \in 1..Len(m.nodes) : m.nodes[k] \in Addrs
<1>1. m \in Answers
  BY TypesOf DEF Downlink
<1>2. m.nodes \in Seq(Addrs) /\ m.listed \in Sids
  BY <1>1 DEF Answers
<1> QED BY <1>2

LEMMA ShownKeeps ==
  ASSUME TypeInv, [Next]_vars, ~TimePasses
  PROVE  \A m \in Downlink : Shown(m) => Shown(m)'
<1> SUFFICES ASSUME NEW m \in Downlink, Shown(m), m.type = "node_rsp" PROVE Shown(m)'
  BY DEF Shown
<1>1. m.listed \in Sids /\ \A k \in 1..Len(m.nodes) : m.nodes[k] \in Addrs
  BY AnswersAre
<1>2. ExpireAge \in Nat
  BY AgesAre
<1>3. ASSUME NEW k \in 1..Len(m.nodes) PROVE There(m.nodes[k], m.listed, ExpireAge)'
  <2>1. There(m.nodes[k], m.listed, ExpireAge)
    BY DEF Shown
  <2> QED BY <1>1, <1>2, <2>1, ThereKeeps
<1> QED BY <1>3 DEF Shown

(* The names of the packages that are not lists of nodes.                  *)
LEMMA PlainShown == \A m \in Plain : Shown(m)'
BY TypesOf DEF Shown

LEMMA AnswerShown ==
  ASSUME RegistryInv, TypeInv, FreshIsThere, NEW c \in Clients, AnswerNodes(c), ~TimePasses, [Next]_vars
  PROVE  \E m \in Downlink : down' = [down EXCEPT ![c] = Append(@, m)] /\ Shown(m)'
<1>1. PICK chosen \in Seq(1..Len(infos)) :
        /\ up[c][1] \in Requests
        /\ down' = [down EXCEPT ![c] = Append(@, NodeRsp(up[c][1], chosen))]
        /\ \A k \in 1..Len(chosen) :
             /\ Listed(chosen[k], Wanted(up[c][1]))
             /\ \A j \in 1..Len(chosen) : j # k => chosen[j] # chosen[k]
  BY AnswerIs
<1>2. PICK m \in Downlink, w \in Sids :
        /\ m = NodeRsp(up[c][1], chosen) /\ w = Wanted(up[c][1])
        /\ m.type = "node_rsp" /\ m.listed = w /\ Len(m.nodes) = Len(chosen)
        /\ \A k \in 1..Len(chosen) : m.nodes[k] = infos[chosen[k]].addr
  BY <1>1, NodeRspType DEF Downlink
<1>3. \A k \in 1..Len(chosen) : chosen[k] \in 1..Len(infos)
  BY <1>1
<1>4. ASSUME NEW k \in 1..Len(m.nodes)
      PROVE  /\ There(m.nodes[k], m.listed, ExpireAge)
             /\ \A j \in 1..Len(m.nodes) : j # k => m.nodes[j] # m.nodes[k]
  <2> DEFINE i == chosen[k]
  <2>1. i \in 1..Len(infos) /\ Listed(i, w) /\ m.nodes[k] = infos[i].addr
    BY <1>1, <1>2, <1>3
  <2>2. There(infos[i].addr, infos[i].sid, infos[i].age) /\ infos[i].age <= ExpireAge /\ infos[i].sid = w
    BY <2>1, FreshIs DEF Listed, FreshAt
  <2>3. infos[i].age \in 0..(ExpireAge + 1) /\ infos[i].addr \in Addrs
    BY <2>1, InfosAre
  <2>4. There(m.nodes[k], m.listed, ExpireAge)
    <3>1. gone[infos[i].addr][w] \in 0..(ExpireAge + 1)
      BY <2>3, TypesAre DEF ServerTypes
    <3> HIDE DEF i
    <3>2. CASE Present(infos[i].addr, w)
      BY <1>2, <2>1, <3>2, Zenon DEF There
    <3>3. CASE gone[infos[i].addr][w] <= infos[i].age
      <4>1. gone[infos[i].addr][w] <= ExpireAge
        BY <2>2, <2>3, <3>1, <3>3, AgesAre
      <4> QED BY <1>2, <2>1, <4>1, Zenon DEF There
    <3> QED BY <2>2, <3>2, <3>3, Zenon DEF There
  <2>5. ASSUME NEW j \in 1..Len(m.nodes), j # k PROVE m.nodes[j] # m.nodes[k]
    <3>1. chosen[j] # chosen[k] /\ chosen[j] \in 1..Len(infos) /\ m.nodes[j] = infos[chosen[j]].addr
      BY <1>1, <1>2, <1>3, <2>5
    <3>2. nodes[infos[chosen[j]].addr] = chosen[j] /\ nodes[infos[i].addr] = i
      BY <2>1, <3>1 DEF RegistryInv, OneRecordPerAddress
    <3> QED BY <2>1, <3>1, <3>2
  <2> QED BY <2>4, <2>5
<1>5. Shown(m)
  BY <1>4 DEF Shown
<1>6. Shown(m)'
  BY <1>5, ShownKeeps
<1> QED BY <1>1, <1>2, <1>6

LEMMA ListedInductive ==
  ASSUME RegistryInv, TypeInv, FreshIsThere, ListedWasThere, [Next]_vars
  PROVE  ListedWasThere'
<1>1. down \in [Clients -> Seq(Downlink)] /\ \A c \in Clients : \A i \in 1..Len(down[c]) : Shown(down[c][i])
  BY ListedIs, TypesAre DEF LinkTypes
<1> SUFFICES ASSUME NEW d \in Clients, NEW i \in 1..Len(down'[d]) PROVE Shown(down[d][i])'
  BY ListedIs
<1>2. CASE TimePasses
  <2>1. down'[d] = <<>>
    BY <1>2 DEF TimePasses, Due
  <2> QED BY <2>1
<1>3. ASSUME ~TimePasses, NEW j \in 1..Len(down[d]), down'[d][i] = down[d][j] PROVE Shown(down[d][i])'
  <2>1. PICK m \in Downlink : m = down[d][j]
    BY <1>1
  <2>2. Shown(m)
    BY <1>1, <2>1
  <2>3. Shown(m)'
    BY <1>3, <2>2, ShownKeeps
  <2> QED BY <1>3, <2>1, <2>3, ShownNext
<1>4. ASSUME ~TimePasses, down'[d] = down[d] PROVE Shown(down[d][i])'
  BY <1>3, <1>4
<1>5. CASE Restart
  BY <1>5 DEF Restart
<1>6. ASSUME NEW c \in Clients, Error(c), ~TimePasses PROVE Shown(down[d][i])'
  <2>1. CASE d = c
    BY <1>1, <1>6, <2>1 DEF Error
  <2>2. CASE d # c
    BY <1>1, <1>4, <1>6, <2>2 DEF Error
  <2> QED BY <2>1, <2>2
<1>7. ASSUME NEW c \in Clients, Receive(c), ~TimePasses PROVE Shown(down[d][i])'
  <2>1. down[c] # <<>> /\ down' = [down EXCEPT ![c] = Tail(@)]
    BY <1>7 DEF Receive
  <2>2. CASE d = c
    <3>1. down'[d] = Tail(down[d]) /\ i + 1 \in 1..Len(down[d]) /\ Tail(down[d])[i] = down[d][i + 1]
      BY <1>1, <2>1, <2>2, TailOf
    <3> QED BY <1>3, <1>7, <3>1
  <2>3. CASE d # c
    BY <1>1, <1>4, <1>7, <2>1, <2>3
  <2> QED BY <2>2, <2>3
<1>8. ASSUME NEW c \in Clients, NEW m \in Downlink, Shown(m)', ~TimePasses,
             down' = [down EXCEPT ![c] = Append(@, m)]
      PROVE  Shown(down[d][i])'
  <2>1. CASE d = c
    <3>1. \/ i \in 1..Len(down[d]) /\ down'[d][i] = down[d][i]
          \/ down'[d][i] = m
      <4>1. down'[d] = Append(down[d], m) /\ down[d] \in Seq(Downlink)
        BY <1>1, <1>8, <2>1
      <4> QED BY <4>1
    <3>2. CASE down'[d][i] = m
      BY <1>8, <3>2, ShownNext
    <3> QED BY <1>3, <1>8, <3>1, <3>2
  <2>2. CASE d # c
    BY <1>1, <1>4, <1>8, <2>2
  <2> QED BY <2>1, <2>2
<1>9. ASSUME NEW c \in Clients, InfoReq(c) \/ TrackersReq(c), ~TimePasses PROVE Shown(down[d][i])'
  <2>1. PICK m \in Plain : down' = [down EXCEPT ![c] = Append(@, m)]
    BY <1>9, PlainMessages DEF InfoReq, TrackersReq, Reply
  <2>2. m \in Downlink /\ Shown(m)'
    BY PlainShown DEF Downlink
  <2> QED BY <1>8, <1>9, <2>1, <2>2
<1>10. ASSUME NEW c \in Clients, AnswerNodes(c), ~TimePasses PROVE Shown(down[d][i])'
  BY <1>8, <1>10, AnswerShown
<1>11. ASSUME NEW c \in Clients,
              \/ ConnectServer(c) \/ RequestUpdateTrackers(c) \/ RunJob(c) \/ Timeout(c) \/ Established(c)
              \/ InitConnection(c) \/ Heart(c) \/ \E r \in NodeRequests : RequestUpdateNodes(c, r)
       PROVE  down' = down
  BY <1>11 DEF ConnectServer, RequestUpdateTrackers, RunJob, Timeout, Established, InitConnection, Heart,
               RequestUpdateNodes
<1>12. UNCHANGED vars => down' = down
  BY DEF vars
<1> QED BY <1>2, <1>4, <1>5, <1>6, <1>7, <1>9, <1>10, <1>11, <1>12
        DEF Next, Proceed, Serve, Break, EndOfStream

ListingInv == RegistryInv /\ TypeInv /\ OwnAddress /\ Registering /\ FreshIsThere /\ ListedWasThere

(* The nodes a tracker answers with are registered with the session they   *)
(* are listed for, or left no longer than two ticks ago, and none is in an *)
(* answer twice: whatever clients come, go, take over addresses or do not  *)
(* register, and however the scan of node_infos starts.                    *)
THEOREM AnswersAreOfNodes == Spec => []ListedWasThere
<1>1. Init => ListingInv
  <2> SUFFICES ASSUME Init PROVE ListingInv
    OBVIOUS
  <2>1. RegistryInv
    BY DEF Init, RegistryInv, RegistryType, OneRecordPerAddress
  <2>2. TypeInv
    BY StartTypes
  <2>3. OwnAddress /\ Registering /\ FreshIsThere /\ ListedWasThere
    BY DEF Init, OwnAddress, Registering, FreshIsThere, ListedWasThere
  <2> QED BY <2>1, <2>2, <2>3 DEF ListingInv
<1>2. ListingInv /\ [Next]_vars => ListingInv'
  <2> SUFFICES ASSUME ListingInv, [Next]_vars PROVE ListingInv'
    OBVIOUS
  <2>1. RegistryInv' /\ TypeInv' /\ OwnAddress'
    BY RegistryInductive, TypesInductive, OwnAddressInductive DEF ListingInv, RegistryInv
  <2>2. Registering' /\ FreshIsThere' /\ ListedWasThere'
    BY <2>1, RegisteringInductive, FreshInductive, ListedInductive DEF ListingInv
  <2> QED BY <2>1, <2>2 DEF ListingInv
<1>3. ListingInv => ListedWasThere
  BY DEF ListingInv
<1> QED BY <1>1, <1>2, <1>3, PTL DEF Spec
-------------------------------------------------------------------------------
(* Who is quiet is listed                                                  *)

Held(c) == serving[c] /\ profile[c].registers /\ Allowed(c)

Within(c, n) == Since(c) <= n /\ (~Asking(c) => Since(c) + left[c] <= n)

BeatsOf(c) == Held(c) => /\ heard[c] = 0 => Within(c, Tick)
                         /\ heard[c] = 1 => Within(c, 2 * Tick)

LEMMA BeatsAre ==
  /\ Beats <=> \A c \in Clients : BeatsOf(c)
  /\ Beats' <=> \A c \in Clients : BeatsOf(c)'
BY DEF Beats, BeatsOf, Held, Within, Allowed

LEMMA SinceIs ==
  ASSUME TypeInv, Registering, NEW c \in Clients, Held(c)
  PROVE  /\ Since(c) \in Nat
         /\ ~Pinged(c) => /\ addr[c] \in Addrs /\ nodes[addr[c]] \in 1..Len(infos)
                          /\ Since(c) = infos[nodes[addr[c]]].age
<1>1. CASE Pinged(c)
  BY <1>1 DEF Since
<1>2. CASE ~Pinged(c)
  <2>1. ~HeadInit(c)
    <3> SUFFICES ASSUME HeadInit(c) PROVE FALSE
      OBVIOUS
    <3>1. up[c] \in Seq(Uplink)
      BY TypesAre DEF LinkTypes
    <3>2. 1 \in 1..Len(up[c]) /\ up[c][1].type = "init"
      BY <3>1, TailOf DEF HeadInit
    <3> QED BY <1>2, <3>2 DEF Pinged, Beat
  <2>2. nodes[addr[c]] # 0 /\ addr[c] \in Addrs
    BY <2>1, ServedIs DEF Registering, Registered, Held
  <2>3. nodes[addr[c]] \in 1..Len(infos) /\ infos[nodes[addr[c]]].age \in Nat
    BY <2>2, InfosAre, AgesAre
  <2> QED BY <1>2, <2>2, <2>3 DEF Since
<1> QED BY <1>1, <1>2

LEMMA WithinKeeps ==
  ASSUME TypeInv, TypeInv', NEW c \in Clients, NEW n \in Nat, Within(c, n), Since(c) \in Nat, Since(c)' = Since(c),
         Asking(c)' \/ (~Asking(c) /\ left'[c] <= left[c])
  PROVE  Within(c, n)'
<1>1. left[c] \in Nat /\ left'[c] \in Nat
  BY AgesAre, TypesAre DEF ClientTypes
<1> QED BY <1>1 DEF Within

LEMMA BeatsKeep ==
  ASSUME NEW c \in Clients, BeatsOf(c), Held(c)' => Held(c), heard'[c] = heard[c],
         \A n \in Nat : Held(c) /\ Within(c, n) => Within(c, n)'
  PROVE  BeatsOf(c)'
<1>1. Tick \in Nat /\ 2 * Tick \in Nat
  BY AgesAre
<1> QED BY <1>1 DEF BeatsOf

(* What queries do to what the server has to read.                         *)
LEMMA QueriesAsk ==
  ASSUME TypeInv, NEW c \in Clients, NEW x \in Seq(Queries), up'[c] = up[c] \o x
  PROVE  /\ Pinged(c)' <=> Pinged(c)
         /\ x # <<>> => Asking(c)'
         /\ down'[c] = down[c] => (Asking(c) => Asking(c)') /\ (x = <<>> /\ Asking(c)' => Asking(c))
<1>1. up[c] \in Seq(Uplink) /\ x \in Seq(Uplink)
  BY TypesAre, QueriesRegisterNobody DEF LinkTypes
<1>2. /\ \A i \in 1..Len(up[c]) : i \in 1..Len(up'[c]) /\ up'[c][i] = up[c][i]
      /\ \A i \in 1..Len(x) : Len(up[c]) + i \in 1..Len(up'[c]) /\ up'[c][Len(up[c]) + i] = x[i]
      /\ \A i \in 1..Len(up'[c]) : \/ i \in 1..Len(up[c]) /\ up'[c][i] = up[c][i]
                                   \/ i - Len(up[c]) \in 1..Len(x) /\ up'[c][i] = x[i - Len(up[c])]
  BY <1>1, ConcatIs
<1>3. \A i \in 1..Len(x) : x[i].type \notin Beat
  <2>1. \A i \in 1..Len(x) : x[i] \in Queries
    OBVIOUS
  <2> QED BY <2>1, TypesOf DEF Beat
<1>4. Pinged(c)' <=> Pinged(c)
  <2>1. Pinged(c) => Pinged(c)'
    BY <1>2 DEF Pinged
  <2>2. Pinged(c)' => Pinged(c)
    BY <1>2, <1>3 DEF Pinged
  <2> QED BY <2>1, <2>2
<1>5. x # <<>> => Asking(c)'
  <2> SUFFICES ASSUME x # <<>> PROVE Asking(c)'
    OBVIOUS
  <2>1. 1 \in 1..Len(x)
    BY TailOf
  <2>2. Len(up[c]) + 1 \in 1..Len(up'[c]) /\ up'[c][Len(up[c]) + 1].type \notin Beat
    BY <1>2, <1>3, <2>1
  <2> QED BY <2>2 DEF Asking
<1>6. down'[c] = down[c] => (Asking(c) => Asking(c)')
  BY <1>2 DEF Asking
<1>7. ASSUME down'[c] = down[c], x = <<>> PROVE Asking(c)' => Asking(c)
  <2>1. \A i \in 1..Len(x) : FALSE
    BY <1>7
  <2> QED BY <1>2, <1>7, <2>1 DEF Asking
<1> QED BY <1>4, <1>5, <1>6, <1>7

LEMMA JobsSendInductive ==
  ASSUME TypeInv, JobsSend, [Next]_vars
  PROVE  JobsSend'
<1>1. /\ st \in [Clients -> {"down", "connecting", "wait"}] /\ left \in [Clients -> 0..Tick]
      /\ span \in [Clients -> 0..Tick] /\ queue \in [Clients -> Seq(NodeRequests)]
      /\ jobs \in [Clients -> Seq({"nodes", "trackers"})]
  BY TypesAre DEF ClientTypes
<1> DEFINE Sends(d) == st[d] = "wait" /\ left[d] # span[d] =>
                         \A i \in 1..Len(jobs[d]) : jobs[d][i] = "nodes" => queue[d] # <<>>
<1> SUFFICES ASSUME NEW d \in Clients PROVE Sends(d)'
  BY DEF JobsSend
<1>2. Sends(d)
  BY DEF JobsSend
<1>3. CASE TimePasses
  <2>1. jobs'[d] = <<>>
    BY <1>3 DEF TimePasses, Due, client
  <2> QED BY <2>1
<1>4. ASSUME NEW c \in Clients, Error(c), queue' = queue PROVE Sends(d)'
  <2>1. CASE d = c
    BY <1>1, <1>4, <2>1 DEF Error
  <2>2. CASE d # c
    BY <1>1, <1>2, <1>4, <2>2 DEF Error
  <2> QED BY <2>1, <2>2
<1>5. ASSUME NEW c \in Clients, Established(c) \/ Receive(c) \/ Timeout(c) \/ RunJob(c) PROVE Sends(d)'
  <2>1. \E n : left' = [left EXCEPT ![c] = n] /\ span' = [span EXCEPT ![c] = n]
    BY <1>5 DEF Established, Receive, Timeout, RunJob, LoopTop
  <2>2. CASE d = c
    BY <1>1, <2>1, <2>2
  <2>3. CASE d # c
    <3>1. left'[d] = left[d] /\ span'[d] = span[d]
      BY <1>1, <2>1, <2>3
    <3>2. jobs'[d] = jobs[d] /\ st'[d] = st[d] /\ queue'[d] = queue[d]
      BY <1>1, <1>5, <2>3 DEF Established, Receive, Timeout, RunJob, LoopTop
    <3> QED BY <1>2, <3>1, <3>2
  <2> QED BY <2>2, <2>3
<1>6. ASSUME NEW c \in Clients, NEW r \in NodeRequests, RequestUpdateNodes(c, r) PROVE Sends(d)'
  <2>1. UNCHANGED <<left, span>> /\ queue' = [queue EXCEPT ![c] = Append(@, r)] /\ PostJob(c, "nodes")
        /\ ConnectIfDown(c)
    BY <1>6 DEF RequestUpdateNodes, timing
  <2>2. CASE d = c
    <3>1. queue[c] \in Seq(NodeRequests) /\ queue'[c] = Append(queue[c], r)
      BY <1>1, <2>1
    <3>2. queue'[d] # <<>>
      BY <2>2, <3>1
    <3> QED BY <3>2
  <2>3. CASE d # c
    BY <1>1, <1>2, <2>1, <2>3 DEF PostJob, ConnectIfDown
  <2> QED BY <2>2, <2>3
<1>7. ASSUME NEW c \in Clients, RequestUpdateTrackers(c) PROVE Sends(d)'
  <2>1. UNCHANGED <<left, span, queue>> /\ PostJob(c, "trackers") /\ ConnectIfDown(c)
    BY <1>7 DEF RequestUpdateTrackers, timing
  <2>2. st'[d] = "wait" => st[d] = "wait"
    BY <1>1, <2>1 DEF ConnectIfDown
  <2>3. \A i \in 1..Len(jobs'[d]) : \/ i \in 1..Len(jobs[d]) /\ jobs'[d][i] = jobs[d][i]
                                    \/ jobs'[d][i] = "trackers"
    <3>1. jobs'[d] = jobs[d] \/ jobs'[d] = Append(jobs[d], "trackers")
      BY <1>1, <2>1 DEF PostJob
    <3>2. jobs[d] \in Seq({"nodes", "trackers"})
      BY <1>1
    <3> QED BY <3>1, <3>2
  <2> QED BY <1>2, <2>1, <2>2, <2>3
<1>8. ASSUME NEW c \in Clients, ConnectServer(c) PROVE Sends(d)'
  <2>1. UNCHANGED <<left, span, queue, jobs>> /\ (st'[d] = "wait" => st[d] = "wait")
    BY <1>1, <1>8 DEF ConnectServer
  <2> QED BY <1>2, <2>1
<1>9. ASSUME UNCHANGED <<st, left, span, queue, jobs>> PROVE Sends(d)'
  BY <1>2, <1>9
<1>10. ASSUME NEW c \in Clients, Serve(c) PROVE UNCHANGED <<st, left, span, queue, jobs>>
  BY <1>10 DEF Serve, InitConnection, Heart, InfoReq, TrackersReq, AnswerNodes, ClientSide, client, timing
<1>11. Restart \/ UNCHANGED vars => UNCHANGED <<st, left, span, queue, jobs>>
  BY DEF Restart, vars, ClientSide, client, timing
<1> QED BY <1>3, <1>4, <1>5, <1>6, <1>7, <1>8, <1>9, <1>10, <1>11
        DEF Next, Proceed, Break, EndOfStream

QuietInv == RegistryInv /\ TypeInv /\ OwnAddress /\ Registering /\ JobsSend /\ Beats

(* A client whose connection and record nothing changes.                   *)
LEMMA StillBeats ==
  ASSUME QuietInv, TypeInv', NEW c \in Clients,
         UNCHANGED <<profile, serving[c], heard[c], up[c], down[c], left[c], addr[c]>>,
         Held(c) /\ ~Pinged(c) => infos'[nodes'[addr[c]]].age = infos[nodes[addr[c]]].age
  PROVE  BeatsOf(c)'
<1>1. BeatsOf(c)
  BY BeatsAre DEF QuietInv
<1>2. (Held(c)' => Held(c)) /\ heard'[c] = heard[c]
  BY DEF Held, Allowed
<1>3. (Pinged(c)' <=> Pinged(c)) /\ (Asking(c)' <=> Asking(c)) /\ left'[c] = left[c]
  BY DEF Pinged, Asking
<1>4. left[c] \in Nat
  BY TypesAre, AgesAre DEF QuietInv, ClientTypes
<1>5. ASSUME NEW n \in Nat, Held(c), Within(c, n) PROVE Within(c, n)'
  <2>1. Since(c) \in Nat
    BY <1>5, SinceIs DEF QuietInv
  <2>2. Since(c)' = Since(c)
    BY <1>3, <1>5 DEF Since
  <2> QED BY <1>3, <1>4, <1>5, <2>1, <2>2, WithinKeeps DEF QuietInv
<1> QED BY <1>1, <1>2, <1>5, BeatsKeep

(* A join or a heart of one client is not another's.                       *)
LEMMA OthersBeat ==
  ASSUME QuietInv, TypeInv', OneRecordPerAddress', NEW c \in Clients, Serve(c),
         NEW d \in Clients, d # c
  PROVE  BeatsOf(d)'
<1>1. /\ OneRecordPerAddress /\ TypeInv /\ OwnAddress /\ Registering
  BY DEF QuietInv, RegistryInv
<1>2. UNCHANGED <<profile, serving[d], heard[d], up[d], down[d], left[d], addr[d]>> /\ addr' = addr
  <2>1. UNCHANGED <<profile, heard, left, addr>>
    BY DEF Serve, InitConnection, Heart, InfoReq, TrackersReq, AnswerNodes, ClientSide, client, timing
  <2> QED BY <1>1, <2>1, ServeLinks
<1>3. ASSUME Held(d), ~Pinged(d)
      PROVE  infos'[nodes'[addr[d]]].age = infos[nodes[addr[d]]].age
  <2>1. addr[d] \in Addrs /\ nodes[addr[d]] \in 1..Len(infos) /\ Len(infos) \in Nat
    BY <1>1, <1>3, SinceIs, InfosAre
  <2>2. addr[d] # addr[c]
    BY <1>1, <2>1, AddrsAssumption DEF OwnAddress
  <2>3. infos[nodes[addr[d]]].addr = addr[d]
    BY <1>1, <2>1 DEF OneRecordPerAddress
  <2>4. CASE UNCHANGED <<infos, nodes>>
    BY <2>4
  <2>5. CASE Heart(c)
    BY <1>1, <2>1, <2>2, <2>3, <2>5, HeartSets
  <2>6. CASE InitConnection(c) /\ Join(addr[c], profile[c].sid)
    <3>1. addr[c] \in Addrs /\ profile[c].sid \in Sids
      BY <1>1, <2>6, TakesFirst, SidOf DEF InitConnection, TypeInv
    <3>2. /\ infos'[nodes'[addr[c]]] = [addr |-> addr[c], sid |-> profile[c].sid, age |-> 0]
          /\ nodes'[addr[c]] \in 1..Len(infos') /\ infos' \in Seq(Records)
          /\ \A b \in Addrs : b # addr[c] => nodes'[b] = nodes[b]
          /\ \A i \in 1..Len(infos') : i # nodes'[addr[c]] => infos'[i] = infos[i]
          /\ \A i \in 1..Len(infos) : i \in 1..Len(infos')
      BY <1>1, <2>6, <3>1, JoinSets
    <3>3. nodes'[addr[d]] = nodes[addr[d]] /\ nodes'[addr[d]] \in 1..Len(infos') /\ nodes'[addr[d]] # 0
      BY <2>1, <2>2, <3>2
    <3>4. infos'[nodes'[addr[d]]].addr = addr[d] /\ infos'[nodes'[addr[c]]].addr = addr[c]
      BY <2>1, <3>1, <3>2, <3>3 DEF OneRecordPerAddress
    <3>5. infos'[nodes'[addr[d]]] = infos[nodes[addr[d]]]
      BY <2>2, <3>2, <3>3, <3>4
    <3> QED BY <3>5
  <2> QED BY <2>4, <2>5, <2>6 DEF Serve, InitConnection, InfoReq, TrackersReq, AnswerNodes, server
<1> QED BY <1>1, <1>2, <1>3, StillBeats

(* The server reads a registration or a heart: the record is as old as the *)
(* ping, and what the client waits for stays.                              *)
LEMMA PingRead ==
  ASSUME QuietInv, TypeInv', NEW c \in Clients, InitConnection(c) \/ Heart(c)
  PROVE  BeatsOf(c)'
<1>1. /\ OneRecordPerAddress /\ TypeInv /\ OwnAddress /\ Registering /\ BeatsOf(c)
  BY BeatsAre DEF QuietInv, RegistryInv
<1>2. UNCHANGED <<profile, heard, left, addr, down>> /\ Serve(c)
  BY DEF Serve, InitConnection, Heart, ClientSide, client, timing
<1> SUFFICES ASSUME Held(c)' PROVE BeatsOf(c)'
  BY DEF BeatsOf
<1>3. Held(c) /\ up'[c] = Tail(up[c]) /\ serving'[c]
  BY <1>1, <1>2, ServeLinks DEF Held, Allowed
<1>4. /\ up[c] # <<>> /\ up[c][1].type \in Beat /\ 1 \in 1..Len(up[c]) /\ Len(Tail(up[c])) = Len(up[c]) - 1
      /\ addr[c] \in Addrs /\ up[c] \in Seq(Uplink)
      /\ \A i \in 1..Len(Tail(up[c])) : i + 1 \in 1..Len(up[c]) /\ Tail(up[c])[i] = up[c][i + 1]
  <2>1. \E t \in Beat : Arrived(c, t)
    BY DEF InitConnection, Heart, Beat
  <2>2. PICK t \in Beat : Arrived(c, t)
    BY <2>1
  <2>3. 1 \in 1..Len(up[c])
    BY <1>1, <2>2, TakesFirst
  <2> QED BY <1>1, <2>2, <2>3, TakesFirst
<1>5. Pinged(c) /\ Since(c) = 0
  BY <1>4 DEF Pinged, Since
<1>6. Asking(c) => Asking(c)'
  <2> SUFFICES ASSUME NEW i \in 1..Len(up[c]), up[c][i].type \notin Beat
               PROVE  \E j \in 1..Len(up'[c]) : up'[c][j].type \notin Beat
    BY <1>2 DEF Asking
  <2>1. i # 1
    BY <1>4
  <2>2. i - 1 \in 1..Len(Tail(up[c])) /\ Len(up[c]) \in Nat
    BY <1>4, <2>1
  <2>3. up'[c][i - 1] = up[c][i] /\ i - 1 \in 1..Len(up'[c])
    BY <1>3, <1>4, <2>2
  <2> QED BY <2>3
<1>7. Since(c)' = 0
  <2>1. infos'[nodes'[addr[c]]].age = 0
    <3>1. CASE InitConnection(c)
      <4>1. Join(addr[c], profile[c].sid) /\ profile[c].sid \in Sids
        <5>1. Allowed(c)
          BY <1>3 DEF Held
        <5> QED BY <1>1, <3>1, <5>1, SidOf DEF InitConnection, TypeInv
      <4>2. infos'[nodes'[addr[c]]] = [addr |-> addr[c], sid |-> profile[c].sid, age |-> 0]
        BY <1>1, <1>4, <4>1, JoinSets
      <4> QED BY <4>2
    <3>2. CASE Heart(c)
      <4>1. up[c][1].type = "heart"
        BY <1>1, <3>2, TakesFirst DEF Heart
      <4>2. Registered(c)
        BY <1>1, <1>3, <4>1 DEF Registering, Held, HeadInit
      <4>3. nodes[addr[c]] \in 1..Len(infos) /\ infos[nodes[addr[c]]].addr = addr[c]
        BY <1>1, <1>4, <4>2, InfosAre DEF Registered, OneRecordPerAddress
      <4> QED BY <1>1, <3>2, <4>3, HeartSets
    <3> QED BY <3>1, <3>2
  <2> QED BY <1>2, <2>1 DEF Since
<1>8. \A n \in Nat : Held(c) /\ Within(c, n) => Within(c, n)'
  <2> SUFFICES ASSUME NEW n \in Nat, Within(c, n) PROVE Within(c, n)'
    OBVIOUS
  <2>1. Since(c)' = Since(c) /\ Since(c) \in Nat
    BY <1>5, <1>7
  <2>2. left'[c] <= left[c]
    BY <1>1, <1>2, TypesAre, AgesAre DEF ClientTypes
  <2> QED BY <1>1, <1>6, <2>1, <2>2, WithinKeeps
<1> QED BY <1>1, <1>2, <1>3, <1>8, BeatsKeep

(* The server answers a request: a package waits for the client.           *)
LEMMA RequestRead ==
  ASSUME QuietInv, TypeInv', NEW c \in Clients, InfoReq(c) \/ TrackersReq(c) \/ AnswerNodes(c)
  PROVE  BeatsOf(c)'
<1>1. TypeInv /\ Registering /\ BeatsOf(c)
  BY BeatsAre DEF QuietInv
<1>2. UNCHANGED <<profile, heard, left, addr, serving, nodes, infos>> /\ Consume(c)
  BY DEF InfoReq, TrackersReq, AnswerNodes, ClientSide, client, timing, server
<1>3. Asking(c)'
  <2>1. \E m : down' = [down EXCEPT ![c] = Append(@, m)] /\ m \in Downlink
    <3>1. CASE InfoReq(c) \/ TrackersReq(c)
      BY <3>1, PlainMessages DEF InfoReq, TrackersReq, Reply, Downlink
    <3>2. CASE AnswerNodes(c)
      <4>1. PICK chosen \in Seq(1..Len(infos)) :
              up[c][1] \in Requests /\ down' = [down EXCEPT ![c] = Append(@, NodeRsp(up[c][1], chosen))]
        BY <1>1, <3>2, AnswerIs
      <4>2. NodeRsp(up[c][1], chosen) \in Downlink
        BY <1>1, <4>1, NodeRspType DEF Downlink
      <4> QED BY <4>1, <4>2
    <3> QED BY <3>1, <3>2
  <2>2. PICK m \in Downlink : down'[c] = Append(down[c], m)
    BY <1>1, <2>1, TypesAre DEF LinkTypes
  <2>3. down'[c] # <<>>
    <3>1. down[c] \in Seq(Downlink)
      BY <1>1, TypesAre DEF LinkTypes
    <3> QED BY <2>2, <3>1
  <2> QED BY <2>3 DEF Asking
<1>4. /\ up'[c] = Tail(up[c]) /\ up[c][1].type \notin Beat /\ Len(Tail(up[c])) = Len(up[c]) - 1
      /\ Len(up[c]) \in Nat
      /\ \A i \in 1..Len(Tail(up[c])) : i + 1 \in 1..Len(up[c]) /\ Tail(up[c])[i] = up[c][i + 1]
  <2>1. PICK t \in {"info_req", "trackers_req", "node_req"} : Arrived(c, t)
    BY DEF InfoReq, TrackersReq, AnswerNodes
  <2> QED BY <1>1, <1>2, <2>1, TakesFirst, TypesAre DEF Consume, LinkTypes, Beat
<1>5. Pinged(c)' <=> Pinged(c)
  <2>1. ASSUME NEW i \in 1..Len(up[c]), up[c][i].type \in Beat PROVE Pinged(c)'
    <3>1. i # 1
      BY <1>4, <2>1
    <3>2. i - 1 \in 1..Len(up'[c]) /\ up'[c][i - 1] = up[c][i]
      <4>1. i - 1 \in 1..Len(Tail(up[c]))
        BY <1>4, <3>1
      <4>2. Tail(up[c])[i - 1] = up[c][(i - 1) + 1] /\ (i - 1) + 1 = i
        BY <1>4, <4>1
      <4> QED BY <1>4, <4>1, <4>2
    <3> QED BY <2>1, <3>2 DEF Pinged
  <2>2. ASSUME NEW i \in 1..Len(up'[c]), up'[c][i].type \in Beat PROVE Pinged(c)
    BY <1>4, <2>2 DEF Pinged
  <2> QED BY <2>1, <2>2 DEF Pinged
<1>6. Since(c)' = Since(c)
  BY <1>2, <1>5 DEF Since
<1>7. \A n \in Nat : Held(c) /\ Within(c, n) => Within(c, n)'
  <2> SUFFICES ASSUME NEW n \in Nat, Held(c), Within(c, n) PROVE Within(c, n)'
    OBVIOUS
  <2>1. Since(c) \in Nat
    BY <1>1, SinceIs
  <2> QED BY <1>1, <1>3, <1>6, <2>1, WithinKeeps
<1>8. Held(c)' => Held(c)
  BY <1>2 DEF Held, Allowed
<1> QED BY <1>1, <1>2, <1>7, <1>8, BeatsKeep

(* A job writes something, or does not put the heartbeat off.              *)
LEMMA JobBeats ==
  ASSUME QuietInv, TypeInv', NEW c \in Clients, RunJob(c)
  PROVE  BeatsOf(c)'
<1>1. TypeInv /\ Registering /\ BeatsOf(c) /\ JobsSend
  BY BeatsAre DEF QuietInv
<1>2. /\ UNCHANGED <<profile, heard, addr, serving, nodes, infos, down>>
      /\ st[c] = "wait" /\ jobs[c] # <<>> /\ left' = [left EXCEPT ![c] = span[c] - left[c]]
  BY DEF RunJob, server, bounds
<1>3. PICK x \in Seq(Queries) : /\ up' = [up EXCEPT ![c] = up[c] \o x]
                                /\ queue[c] # <<>> \/ jobs[c][1] # "nodes" => x # <<>>
  BY <1>1, RunJobWrites
<1>4. /\ up \in [Clients -> Seq(Uplink)] /\ left \in [Clients -> 0..Tick] /\ span[c] \in 0..Tick
      /\ jobs[c] \in Seq({"nodes", "trackers"})
  BY <1>1, TypesAre DEF LinkTypes, ClientTypes
<1>5. up'[c] = up[c] \o x /\ left'[c] = span[c] - left[c] /\ 1 \in 1..Len(jobs[c])
  BY <1>2, <1>3, <1>4, TailOf
<1>6. /\ Pinged(c)' <=> Pinged(c)
      /\ x # <<>> => Asking(c)'
      /\ x = <<>> => (Asking(c)' <=> Asking(c))
  BY <1>1, <1>2, <1>5, QueriesAsk
<1>7. x = <<>> => left'[c] = 0
  <2> SUFFICES ASSUME x = <<>> PROVE left'[c] = 0
    OBVIOUS
  <2>1. queue[c] = <<>> /\ jobs[c][1] = "nodes"
    BY <1>3
  <2>2. left[c] = span[c]
    BY <1>1, <1>2, <1>5, <2>1 DEF JobsSend
  <2> QED BY <1>4, <1>5, <2>2, AgesAre
<1>8. Asking(c)' \/ (~Asking(c) /\ left'[c] <= left[c])
  BY <1>4, <1>6, <1>7, AgesAre
<1>9. Since(c)' = Since(c)
  BY <1>2, <1>6 DEF Since
<1>10. \A n \in Nat : Held(c) /\ Within(c, n) => Within(c, n)'
  <2> SUFFICES ASSUME NEW n \in Nat, Held(c), Within(c, n) PROVE Within(c, n)'
    OBVIOUS
  <2>1. Since(c) \in Nat
    BY <1>1, SinceIs
  <2> QED BY <1>1, <1>8, <1>9, <2>1, WithinKeeps
<1>11. Held(c)' => Held(c)
  BY <1>2 DEF Held, Allowed
<1> QED BY <1>1, <1>2, <1>10, <1>11, BeatsKeep

(* A package puts the heartbeat off by a tick.                             *)
LEMMA ReceiveBeats ==
  ASSUME QuietInv, TypeInv', NEW c \in Clients, Receive(c)
  PROVE  BeatsOf(c)'
<1>1. TypeInv /\ TypeOK /\ Registering /\ BeatsOf(c)
  BY BeatsAre DEF QuietInv, TypeInv
<1>2. UNCHANGED <<profile, addr, serving, nodes, infos>>
  BY DEF Receive, server
<1>3. PICK x \in Seq(Queries) : up' = [up EXCEPT ![c] = up[c] \o x]
  <2>1. down[c] # <<>> /\ down'[c] = Tail(down[c]) /\ down[c] \in Seq(Downlink)
    BY <1>1, TypesAre DEF Receive, LinkTypes
  <2>2. down'[c] # down[c]
    <3>1. Len(Tail(down[c])) = Len(down[c]) - 1 /\ Len(down[c]) \in Nat
      BY <2>1, TailOf
    <3> DEFINE t == Tail(down[c])
    <3>2. down'[c] = t /\ Len(t) = Len(down[c]) - 1
      BY <2>1, <3>1
    <3> HIDE DEF t
    <3> QED BY <3>1, <3>2
  <2>3. ~Timeout(c)
    BY <2>2 DEF Timeout
  <2> QED BY <1>1, <2>3, PacketWrites
<1>4. /\ up \in [Clients -> Seq(Uplink)] /\ left \in [Clients -> 0..Tick] /\ heard \in [Clients -> 0..2]
  BY <1>1, TypesAre DEF LinkTypes, ClientTypes
<1>5. /\ up'[c] = up[c] \o x
      /\ heard'[c] = IF heard[c] < 2 THEN heard[c] + 1 ELSE 2
      /\ left'[c] = Tick
  BY <1>3, <1>4 DEF Receive, LoopTop
<1>6. Pinged(c)' <=> Pinged(c)
  BY <1>1, <1>5, QueriesAsk
<1>7. Since(c)' = Since(c)
  BY <1>2, <1>6 DEF Since
<1>8. ASSUME Held(c), heard'[c] <= 1 PROVE heard'[c] = 1 /\ Within(c, 2 * Tick)'
  <2>1. heard[c] = 0 /\ heard'[c] = 1
    <3>1. heard[c] \in 0..2
      BY <1>4
    <3> QED BY <1>5, <1>8, <3>1
  <2>2. Since(c) <= Tick /\ Since(c) \in Nat
    BY <1>1, <1>8, <2>1, SinceIs DEF BeatsOf, Within
  <2> QED BY <1>5, <1>7, <2>1, <2>2, AgesAre DEF Within
<1>9. (Held(c)' => Held(c)) /\ heard'[c] \in 0..2
  <2>1. heard[c] \in 0..2
    BY <1>4
  <2> QED BY <1>2, <1>5, <2>1 DEF Held, Allowed
<1> QED BY <1>8, <1>9 DEF BeatsOf

(* A heartbeat, and the registration of a new connection.                  *)
LEMMA PingBeats ==
  ASSUME QuietInv, TypeInv', NEW c \in Clients, Timeout(c) \/ Established(c)
  PROVE  BeatsOf(c)'
<1>1. TypeInv /\ TypeOK
  BY DEF QuietInv, TypeInv
<1>2. /\ up \in [Clients -> Seq(Uplink)] /\ left \in [Clients -> 0..Tick] /\ heard \in [Clients -> 0..2]
      /\ asked \in 0..MaxRequests /\ queue \in [Clients -> Seq(NodeRequests)]
  BY <1>1, TypesAre DEF LinkTypes, ClientTypes
<1>3. profile' = profile /\ heard'[c] = 0 /\ left'[c] = Tick
  BY <1>2 DEF Timeout, Established, LoopTop
<1> SUFFICES ASSUME profile[c].registers PROVE BeatsOf(c)'
  BY <1>3 DEF BeatsOf, Held
<1>4. PICK p \in Seq(Plain), x \in Seq(Queries) :
        /\ p # <<>> /\ p[1].type \in Beat /\ up' = [up EXCEPT ![c] = up[c] \o (p \o x)]
  <2>1. CASE Timeout(c)
    <3> DEFINE p == <<Msg("heart")>>
    <3>1. p \in Seq(Plain) /\ p # <<>> /\ p[1].type \in Beat /\ LoopTop(c, p, queue[c])
      BY <2>1, PlainMessages DEF Timeout, Beat, Msg
    <3> HIDE DEF p
    <3>2. \E x \in Seq(Queries) : up' = [up EXCEPT ![c] = up[c] \o (p \o x)]
      BY <1>1, <1>2, <3>1, LoopTopWrites
    <3> QED BY <3>1, <3>2
  <2>2. CASE Established(c)
    <3> DEFINE a == <<Msg("init")>>
               b == <<Msg("info_req")>>
    <3>1. PICK ask \in HandlerAsks(c) : LoopTop(c, Prologue(c), queue[c] \o ask)
      BY <2>2 DEF Established
    <3>2. queue[c] \o ask \in Seq(NodeRequests)
      BY <1>2, <3>1, AskIs
    <3>3. a \in Seq(Plain) /\ b \in Seq(Plain) /\ Len(a) = 1 /\ a[1].type \in Beat
      BY PlainMessages DEF Beat, Msg
    <3>4. Prologue(c) = a \o b
      BY DEF Prologue
    <3> HIDE DEF a, b
    <3>5. 1 \in 1..Len(a)
      BY <3>3
    <3>6. a \o b \in Seq(Plain) /\ 1 \in 1..Len(a \o b) /\ (a \o b)[1] = a[1]
      BY <3>3, <3>5, ConcatIs
    <3>7. a \o b # <<>>
      BY <3>6
    <3>8. \E x \in Seq(Queries) : up' = [up EXCEPT ![c] = up[c] \o (Prologue(c) \o x)]
      <4>1. Prologue(c) \in Seq(Plain)
        BY <3>4, <3>6
      <4> QED BY <1>1, <3>1, <3>2, <4>1, LoopTopWrites
    <3> QED BY <3>3, <3>4, <3>6, <3>7, <3>8
  <2> QED BY <2>1, <2>2
<1>5. Pinged(c)'
  <2>1. p \in Seq(Uplink) /\ x \in Seq(Uplink) /\ up[c] \in Seq(Uplink)
    <3>1. p \in Seq(Uplink)
      BY <1>4 DEF Uplink
    <3> QED BY <1>2, <1>4, <3>1, QueriesRegisterNobody
  <2> DEFINE y == p \o x
  <2>2. 1 \in 1..Len(p)
    BY <1>4, <2>1, TailOf
  <2>3. y \in Seq(Uplink) /\ 1 \in 1..Len(y) /\ y[1] = p[1]
    BY <2>1, <2>2, ConcatIs
  <2>4. up'[c] = up[c] \o y
    BY <1>2, <1>4
  <2> HIDE DEF y
  <2>5. Len(up[c]) + 1 \in 1..Len(up[c] \o y) /\ (up[c] \o y)[Len(up[c]) + 1] = y[1]
    BY <2>1, <2>3, ConcatIs
  <2> QED BY <1>4, <2>3, <2>4, <2>5 DEF Pinged
<1>6. Since(c)' = 0
  BY <1>5 DEF Since
<1> QED BY <1>3, <1>6, AgesAre DEF BeatsOf, Within

(* Time passes for a client that waits and has nothing to read, and whose  *)
(* pings the server has read.                                              *)
LEMMA TimeBeats ==
  ASSUME QuietInv, TypeInv', TimePasses, NEW c \in Clients
  PROVE  BeatsOf(c)'
<1>1. TypeInv /\ Registering /\ BeatsOf(c)
  BY BeatsAre DEF QuietInv
<1>2. UNCHANGED <<profile, addr, serving, nodes, heard, up, down>>
  BY DEF TimePasses, client
<1> SUFFICES ASSUME Held(c)', Held(c) PROVE BeatsOf(c)'
  BY <1>2 DEF BeatsOf, Held, Allowed
<1>3. /\ st[c] = "wait" /\ left[c] # 0 /\ left[c] \in Nat /\ up[c] = <<>> /\ down[c] = <<>>
      /\ left'[c] = left[c] - 1
  <2>1. st[c] = "wait"
    BY <1>1, ServedIs DEF Held
  <2>2. left \in [Clients -> 0..Tick] /\ left[c] \in Nat
    BY <1>1, TypesAre, AgesAre DEF ClientTypes
  <2>3. ~Due(c) /\ left' = [d \in Clients |-> IF st[d] = "wait" THEN left[d] - 1 ELSE left[d]]
    BY DEF TimePasses
  <2> QED BY <2>1, <2>2, <2>3 DEF Due
<1>4. ~Pinged(c) /\ ~Pinged(c)' /\ ~Asking(c)
  BY <1>2, <1>3 DEF Pinged, Asking
<1> DEFINE i == nodes[addr[c]]
<1>5. i \in 1..Len(infos) /\ Since(c) = infos[i].age /\ infos[i].age \in 0..(ExpireAge + 1)
  BY <1>1, <1>4, SinceIs, InfosAre
<1>6. Since(c)' = CapAge(infos[i].age + 1)
  <2>1. Since(c)' = infos'[i].age
    BY <1>2, <1>4 DEF Since
  <2> QED BY <1>1, <1>5, <2>1, TimePassesSets
<1>7. ASSUME NEW n \in Nat, Within(c, n) PROVE Within(c, n)'
  <2>1. Since(c) + left[c] <= n
    BY <1>4, <1>7 DEF Within
  <2>2. Since(c)' <= Since(c) + 1 /\ Since(c)' \in Nat
    BY <1>5, <1>6, AgesAre
  <2>3. Since(c) \in Nat
    BY <1>5, AgesAre
  <2> QED BY <1>3, <2>1, <2>2, <2>3 DEF Within
<1> QED BY <1>1, <1>2, <1>7, BeatsKeep

LEMMA BeatsInductive ==
  ASSUME QuietInv, TypeInv', RegistryInv', [Next]_vars
  PROVE  Beats'
<1>1. TypeInv /\ RegistryInv /\ OneRecordPerAddress'
  BY DEF QuietInv, RegistryInv
<1>2. /\ st \in [Clients -> {"down", "connecting", "wait"}] /\ up \in [Clients -> Seq(Uplink)]
      /\ down \in [Clients -> Seq(Downlink)] /\ serving \in [Clients -> BOOLEAN]
      /\ addr \in [Clients -> Addrs \cup {NoAddr}] /\ left \in [Clients -> 0..Tick]
      /\ heard \in [Clients -> 0..2]
  BY <1>1, TypesAre DEF LinkTypes, ClientTypes
<1> SUFFICES ASSUME NEW d \in Clients PROVE BeatsOf(d)'
  BY BeatsAre
<1>3. ASSUME UNCHANGED <<profile, serving[d], heard[d], up[d], down[d], left[d], addr[d], nodes, infos>>
      PROVE  BeatsOf(d)'
  BY <1>3, StillBeats
<1>4. CASE TimePasses
  BY <1>4, TimeBeats
<1>5. CASE Restart
  BY <1>5 DEF Restart, BeatsOf, Held
<1>6. ASSUME NEW c \in Clients, Error(c), UNCHANGED <<profile, nodes, infos>> PROVE BeatsOf(d)'
  <2>1. CASE d = c
    BY <1>2, <1>6, <2>1 DEF Error, BeatsOf, Held
  <2>2. CASE d # c
    BY <1>2, <1>3, <1>6, <2>2 DEF Error
  <2> QED BY <2>1, <2>2
<1>7. ASSUME NEW c \in Clients, Established(c) \/ RunJob(c) \/ Receive(c) \/ Timeout(c) PROVE BeatsOf(d)'
  <2>1. CASE d = c
    BY <1>7, <2>1, JobBeats, ReceiveBeats, PingBeats
  <2>2. CASE d # c
    <3>1. UNCHANGED <<profile, nodes, infos>> /\ serving'[d] = serving[d] /\ addr'[d] = addr[d]
      BY <1>2, <1>7, <2>2 DEF Established, RunJob, Receive, Timeout, server
    <3>2. heard'[d] = heard[d] /\ down'[d] = down[d]
      BY <1>2, <1>7, <2>2 DEF Established, RunJob, Receive, Timeout, bounds
    <3>3. up'[d] = up[d] /\ left'[d] = left[d]
      BY <1>2, <1>7, <2>2 DEF Established, RunJob, Receive, Timeout, LoopTop
    <3> QED BY <1>3, <3>1, <3>2, <3>3
  <2> QED BY <2>1, <2>2
<1>8. ASSUME NEW c \in Clients, Serve(c) PROVE BeatsOf(d)'
  <2>1. CASE d = c
    BY <1>8, <2>1, PingRead, RequestRead DEF Serve
  <2>2. CASE d # c
    BY <1>1, <1>8, <2>2, OthersBeat
  <2> QED BY <2>1, <2>2
<1>9. ASSUME NEW c \in Clients,
             \/ ConnectServer(c) \/ RequestUpdateTrackers(c)
             \/ \E r \in NodeRequests : RequestUpdateNodes(c, r)
      PROVE  BeatsOf(d)'
  <2>1. UNCHANGED <<profile, serving, heard, up, down, left, addr, nodes, infos>>
    BY <1>9 DEF ConnectServer, RequestUpdateTrackers, RequestUpdateNodes, server, timing
  <2> QED BY <1>3, <2>1
<1>10. CASE UNCHANGED vars
  <2>1. UNCHANGED <<profile, serving, heard, up, down, left, addr, nodes, infos>>
    BY <1>10 DEF vars, client, server, timing
  <2> QED BY <1>3, <2>1
<1> QED BY <1>4, <1>5, <1>6, <1>7, <1>8, <1>9, <1>10 DEF Next, Proceed, Break, EndOfStream, server

(* A registered client that heard from the tracker at most once since its  *)
(* last ping is in the lists the tracker answers with: its ping is never   *)
(* older than two ticks, as each package puts the next one off by a tick   *)
(* and a job that cuts the wait short sends a request, whose answer comes. *)
THEOREM QuietStaysListed == Spec => []QuietIsListed
<1>1. Init => QuietInv
  <2> SUFFICES ASSUME Init PROVE QuietInv
    OBVIOUS
  <2>1. RegistryInv
    BY DEF Init, RegistryInv, RegistryType, OneRecordPerAddress
  <2>2. TypeInv
    BY StartTypes
  <2>3. OwnAddress /\ Registering /\ JobsSend /\ Beats
    BY DEF Init, OwnAddress, Registering, JobsSend, Beats
  <2> QED BY <2>1, <2>2, <2>3 DEF QuietInv
<1>2. QuietInv /\ [Next]_vars => QuietInv'
  <2> SUFFICES ASSUME QuietInv, [Next]_vars PROVE QuietInv'
    OBVIOUS
  <2>1. RegistryInv' /\ TypeInv' /\ OwnAddress'
    BY RegistryInductive, TypesInductive, OwnAddressInductive DEF QuietInv, RegistryInv
  <2>2. Registering' /\ JobsSend' /\ Beats'
    BY <2>1, RegisteringInductive, JobsSendInductive, BeatsInductive DEF QuietInv
  <2> QED BY <2>1, <2>2 DEF QuietInv
<1>3. QuietInv => QuietIsListed
  <2> SUFFICES ASSUME QuietInv, NEW c \in Clients, serving[c], up[c] = <<>>, profile[c].registers,
                      Allowed(c), heard[c] <= 1
               PROVE  nodes[addr[c]] # 0 /\ Listed(nodes[addr[c]], profile[c].sid)
    BY DEF QuietIsListed
  <2>1. Held(c) /\ BeatsOf(c) /\ TypeInv /\ Registering
    BY BeatsAre DEF QuietInv, Held
  <2>2. ~Pinged(c) /\ ~HeadInit(c)
    BY DEF Pinged, HeadInit
  <2>3. Registered(c)
    BY <2>1, <2>2 DEF Registering, Held
  <2>4. Since(c) = infos[nodes[addr[c]]].age /\ Since(c) \in Nat
    BY <2>1, <2>2, SinceIs
  <2>5. heard[c] = 0 \/ heard[c] = 1
    BY <2>1, TypesAre DEF ClientTypes
  <2>6. Since(c) <= ExpireAge
    BY <2>1, <2>4, <2>5, AgesAre DEF BeatsOf, Within
  <2> QED BY <2>3, <2>4, <2>6 DEF Registered, Listed
<1> QED BY <1>1, <1>2, <1>3, PTL DEF Spec
===============================================================================
