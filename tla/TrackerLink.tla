----------------------------- MODULE TrackerLink -----------------------------
(* The link between two trackers: the one that links (client_main) sends     *)
(* pings and waits for pongs with a time-out, the other (server_main)        *)
(* answers. Each keeps the other in its map of trackers.                     *)
(*                                                                           *)
(* Time is counted in units of which tick_timespan has Tick, and passes when *)
(* nothing is due: the delays of network and loops are short of a unit.      *)
EXTENDS TcpPackage

CONSTANTS
  Addrs, NoAddr,  \* the addresses the linking tracker's connections come from
  StaleSizes,     \* what the head that is declared and not read may hold
  Tick,           \* tick_timespan
  MaxLinks,       \* bound: links made
  MaxSplits,      \* bound: heads that come in two parts
  MaxFaults       \* bound: connections refused, the other's restarts and stalls

ASSUME AddrAssumption == NoAddr \notin Addrs
ASSUME StaleAssumption == StaleSizes \subseteq Nat
ASSUME BoundAssumption == Tick \in Nat \ {0} /\ {MaxLinks, MaxSplits, MaxFaults} \subseteq Nat

ExpireAge == 2 * Tick   \* tick_timespan * tick_times

VARIABLES
  (* The tracker that links. *)
  link,       \* its coroutine: "none", "connecting", or what it reads: "head", "body"
  addr,       \* where its connection comes from
  entry,      \* its entry for the other: "none", "open", "closed"
  age,        \* what passed since the entry's last_ping, up to ExpireAge + 1
  span, left, \* of the wait for a head: the time it was begun with and what is left
  reader,     \* the content it reads
  (* The other. *)
  serving,    \* server_main of a connection: "none", "pending", "head", "body"
  serverReader,
  peers,      \* its entry for an address
  stalled,    \* it does not run any more
  (* The connections, and history. *)
  up, down,   \* bytes on their way to the other and back
  links, splits, faults,  \* how much of the bounds is used
  lost        \* a head was split or not read at all on this link

linker == <<link, addr, entry, age, span, left, reader>>
other  == <<serving, serverReader, peers, stalled>>
bounds == <<links, splits, faults>>
vars   == <<linker, other, up, down, bounds, lost>>

Init == /\ link = "none" /\ addr = NoAddr /\ entry = "none" /\ age = ExpireAge + 1
        /\ span = 0 /\ left = 0 /\ reader = Expect(0)
        /\ serving = [a \in Addrs |-> "none"] /\ serverReader = [a \in Addrs |-> Expect(0)]
        /\ peers = [a \in Addrs |-> "none"] /\ stalled = FALSE
        /\ up = [a \in Addrs |-> <<>>] /\ down = [a \in Addrs |-> <<>>]
        /\ links = 0 /\ splits = 0 /\ faults = 0 /\ lost = FALSE

-----------------------------------------------------------------------------
(* The linking tracker.                                                      *)

Serves == serving[addr] # "none"

(* link_other_tracker_server: nothing while the other has an entry. A port   *)
(* is free again when both ends have closed.                                 *)
Link == /\ entry = "none" /\ links < MaxLinks
        /\ \E a \in Addrs : serving[a] = "none" /\ addr' = a
        /\ link' = "connecting" /\ entry' = "open" /\ age' = ExpireAge + 1
        /\ links' = links + 1 /\ lost' = FALSE
        /\ up' = [up EXCEPT ![addr'] = <<>>] /\ down' = [down EXCEPT ![addr'] = <<>>]
        /\ UNCHANGED <<span, left, reader, other, splits, faults>>

(* client_t::close, after client_main has returned or thrown.                *)
Close == /\ link' = "none" /\ addr' = NoAddr /\ span' = 0 /\ left' = 0
         /\ reader' = Expect(0)
         /\ UNCHANGED age

(* client_main has returned: the entry stays as it is.                       *)
Return == Close /\ UNCHANGED entry
(* on_server_error.                                                          *)
ServerError == Close /\ entry' = "closed"

(* The wait for the next head: await_timeout begins to sleep.                *)
AwaitHead == /\ link' = "head" /\ span' = Tick /\ left' = Tick /\ reader' = Expect(0)
             /\ UNCHANGED addr

(* do_ping_pong. A write to a connection that the other has closed succeeds  *)
(* once or twice, then it sets is_connection_closed or throws at once, and   *)
(* what is read next throws.                                                 *)
Ping == up' = IF Serves THEN [up EXCEPT ![addr] = WritePackage(@)] ELSE up
PingThrows == ~Serves /\ ServerError /\ UNCHANGED up

Connected == /\ link = "connecting"
             /\ serving' = [serving EXCEPT ![addr] = "pending"]
             /\ up' = [up EXCEPT ![addr] = WritePackage(@)]
             /\ AwaitHead
             /\ UNCHANGED <<entry, age, serverReader, peers, stalled, down, bounds, lost>>

(* The wait for the connection times out or the connection is refused.       *)
ConnectFails == /\ link = "connecting" /\ faults < MaxFaults
                /\ ServerError
                /\ faults' = faults + 1
                /\ UNCHANGED <<other, up, down, links, splits, lost>>

(* What was read is a pong, or something else, which is only reported.       *)
Handle(kind) == /\ age' = IF kind = "pong" THEN 0 ELSE age
                /\ AwaitHead

(* The content of a head of this size: one of no bytes is read at once.      *)
Content(size) ==
  IF size = 0 THEN Handle(ParseNothing)
  ELSE /\ link' = "body" /\ reader' = Expect(size) /\ span' = 0 /\ left' = 0
       /\ UNCHANGED <<addr, age>>

(* Woken by bytes: a head, or the part of one, and await_timeout sleeps      *)
(* again for the time it has slept.                                          *)
ReadLinkHead ==
  /\ link = "head"
  /\ \E r \in ReadHead(down[addr]) :
       /\ down' = [down EXCEPT ![addr] = r.rest]
       /\ IF r.whole
          THEN /\ \E size \in r.sizes : Content(size)
               /\ UNCHANGED <<splits, lost>>
          ELSE /\ splits < MaxSplits /\ splits' = splits + 1 /\ lost' = TRUE
               /\ span' = span - left /\ left' = span - left
               /\ UNCHANGED <<link, addr, age, reader>>
  /\ UNCHANGED <<entry, other, up, links, faults>>

ReadLinkContent ==
  /\ link = "body"
  /\ \E r \in ReadContent(reader, down[addr]) :
       /\ down' = [down EXCEPT ![addr] = r.rest]
       /\ IF r.reader.expected = 0
          THEN \E kind \in Parse(r.reader, "pong") : Handle(kind)
          ELSE reader' = r.reader /\ UNCHANGED <<link, addr, age, span, left>>
  /\ UNCHANGED <<entry, other, up, bounds, lost>>

(* Mutant: the time-out only checks the age.                                 *)
TimeoutSilent ==
  /\ link = "head" /\ left = 0
  /\ IF age > ExpireAge
     THEN Return /\ UNCHANGED lost
     ELSE \E size \in StaleSizes : Content(size) /\ lost' = (lost \/ size # 0)
  /\ UNCHANGED <<entry, up, other, down, bounds>>

(* Mutant: reports the time-out and does not return.                         *)
TimeoutStays ==
  /\ link = "head" /\ left = 0
  /\ IF age > ExpireAge THEN UNCHANGED up ELSE Ping
  /\ \E size \in StaleSizes : Content(size) /\ lost' = (lost \/ size # 0)
  /\ UNCHANGED <<entry, other, down, bounds>>

(* The time-out: client_main gives up when nothing was recorded for long,    *)
(* else it pings and goes on with a head that it has not read.               *)
Timeout ==
  /\ link = "head" /\ left = 0
  /\ IF age > ExpireAge
     THEN Return /\ UNCHANGED <<up, lost>>
     ELSE \/ /\ Ping
             /\ \E size \in StaleSizes : Content(size) /\ lost' = (lost \/ size # 0)
             /\ UNCHANGED entry
          \/ PingThrows /\ UNCHANGED lost
  /\ UNCHANGED <<other, down, bounds>>

(* Mutant: the end of the stream is taken for no data yet while a head is    *)
(* waited for.                                                               *)
LinkEofIgnored ==
  /\ link = "body" /\ ~Serves
  /\ \/ down[addr] = <<>> /\ Return
     \/ ServerError
  /\ UNCHANGED <<other, up, down, bounds, lost>>

(* The other has closed: the end of the stream returns, a reset throws.      *)
LinkEof ==
  /\ link \in {"head", "body"} /\ ~Serves
  /\ \/ down[addr] = <<>> /\ Return
     \/ ServerError
  /\ UNCHANGED <<other, up, down, bounds, lost>>

-----------------------------------------------------------------------------
(* The other tracker.                                                        *)

Linked(a) == addr = a /\ link \in {"head", "body"}

Serving(a, phase, r) == /\ serving' = [serving EXCEPT ![a] = phase]
                        /\ serverReader' = [serverReader EXCEPT ![a] = r]

(* accept_from, and wait_client, which runs a coroutine for the connection.  *)
AcceptFrom(a) == ~stalled /\ serving[a] = "pending"
Accept(a) == /\ AcceptFrom(a)
             /\ Serving(a, "head", Expect(0))
             /\ UNCHANGED <<linker, peers, stalled, up, down, bounds, lost>>

(* Mutant: the entry is left as it is.                                       *)
ExitClientKeeps(a) == Serving(a, "none", Expect(0)) /\ UNCHANGED peers

(* server_main has returned or thrown: on_client_exit, or on_client_error    *)
(* before it, marks the entry.                                               *)
ExitClient(a) == /\ Serving(a, "none", Expect(0))
                 /\ peers' = [peers EXCEPT ![a] = IF @ = "none" THEN @ ELSE "closed"]

(* update_tracker, then a pong. An entry that is closed stays so. What else  *)
(* is read ends the coroutine.                                               *)
Serve(a, kind) ==
  \/ /\ kind = "ping"
     /\ Serving(a, "head", Expect(0))
     /\ peers' = [peers EXCEPT ![a] = IF @ = "none" THEN "open" ELSE @]
     /\ down' = IF Linked(a) THEN [down EXCEPT ![a] = WritePackage(@)] ELSE down
  \/ /\ kind = "other" \/ ~Linked(a)
     /\ ExitClient(a) /\ UNCHANGED down

ReadServerHead(a) ==
  /\ ~stalled /\ serving[a] = "head"
  /\ \E r \in ReadHead(up[a]) :
       /\ up' = [up EXCEPT ![a] = r.rest]
       /\ IF r.whole
          THEN /\ \E size \in r.sizes :
                    IF size = 0 THEN Serve(a, ParseNothing)
                    ELSE Serving(a, "body", Expect(size)) /\ UNCHANGED <<peers, down>>
               /\ UNCHANGED <<splits, lost>>
          ELSE /\ splits < MaxSplits /\ splits' = splits + 1 /\ lost' = (lost \/ addr = a)
               /\ UNCHANGED <<serving, serverReader, peers, down>>
  /\ UNCHANGED <<linker, stalled, links, faults>>

ReadServerContent(a) ==
  /\ ~stalled /\ serving[a] = "body"
  /\ \E r \in ReadContent(serverReader[a], up[a]) :
       /\ up' = [up EXCEPT ![a] = r.rest]
       /\ IF r.reader.expected = 0
          THEN \E kind \in Parse(r.reader, "ping") : Serve(a, kind)
          ELSE Serving(a, "body", r.reader) /\ UNCHANGED <<peers, down>>
  /\ UNCHANGED <<linker, stalled, bounds, lost>>

ServerEof(a) == /\ ~stalled /\ serving[a] \in {"head", "body"} /\ ~Linked(a)
                /\ ExitClient(a)
                /\ UNCHANGED <<linker, stalled, up, down, bounds, lost>>

(* It stops for good with its connections open, or starts anew.              *)
Stall == /\ ~stalled /\ faults < MaxFaults
         /\ stalled' = TRUE /\ faults' = faults + 1
         /\ UNCHANGED <<linker, serving, serverReader, peers, up, down, links, splits, lost>>

Restart == /\ faults < MaxFaults /\ faults' = faults + 1
           /\ serving' = [a \in Addrs |-> "none"]
           /\ serverReader' = [a \in Addrs |-> Expect(0)]
           /\ peers' = [a \in Addrs |-> "none"] /\ stalled' = FALSE
           /\ UNCHANGED <<linker, up, down, links, splits, lost>>

-----------------------------------------------------------------------------
(* Mutant: erases entries of links in use too.                               *)
TrackersReqAny == /\ entry # "none" /\ entry' = "none"
                  /\ UNCHANGED <<link, addr, age, span, left, reader, other, up, down,
                                 bounds, lost>>

(* trackers_req of some node, at either tracker: closed entries are erased.  *)
TrackersReq == /\ \/ entry = "closed" /\ entry' = "none" /\ UNCHANGED peers
                  \/ /\ ~stalled /\ \E a \in Addrs : peers[a] = "closed"
                     /\ peers' = [a \in Addrs |-> IF peers[a] = "closed" THEN "none"
                                                 ELSE peers[a]]
                     /\ UNCHANGED entry
               /\ UNCHANGED <<link, addr, age, span, left, reader, serving, serverReader,
                              stalled, up, down, bounds, lost>>

(* What is there to be done within the unit.                                 *)
Readable(phase, stream, eof) == phase \in {"head", "body"} /\ (stream # <<>> \/ eof)
Busy == \/ link = "connecting"
        \/ link = "head" /\ left = 0
        \/ addr # NoAddr /\ Readable(link, down[addr], ~Serves)
        \/ ~stalled /\ \E a \in Addrs : \/ serving[a] = "pending"
                                       \/ Readable(serving[a], up[a], ~Linked(a))

Elapse == /\ ~Busy
          /\ age' = IF age > ExpireAge THEN age ELSE age + 1
          /\ left' = IF left = 0 THEN 0 ELSE left - 1
          /\ <<age, left>>' # <<age, left>>
          /\ UNCHANGED <<link, addr, entry, span, reader, other, up, down, bounds, lost>>

Server(a) == \/ Accept(a) \/ ReadServerHead(a) \/ ReadServerContent(a) \/ ServerEof(a)
Linker == \/ Connected \/ ReadLinkHead \/ ReadLinkContent \/ Timeout \/ LinkEof

Next == \/ Link \/ Linker \/ ConnectFails
        \/ \E a \in Addrs : Server(a)
        \/ Stall \/ Restart \/ TrackersReq \/ Elapse

Spec == Init /\ [][Next]_vars

(* The loops run what is ready, and time passes.                             *)
FairSpec == /\ Spec /\ WF_vars(Linker) /\ WF_vars(Elapse)
            /\ \A a \in Addrs : WF_vars(Server(a))

-----------------------------------------------------------------------------
(* Properties.                                                               *)

(* TypeOK: the types, and that a connection exists exactly while its         *)
(* coroutine does (tcp::client_t, client_main).                              *)
TypeOK ==
  /\ link \in {"none", "connecting", "head", "body"} /\ addr \in Addrs \cup {NoAddr}
  /\ (link = "none") = (addr = NoAddr) /\ (link # "none" => entry = "open")
  /\ entry \in {"none", "open", "closed"} /\ age \in 0..ExpireAge + 1
  /\ span \in 0..Tick /\ left \in 0..span
  /\ reader \in Reader /\ (link = "body" => reader.expected > 0)
  /\ \A a \in Addrs : /\ serving[a] \in {"none", "pending", "head", "body"}
                      /\ serverReader[a] \in Reader /\ peers[a] \in {"none", "open", "closed"}
                      /\ up[a] \in Seq(1..HeadSize + ContentSize)
                      /\ down[a] \in Seq(1..HeadSize + ContentSize)

(* ListedIsServed: an entry the other tracker hands out is of a connection   *)
(* whose server_main still runs (update_tracker, on_client_exit,             *)
(* trackers_req), also when a port is used again.                            *)
ListedIsServed ==
  \A a \in Addrs : peers[a] = "open" => serving[a] \in {"head", "body"}

(* LinkedIsListed: while both trackers run, the one that links has heard     *)
(* lately enough of the other for get_trackers, whatever the parts contents  *)
(* come in, as long as no head is split and a head not read holds 0          *)
(* (client_main, server_main).                                               *)
LinkedIsListed ==
  (link = "head" /\ left < Tick /\ Serves /\ ~stalled /\ ~lost) => age < ExpireAge

(* LinkEnds: when one end's program or coroutine is gone the coroutine of    *)
(* the other ends (aread, client_main, server_main).                         *)
LinkEnds ==
  \A a \in Addrs :
    /\ (Linked(a) /\ serving[a] = "none") ~> ~Linked(a)
    /\ (serving[a] \in {"head", "body"} /\ ~Linked(a)) ~> (stalled \/ serving[a] = "none" \/ Linked(a))

(* QuietIsClosed: a tracker that does not answer any more is found out, on   *)
(* a link on which no head was lost (the time-out of client_main).           *)
QuietIsClosed == (stalled /\ link = "head") ~> (~stalled \/ link = "none" \/ lost)

(* QuietIsAlwaysClosed: "check if peer pingpong is timeout" then "close      *)
(* connection" (tracker.cc:300 and 305), on any link. In no run: the code    *)
(* does not keep it, a head that is not read puts the link out of step.      *)
QuietIsAlwaysClosed == (stalled /\ link = "head") ~> (~stalled \/ link = "none")
=============================================================================
