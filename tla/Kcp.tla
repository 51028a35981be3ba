-------------------------------- MODULE Kcp --------------------------------
(* The ARQ protocol under a RUDP channel: two ikcpcb, one at each end, and   *)
(* the datagrams between them, which the network may lose, duplicate and     *)
(* deliver out of order (lib/net/third/ikcp.cc).                             *)
(*                                                                           *)
(* A piece of a message is its number and its place, <<k, i>>. Round-trip    *)
(* times are left out: whether a timer has expired by a call of ikcp_update  *)
(* is open, so every time-out may come early, late or in any order.          *)
EXTENDS Integers, Sequences, FiniteSets, SequencesExt

CONSTANTS
  Ends,           \* the two ends
  Resend,         \* Resend[level]: the fast resend that rudp_impl_t::config sets
  WND_RCV,        \* a message has fewer pieces than this
  SndWnd, AskedRcvWnd, \* what ikcp_wndsize is asked for
  FASTACK_LIMIT, THRESH_MIN,
  Quota,          \* Quota[m][e]: bound on the pieces that e writes in mode m
  MaxMessages,    \* bound on the messages that an end writes
  MaxNet,         \* bound: an end is not updated with more datagrams on their way
  MaxFaults       \* MaxFaults[m]: bound on losses, duplications, overtakings and early time-outs

ASSUME TwoEnds == \E a, b \in Ends : a # b /\ Ends = {a, b}
ASSUME Windows == {WND_RCV, SndWnd, AskedRcvWnd, THRESH_MIN, MaxNet} \subseteq Nat \ {0}
ASSUME Limits == {FASTACK_LIMIT, MaxMessages} \subseteq Nat
ASSUME Resends == Resend \in [0..1 -> Nat \ {0}]

VARIABLES
  kcp,      \* kcp[e]: the control block of e
  net,      \* net[e]: the datagrams on their way to e, each a sequence of segments
  mode,     \* what config set, for both ends
  sent, got, \* as in Stream: the messages written and read
  faults    \* what the network has done so far

vars == <<kcp, net, mode, sent, got, faults>>

Other(e) == CHOOSE o \in Ends : o # e
Least(m, n) == IF m < n THEN m ELSE n
Largest(m, n) == IF m > n THEN m ELSE n

(* ikcp_wndsize: a window is never smaller than the largest message.         *)
RcvWnd == Largest(AskedRcvWnd, WND_RCV)

(* ikcp_nodelay: what it sets that the order of events depends on.           *)
Nodelay(resend, nc) == [fastresend |-> resend, nocwnd |-> nc]

(* rudp_impl_t::config: two fast levels, and the rest are as ikcp_create     *)
(* leaves the block.                                                         *)
Levels == 0..2
Config(level) ==
  IF level \in DOMAIN Resend THEN Nodelay(Resend[level], TRUE) ELSE Nodelay(0, FALSE)

(* The pieces of the k-th message of an end, of which it has n.              *)
Message(k, n) == [i \in 1..n |-> <<k, i>>]

(* probe_wait is kept as whether it is 0, cwnd as 0 in a mode that does not  *)
(* read it.                                                                  *)
Create == [snd_una |-> 0, snd_nxt |-> 0, rcv_nxt |-> 0,
           snd_queue |-> <<>>, snd_buf |-> <<>>, rcv_buf |-> <<>>, rcv_queue |-> <<>>,
           acklist |-> <<>>, probe |-> {}, probe_wait |-> FALSE,
           rmt_wnd |-> WND_RCV, cwnd |-> 0, ssthresh |-> THRESH_MIN]

Init == /\ kcp = [e \in Ends |-> Create]
        /\ net = [e \in Ends |-> <<>>]
        /\ mode \in {Config(level) : level \in Levels}
        /\ sent = [e \in Ends |-> <<>>]
        /\ got = [e \in Ends |-> <<>>]
        /\ faults = 0

-----------------------------------------------------------------------------
(* The calls of the application.                                             *)

(* ikcp_send: cuts the message into pieces; frg is the number still to come. *)
Fits(n) == n < WND_RCV
Written(k) == k.snd_nxt + Len(k.snd_queue)
Send(e) ==
  /\ \E n \in 1..WND_RCV :
       LET m == Message(Len(sent[e]) + 1, n)
       IN  /\ Fits(n)
           /\ Written(kcp[e]) + n <= Quota[mode][e] /\ Len(sent[e]) < MaxMessages
           /\ sent' = [sent EXCEPT ![e] = Append(@, m)]
           /\ kcp' = [kcp EXCEPT ![e].snd_queue = @ \o
                        [i \in 1..n |-> [frg |-> n - i, data |-> m[i]]]]
  /\ UNCHANGED <<net, mode, got, faults>>

(* Mutant: counts the pieces from the wrong end.                             *)
CompleteBut1(k) == k.rcv_queue # <<>> /\ Len(k.rcv_queue) >= Head(k.rcv_queue).frg

(* ikcp_peeksize: whether the whole of the first message is there.           *)
Complete(k) == /\ k.rcv_queue # <<>>
               /\ Len(k.rcv_queue) >= Head(k.rcv_queue).frg + 1

(* ikcp_recv merges pieces up to a last one, or to the end of the queue.     *)
FirstMessage(queue) ==
  SubSeq(queue, 1, CHOOSE n \in 1..Len(queue) : /\ queue[n].frg = 0 \/ n = Len(queue)
                                               /\ \A i \in 1..n - 1 : queue[i].frg # 0)

(* Moves what is next in order from rcv_buf to rcv_queue, while there is room. *)
MoveReady(k) ==
  LET ready == {n \in 0..Least(Len(k.rcv_buf), RcvWnd - Len(k.rcv_queue)) :
                  \A i \in 1..n : k.rcv_buf[i].sn = k.rcv_nxt + i - 1}
      n == CHOOSE m \in ready : \A r \in ready : r <= m
  IN  [k EXCEPT !.rcv_queue = @ \o [i \in 1..n |-> [frg |-> k.rcv_buf[i].frg,
                                                   data |-> k.rcv_buf[i].data]],
                !.rcv_buf = SubSeq(@, n + 1, Len(@)),
                !.rcv_nxt = @ + n]

(* ikcp_recv, with a buffer that is large enough; a window that was full is  *)
(* told to the other end.                                                    *)
Recv(e) ==
  LET k == kcp[e]
      first == FirstMessage(k.rcv_queue)
      moved == MoveReady([k EXCEPT !.rcv_queue = SubSeq(@, Len(first) + 1, Len(@))])
      recover == Len(k.rcv_queue) >= RcvWnd /\ Len(moved.rcv_queue) < RcvWnd
  IN  /\ Complete(k)
      /\ kcp' = [kcp EXCEPT ![e] = IF recover THEN [moved EXCEPT !.probe = @ \cup {"tell"}]
                                              ELSE moved]
      /\ got' = [got EXCEPT ![e] = Append(@, [i \in DOMAIN first |-> first[i].data])]
      /\ UNCHANGED <<net, mode, sent, faults>>

-----------------------------------------------------------------------------
(* ikcp_input, segment by segment.                                           *)

ShrinkBuf(k) ==
  [k EXCEPT !.snd_una = IF k.snd_buf = <<>> THEN k.snd_nxt ELSE Head(k.snd_buf).sn]

(* How far the search for a number goes from the head of a buffer: the       *)
(* segments that are before it.                                              *)
Before(buf, sn) == CHOOSE n \in 0..Len(buf) : /\ \A i \in 1..n : buf[i].sn < sn
                                              /\ n < Len(buf) => buf[n + 1].sn >= sn

(* Mutant: takes una for the last segment received, not the first missing.   *)
ParseUnaInclusive(k, una) ==
  [k EXCEPT !.snd_buf = SubSeq(@, Before(@, una + 1) + 1, Len(@))]

ParseUna(k, una) == [k EXCEPT !.snd_buf = SubSeq(@, Before(@, una) + 1, Len(@))]

Outstanding(k, sn) == k.snd_una <= sn /\ sn < k.snd_nxt

ParseAck(k, sn) ==
  LET i == Before(k.snd_buf, sn) + 1
  IN  IF Outstanding(k, sn) /\ i <= Len(k.snd_buf) /\ k.snd_buf[i].sn = sn
      THEN [k EXCEPT !.snd_buf = RemoveAt(@, i)]
      ELSE k

(* fastack is only compared with fastresend and xmit with the limit, so      *)
(* neither counts further. fastresend 0 stands for 2^32 - 1.                 *)
Skipped(seg) == [seg EXCEPT !.fastack = Least(@ + 1, mode.fastresend)]
ParseFastack(k, sn) ==
  IF Outstanding(k, sn)
  THEN [k EXCEPT !.snd_buf = [i \in DOMAIN @ |-> IF @[i].sn < sn THEN Skipped(@[i]) ELSE @[i]]]
  ELSE k

(* A segment put behind the first n of a buffer.                             *)
PutBehind(buf, n, seg) ==
  SubSeq(buf, 1, n) \o <<[sn |-> seg.sn, frg |-> seg.frg, data |-> seg.data]>>
                   \o SubSeq(buf, n + 1, Len(buf))

(* The last place whose number is no greater: where the search from the tail *)
(* ends.                                                                     *)
UpTo(buf, sn) == CHOOSE n \in 0..Len(buf) : /\ \A i \in n + 1..Len(buf) : buf[i].sn > sn
                                            /\ n > 0 => buf[n].sn <= sn

(* Mutant: keeps a segment that is there already.                            *)
ParseDataRepeats(k, seg) ==
  MoveReady([k EXCEPT !.rcv_buf = PutBehind(@, UpTo(@, seg.sn), seg)])

(* ikcp_parse_data: keeps rcv_buf in order and without repetition.           *)
ParseData(k, seg) ==
  LET n == UpTo(k.rcv_buf, seg.sn)
      repeat == n > 0 /\ k.rcv_buf[n].sn = seg.sn
  IN  MoveReady(IF repeat THEN k ELSE [k EXCEPT !.rcv_buf = PutBehind(@, n, seg)])

ParsePush(k, seg) ==
  LET acked == [k EXCEPT !.acklist = Append(@, seg.sn)]
  IN  IF seg.sn >= k.rcv_nxt + RcvWnd THEN k
      ELSE IF seg.sn >= k.rcv_nxt THEN ParseData(acked, seg)
      ELSE acked

InputSegment(k, seg) ==
  LET known == ShrinkBuf(ParseUna([k EXCEPT !.rmt_wnd = seg.wnd], seg.una))
  IN  CASE seg.cmd = "ack"  -> ShrinkBuf(ParseAck(known, seg.sn))
        [] seg.cmd = "push" -> ParsePush(known, seg)
        [] seg.cmd = "wask" -> [known EXCEPT !.probe = @ \cup {"tell"}]
        [] seg.cmd = "wins" -> known

(* Data acknowledged opens the congestion window: by one in slow start, then *)
(* by one now and then, when incr has grown enough.                          *)
CwndAfter(k, prev_una) ==
  IF mode.nocwnd \/ k.snd_una <= prev_una \/ k.cwnd >= k.rmt_wnd THEN {k.cwnd}
  ELSE IF k.cwnd < k.ssthresh THEN {k.cwnd + 1}
  ELSE {k.cwnd, k.cwnd + 1}

InputAll(k, datagram) ==
  LET acks == {datagram[i].sn : i \in {j \in DOMAIN datagram : datagram[j].cmd = "ack"}}
      read[i \in 0..Len(datagram)] ==
        IF i = 0 THEN k ELSE InputSegment(read[i - 1], datagram[i])
      last == read[Len(datagram)]
  IN  IF acks = {} THEN last
      ELSE ParseFastack(last, CHOOSE sn \in acks : \A a \in acks : a <= sn)

Input(e, i) ==
  /\ i \in DOMAIN net[e]
  /\ LET k == InputAll(kcp[e], net[e][i])
     IN  \E cwnd \in CwndAfter(k, kcp[e].snd_una) : kcp' = [kcp EXCEPT ![e] = [k EXCEPT !.cwnd = cwnd]]
  /\ net' = [net EXCEPT ![e] = RemoveAt(@, i)]
  /\ faults' = IF i = 1 THEN faults ELSE faults + 1
  /\ UNCHANGED <<mode, sent, got>>

-----------------------------------------------------------------------------
(* ikcp_flush, from ikcp_update.                                             *)

WndUnused(k) == Largest(RcvWnd - Len(k.rcv_queue), 0)

(* Mutant: never asks.                                                       *)
ProbeNever(k, expired) == [k EXCEPT !.probe_wait = k.rmt_wnd = 0]

(* While the other end's window is 0 it is asked for it from time to time:   *)
(* expired says that ts_probe has passed.                                    *)
Probe(k, expired) ==
  IF k.rmt_wnd # 0 THEN [k EXCEPT !.probe_wait = FALSE]
  ELSE IF ~k.probe_wait THEN [k EXCEPT !.probe_wait = TRUE]
  ELSE IF expired THEN [k EXCEPT !.probe = @ \cup {"ask"}]
  ELSE k

SendWindow(k) ==
  LET wnd == Least(SndWnd, k.rmt_wnd) IN IF mode.nocwnd THEN wnd ELSE Least(k.cwnd, wnd)

(* snd_queue to snd_buf, as far as the window goes.                          *)
Admit(k) ==
  LET n == Least(Len(k.snd_queue), Largest(k.snd_una + SendWindow(k) - k.snd_nxt, 0))
  IN  [k EXCEPT !.snd_buf = @ \o [i \in 1..n |->
                   [sn |-> k.snd_nxt + i - 1, frg |-> k.snd_queue[i].frg,
                    data |-> k.snd_queue[i].data, xmit |-> 0, fastack |-> 0]],
                !.snd_queue = SubSeq(@, n + 1, Len(@)),
                !.snd_nxt = @ + n]

(* Why a segment is transmitted; due holds the places whose resendts has     *)
(* passed. The three tests are in the order of the code.                     *)
Reason(k, i, due) ==
  LET seg == k.snd_buf[i]
  IN  IF seg.xmit = 0 THEN "first"
      ELSE IF i \in due THEN "lost"
      ELSE IF /\ mode.fastresend > 0 /\ seg.fastack >= mode.fastresend
              /\ seg.xmit <= FASTACK_LIMIT THEN "fast"
      ELSE "none"

Transmit(seg, reason) ==
  IF reason = "none" THEN seg
  ELSE [seg EXCEPT !.xmit = Least(@ + 1, FASTACK_LIMIT + 1),
                   !.fastack = IF reason = "fast" THEN 0 ELSE @]

(* A piece that others follow is as large as a datagram may be; the rest go  *)
(* together.                                                                 *)
Pack(segments) ==
  LET full(i) == segments[i].cmd = "push" /\ segments[i].frg > 0
      packed[i \in 0..Len(segments)] ==
        IF i = 0 THEN <<>>
        ELSE IF i = 1 \/ full(i) \/ full(i - 1) THEN Append(packed[i - 1], <<segments[i]>>)
        ELSE [packed[i - 1] EXCEPT ![Len(packed[i - 1])] = Append(@, segments[i])]
  IN  packed[Len(segments)]

InFlight(e) == {i \in DOMAIN kcp[e].snd_buf : kcp[e].snd_buf[i].xmit > 0}

(* The segments whose data or acknowledgement is still on its way.           *)
Carries(d, cmd, sn) == \E i \in DOMAIN net[d] : \E j \in DOMAIN net[d][i] :
                         net[d][i][j].cmd = cmd /\ net[d][i][j].sn = sn
InTransit(e) == {i \in InFlight(e) : LET sn == kcp[e].snd_buf[i].sn
                                     IN  \/ Carries(Other(e), "push", sn)
                                         \/ Contains(kcp[Other(e)].acklist, sn)
                                         \/ Carries(e, "ack", sn)}

(* ikcp_encode_seg: every segment tells what the sender expects and has room *)
(* for.                                                                      *)
Segment(k, cmd, sn) == [cmd |-> cmd, sn |-> sn, frg |-> 0, data |-> <<>>,
                        una |-> k.rcv_nxt, wnd |-> WndUnused(k)]

(* The data segments that there is a reason to transmit.                     *)
PushSegment(k, seg) == [Segment(k, "push", seg.sn) EXCEPT !.frg = seg.frg, !.data = seg.data]
Pushes(k, reasons) ==
  LET pushed[i \in 0..Len(k.snd_buf)] ==
        IF i = 0 THEN <<>>
        ELSE IF reasons[i] = "none" THEN pushed[i - 1]
        ELSE Append(pushed[i - 1], PushSegment(k, k.snd_buf[i]))
  IN  pushed[Len(k.snd_buf)]

(* What a flush sends: acknowledgements, window probes, data.                *)
Output(k, reasons) ==
  LET acks == [i \in DOMAIN k.acklist |-> Segment(k, "ack", k.acklist[i])]
      probes == (IF "ask" \in k.probe THEN <<Segment(k, "wask", 0)>> ELSE <<>>)
             \o (IF "tell" \in k.probe THEN <<Segment(k, "wins", 0)>> ELSE <<>>)
  IN  Pack(acks \o probes \o Pushes(k, reasons))

(* The block after a flush: sending again closes the congestion window.      *)
Flushed(k, reasons, lost) ==
  [k EXCEPT !.acklist = <<>>, !.probe = {},
            !.snd_buf = [i \in DOMAIN @ |-> Transmit(@[i], reasons[i])],
            !.ssthresh = IF lost THEN Largest(SendWindow(k) \div 2, THRESH_MIN) ELSE @,
            !.cwnd = IF mode.nocwnd THEN 0 ELSE IF lost THEN 1 ELSE Largest(@, 1)]

(* udp_output: to the kernel at once, whether it takes the datagram or not.  *)
UdpOutput(to, datagrams) == net' = [net EXCEPT ![to] = @ \o datagrams]

Flush(e, due, expired) ==
  /\ Len(net[Other(e)]) < MaxNet
  /\ LET early == due \cap InTransit(e) # {}
     IN  /\ early => faults < MaxFaults[mode]
         /\ faults' = IF early THEN faults + 1 ELSE faults
  /\ \E probed \in {Probe(kcp[e], expired)} : \E k \in {Admit(probed)} :
       \E reasons \in {[i \in DOMAIN k.snd_buf |-> Reason(k, i, due)]} :
         /\ UdpOutput(Other(e), Output(k, reasons))
         /\ kcp' = [kcp EXCEPT ![e] = Flushed(k, reasons, "lost" \in Range(reasons))]
  /\ UNCHANGED <<mode, sent, got>>

-----------------------------------------------------------------------------
(* The network. Input of a datagram that is not the first is an overtaking.  *)

Lose(e, i) == /\ i \in DOMAIN net[e]
              /\ net' = [net EXCEPT ![e] = RemoveAt(@, i)]
              /\ faults' = faults + 1
              /\ UNCHANGED <<kcp, mode, sent, got>>

Duplicate(e, i) == /\ i \in DOMAIN net[e]
                   /\ net' = [net EXCEPT ![e] = Append(@, @[i])]
                   /\ faults' = faults + 1
                   /\ UNCHANGED <<kcp, mode, sent, got>>

FlushLost(e) == \E due \in {InFlight(e) \ InTransit(e)} : Flush(e, due, TRUE)

FlushSome(e) == \E due \in SUBSET InFlight(e), expired \in BOOLEAN : Flush(e, due, expired)

Fault(e) == \E i \in DOMAIN net[e] : /\ faults < MaxFaults[mode]
                                    /\ \/ Lose(e, i)
                                       \/ Duplicate(e, i)
                                       \/ i > 1 /\ Input(e, i)

Next == \E e \in Ends : \/ Send(e) \/ Recv(e)
                       \/ Input(e, 1)
                       \/ FlushSome(e)
                       \/ Fault(e)

Spec == Init /\ [][Next]_vars

(* The first datagram leaves the network, read or lost, the timers expire in *)
(* the end, and the application reads.                                       *)
Arrives(e) == net[e] # <<>> /\ net' = [net EXCEPT ![e] = Tail(@)]
Read(e) == /\ Complete(kcp[e])
           /\ LET first == FirstMessage(kcp[e].rcv_queue)
              IN  got' = [got EXCEPT ![e] = Append(@, [i \in DOMAIN first |-> first[i].data])]

FairSpec == /\ Spec
            /\ \A e \in Ends : /\ WF_net(Arrives(e))
                              /\ WF_got(Read(e))
                              /\ WF_vars(FlushLost(e))

-----------------------------------------------------------------------------
(* Properties.                                                               *)

(* TypeOK: the buffers hold what their names say, in order of sequence       *)
(* number, and stay within the windows (ikcp_parse_data, ikcp_recv,          *)
(* ikcp_flush).                                                              *)
TypeOK ==
  \A e \in Ends :
    LET k == kcp[e]
        Ordered(buf) == \A i, j \in DOMAIN buf : i < j => buf[i].sn < buf[j].sn
    IN  /\ Ordered(k.snd_buf) /\ \A i \in DOMAIN k.snd_buf : Outstanding(k, k.snd_buf[i].sn)
        /\ Ordered(k.rcv_buf) /\ \A i \in DOMAIN k.rcv_buf :
                                   k.rcv_buf[i].sn \in k.rcv_nxt .. k.rcv_nxt + RcvWnd - 1
        /\ k.snd_una <= k.snd_nxt /\ k.snd_nxt - k.snd_una <= SndWnd
        /\ Len(k.rcv_queue) <= RcvWnd /\ k.rmt_wnd \in 0..RcvWnd
        /\ k.probe \subseteq {"ask", "tell"} /\ k.cwnd \in 0..RcvWnd

(* ImplementsStream: whatever the network does, each end reads whole the     *)
(* messages the other wrote, once each and in order (what lib/net/rudp.cc    *)
(* and lib/net/p2p/peer.cc take from KCP).                                   *)
Messages == {Message(k, n) : k \in 1..MaxMessages, n \in 1..WND_RCV}
Streams == INSTANCE Stream
ImplementsStream == Streams!Spec

(* UnreceivedIsKept: what the other end has not received in order is still   *)
(* in snd_buf, or in the other's rcv_buf: a stale, repeated or reordered una *)
(* or ack never makes the sender forget a segment (ikcp_parse_una,           *)
(* ikcp_parse_ack, ikcp_shrink_buf).                                         *)
UnreceivedIsKept ==
  \A e \in Ends : \A sn \in kcp[Other(e)].rcv_nxt .. kcp[e].snd_nxt - 1 :
    \/ \E i \in DOMAIN kcp[e].snd_buf : kcp[e].snd_buf[i].sn = sn
    \/ \E i \in DOMAIN kcp[Other(e)].rcv_buf : kcp[Other(e)].rcv_buf[i].sn = sn

(* EverythingIsRead: what was written is read in the end, though datagrams   *)
(* are lost, windows close and the news that one has opened is lost too      *)
(* (resends, acknowledgements and window probes of ikcp_flush).              *)
EverythingIsRead == []<>(\A e \in Ends : Len(got[e]) = Len(sent[Other(e)]))
=============================================================================
