------------------------------ MODULE Kcp_proofs ------------------------------
(***************************************************************************)
(* Two KCP ends with any windows, limits, modes and messages, over a       *)
(* network that loses, repeats and reorders: what the inductive invariant  *)
(* says of buffers and datagrams, and that it implements a pair of streams.*)
(***************************************************************************)
EXTENDS Kcp, WellFoundedInduction, TLAPS

(* What a message is made of, and where it is kept and carried.            *)
Datum == Seq(Nat)
Text == Seq(Datum)
Texts == Seq(Text)
Piece == [frg : Nat, data : Datum]
InSeg == [sn : Nat, frg : Nat, data : Datum]
OutSeg == [sn : Nat, frg : Nat, data : Datum, xmit : Nat, fastack : Nat]
Seg == [cmd : {"ack", "push", "wask", "wins"}, sn : Nat, frg : Nat, data : Datum,
        una : Nat, wnd : 0..RcvWnd]
Block == [snd_una : Nat, snd_nxt : Nat, rcv_nxt : Nat,
          snd_queue : Seq(Piece), snd_buf : Seq(OutSeg),
          rcv_buf : Seq(InSeg), rcv_queue : Seq(Piece), acklist : Seq(Nat),
          probe : SUBSET {"ask", "tell"}, probe_wait : BOOLEAN,
          rmt_wnd : 0..RcvWnd, cwnd : 0..RcvWnd, ssthresh : Nat]
Modes == [fastresend : Nat, nocwnd : BOOLEAN]

KcpTypes == /\ kcp \in [Ends -> Block] /\ net \in [Ends -> Seq(Seq(Seg))] /\ mode \in Modes
            /\ sent \in [Ends -> Texts] /\ got \in [Ends -> Texts]

(* The pieces T that an end has written are those of the messages M, of    *)
(* which the m-th begins after piece C[m].                                 *)
Cut(T, C, M) ==
  /\ Len(C) = Len(M) + 1 /\ C[1] = 0 /\ C[Len(C)] = Len(T)
  /\ \A m \in 1..Len(M) :
       /\ Len(M[m]) >= 1 /\ C[m + 1] = C[m] + Len(M[m])
       /\ \A i \in 1..Len(M[m]) : T[C[m] + i] = [frg |-> Len(M[m]) - i, data |-> M[m][i]]

InOrder(buf) == \A i, j \in 1..Len(buf) : i < j => buf[i].sn < buf[j].sn
Holds(buf, sn) == \E i \in 1..Len(buf) : buf[i].sn = sn

(* What is numbered sn is the piece of that place.                         *)
Of(x, T) == x.sn < Len(T) /\ x.frg = T[x.sn + 1].frg /\ x.data = T[x.sn + 1].data

(* The queue and the buffer of a sender that has written T.                *)
SndQueueRight(q, nxt, T) == /\ Len(T) = nxt + Len(q)
                            /\ \A i \in 1..Len(q) : q[i] = T[nxt + i]
SndBufRight(buf, una, nxt, T) ==
  /\ InOrder(buf) /\ una <= nxt /\ nxt - una <= SndWnd
  /\ \A i \in 1..Len(buf) : una <= buf[i].sn /\ buf[i].sn < nxt /\ Of(buf[i], T)

(* The buffer and the queue of a receiver that expects rnxt; limit is what *)
(* the sender uses next, and start the number of pieces read.              *)
RcvBufRight(buf, rnxt, limit, T) ==
  /\ InOrder(buf) /\ rnxt <= limit
  /\ \A i \in 1..Len(buf) : /\ rnxt <= buf[i].sn /\ buf[i].sn < rnxt + RcvWnd
                            /\ buf[i].sn < limit /\ Of(buf[i], T)
RcvQueueRight(q, rnxt, start, T) ==
  /\ Len(q) <= RcvWnd /\ rnxt = start + Len(q)
  /\ \A i \in 1..Len(q) : q[i] = T[start + i]

(* Nothing is lost between a sender and a receiver.                        *)
Kept(sbuf, nxt, rbuf, rnxt) ==
  \A sn \in Nat : rnxt <= sn /\ sn < nxt => Holds(sbuf, sn) \/ Holds(rbuf, sn)

(* What is acknowledged has come.                                          *)
Has(rbuf, rnxt, sn) == sn < rnxt \/ Holds(rbuf, sn)
AcksRight(acks, rbuf, rnxt) == \A i \in 1..Len(acks) : Has(rbuf, rnxt, acks[i])
SegRight(seg, k, T) ==
  /\ seg.una <= k.rcv_nxt
  /\ seg.cmd = "ack" => Has(k.rcv_buf, k.rcv_nxt, seg.sn)
  /\ seg.cmd = "push" => seg.sn < k.snd_nxt /\ Of(seg, T)
AllRight(datagram, k, T) == \A j \in 1..Len(datagram) : SegRight(datagram[j], k, T)
WayRight(way, k, T) == \A i \in 1..Len(way) : AllRight(way[i], k, T)

(* One direction: k has written the messages M, of which the other end r   *)
(* has read n, and the datagrams way are from k to r.                      *)
Right(k, r, M, n, way, T, C) ==
  /\ T \in Seq(Piece) /\ C \in Seq(Nat) /\ Cut(T, C, M) /\ n <= Len(M)
  /\ SndQueueRight(k.snd_queue, k.snd_nxt, T)
  /\ SndBufRight(k.snd_buf, k.snd_una, k.snd_nxt, T)
  /\ RcvBufRight(r.rcv_buf, r.rcv_nxt, k.snd_nxt, T)
  /\ RcvQueueRight(r.rcv_queue, r.rcv_nxt, C[n + 1], T)
  /\ Kept(k.snd_buf, k.snd_nxt, r.rcv_buf, r.rcv_nxt)
  /\ AcksRight(k.acklist, k.rcv_buf, k.rcv_nxt)
  /\ WayRight(way, k, T)

RightOf(e) == \E T, C : Right(kcp[e], kcp[Other(e)], sent[e], Len(got[Other(e)]),
                              net[Other(e)], T, C)

KcpInv == KcpTypes /\ \A e \in Ends : RightOf(e)
------------------------------------------------------------------------------
(* Numbers                                                                 *)

LEMMA WindowsAre == RcvWnd \in Nat \ {0} /\ SndWnd \in Nat \ {0} /\ WND_RCV \in Nat \ {0}
                    /\ WND_RCV <= RcvWnd
BY Windows DEF RcvWnd, Largest

LEMMA OtherIs ==
  ASSUME NEW e \in Ends
  PROVE  Other(e) \in Ends /\ Other(e) # e /\ Ends = {e, Other(e)} /\ Other(Other(e)) = e
<1>1. PICK a, b \in Ends : a # b /\ Ends = {a, b}
  BY TwoEnds
<1>2. \A d \in Ends : Other(d) \in Ends /\ Other(d) # d
  BY <1>1 DEF Other
<1> QED BY <1>1, <1>2

LEMMA Induction ==
  ASSUME NEW S \in SUBSET Nat, 0 \in S, \A n \in S : n + 1 \in S
  PROVE  S = Nat
<1> SUFFICES ASSUME Nat \ S # {} PROVE FALSE
  OBVIOUS
<1>1. PICK m \in Nat \ S : \A k \in Nat \ S : ~ (<<k, m>> \in OpToRel(<, Nat))
  BY NatLessThanWellFounded, WFMin
<1>2. \A k \in Nat \ S : ~ (k < m)
  BY <1>1 DEF OpToRel
<1>3. m - 1 \in Nat /\ m - 1 < m
  OBVIOUS
<1>4. m - 1 \in S
  BY <1>2, <1>3
<1>5. (m - 1) + 1 \in S /\ (m - 1) + 1 = m
  BY <1>4
<1> QED BY <1>5

(* A set of numbers that has one has a least, and if it has a bound a      *)
(* greatest.                                                               *)
LEMMA LeastIn ==
  ASSUME NEW S \in SUBSET Nat, S # {}
  PROVE  \E m \in S : \A k \in S : m <= k
<1>1. PICK m \in S : \A k \in S : ~ (<<k, m>> \in OpToRel(<, Nat))
  BY NatLessThanWellFounded, WFMin
<1>2. \A k \in S : ~ (k < m)
  BY <1>1 DEF OpToRel
<1> QED BY <1>2

LEMMA GreatestIn ==
  ASSUME NEW b \in Nat, NEW S \in SUBSET 0..b, S # {}
  PROVE  \E m \in S : \A k \in S : k <= m
<1> DEFINE R == {n \in Nat : n <= b /\ b - n \in S}
<1>1. R # {}
  <2>1. PICK s \in S : TRUE
    OBVIOUS
  <2>2. b - s \in Nat /\ b - s <= b /\ b - (b - s) = s
    OBVIOUS
  <2> QED BY <2>2
<1>2. PICK m \in R : \A k \in R : m <= k
  <2> HIDE DEF R
  <2>1. R \in SUBSET Nat
    BY DEF R
  <2> QED BY <1>1, <2>1, LeastIn
<1>3. ASSUME NEW k \in S PROVE k <= b - m
  <2>1. k \in Nat /\ b - k \in Nat /\ b - k <= b /\ b - (b - k) = k
    OBVIOUS
  <2>2. b - k \in R
    BY <2>1
  <2> QED BY <1>2, <2>1, <2>2
<1> QED BY <1>2, <1>3
------------------------------------------------------------------------------
(* Sequences                                                               *)

LEMMA ElementIs ==
  ASSUME NEW S, NEW s \in Seq(S)
  PROVE  Len(s) \in Nat /\ DOMAIN s = 1..Len(s) /\ \A i \in 1..Len(s) : s[i] \in S
OBVIOUS

LEMMA ConcatIs ==
  ASSUME NEW S, NEW s \in Seq(S), NEW x \in Seq(S)
  PROVE  /\ s \o x \in Seq(S) /\ Len(s \o x) = Len(s) + Len(x)
         /\ Len(s) \in Nat /\ Len(x) \in Nat
         /\ \A i \in 1..Len(s) : (s \o x)[i] = s[i]
         /\ \A i \in 1..Len(x) : (s \o x)[Len(s) + i] = x[i]
         /\ \A i \in 1..Len(s \o x) : i \in 1..Len(s) \/ i - Len(s) \in 1..Len(x)
OBVIOUS

LEMMA AppendIs ==
  ASSUME NEW S, NEW s \in Seq(S), NEW x \in S
  PROVE  /\ Append(s, x) \in Seq(S) /\ Len(Append(s, x)) = Len(s) + 1 /\ Len(s) \in Nat
         /\ \A i \in 1..Len(s) : Append(s, x)[i] = s[i]
         /\ Append(s, x)[Len(s) + 1] = x
OBVIOUS

LEMMA PrefixIs ==
  ASSUME NEW S, NEW s \in Seq(S), NEW n \in 0..Len(s)
  PROVE  /\ SubSeq(s, 1, n) \in Seq(S) /\ Len(SubSeq(s, 1, n)) = n
         /\ \A i \in 1..n : SubSeq(s, 1, n)[i] = s[i]
OBVIOUS

LEMMA RestIs ==
  ASSUME NEW S, NEW s \in Seq(S), NEW n \in 0..Len(s)
  PROVE  LET r == SubSeq(s, n + 1, Len(s))
         IN  /\ r \in Seq(S) /\ Len(r) = Len(s) - n /\ Len(s) \in Nat /\ Len(r) \in Nat
             /\ \A i \in 1..Len(r) : n + i \in 1..Len(s) /\ r[i] = s[n + i]
             /\ \A i \in 1..Len(s) : i > n => i - n \in 1..Len(r) /\ r[i - n] = s[i]
OBVIOUS

LEMMA RemoveAtIs ==
  ASSUME NEW S, NEW s \in Seq(S), NEW n \in 1..Len(s)
  PROVE  LET r == RemoveAt(s, n)
         IN  /\ r \in Seq(S) /\ Len(r) = Len(s) - 1 /\ Len(s) \in Nat /\ Len(r) \in Nat
             /\ \A i \in 1..Len(r) : IF i < n THEN r[i] = s[i] ELSE r[i] = s[i + 1]
<1> DEFINE p == SubSeq(s, 1, n - 1)
           q == SubSeq(s, n + 1, Len(s))
<1>1. n - 1 \in 0..Len(s) /\ n \in 0..Len(s) /\ Len(s) \in Nat
  OBVIOUS
<1>2. p \in Seq(S) /\ Len(p) = n - 1 /\ \A i \in 1..n - 1 : p[i] = s[i]
  BY <1>1, PrefixIs
<1>3. q \in Seq(S) /\ Len(q) = Len(s) - n /\ \A i \in 1..Len(q) : q[i] = s[n + i]
  BY <1>1, RestIs
<1> HIDE DEF p, q
<1>4. /\ p \o q \in Seq(S) /\ Len(p \o q) = Len(s) - 1
      /\ \A i \in 1..n - 1 : (p \o q)[i] = s[i]
      /\ \A i \in 1..Len(q) : (p \o q)[n - 1 + i] = s[n + i]
  <2>1. /\ p \o q \in Seq(S) /\ Len(p \o q) = Len(p) + Len(q)
        /\ \A i \in 1..Len(p) : (p \o q)[i] = p[i]
        /\ \A i \in 1..Len(q) : (p \o q)[Len(p) + i] = q[i]
    <3>1. p \in Seq(S) /\ q \in Seq(S)
      BY <1>2, <1>3
    <3>2. p \o q \in Seq(S)
      BY <3>1, ConcatIs
    <3>3. Len(p \o q) = Len(p) + Len(q)
      BY <3>1, ConcatIs
    <3>4. \A i \in 1..Len(p) : (p \o q)[i] = p[i]
      BY <3>1, ConcatIs
    <3>5. \A i \in 1..Len(q) : (p \o q)[Len(p) + i] = q[i]
      BY <3>1, ConcatIs
    <3> QED BY <3>2, <3>3, <3>4, <3>5
  <2>2. Len(p) = n - 1 /\ Len(p) + Len(q) = Len(s) - 1
    BY <1>1, <1>2, <1>3
  <2> QED BY <1>2, <1>3, <2>1, <2>2
<1>5. ASSUME NEW i \in 1..Len(p \o q), ~ (i < n) PROVE (p \o q)[i] = s[i + 1]
  <2>1. i - n + 1 \in 1..Len(q) /\ n - 1 + (i - n + 1) = i /\ n + (i - n + 1) = i + 1
    BY <1>1, <1>3, <1>4, <1>5
  <2> QED BY <1>4, <2>1
<1>6. RemoveAt(s, n) = p \o q
  BY DEF RemoveAt, p, q
<1>7. \A i \in 1..Len(p \o q) : i < n => i \in 1..n - 1
  BY <1>1, <1>4
<1> DEFINE r == p \o q
<1>8. /\ r \in Seq(S) /\ Len(r) = Len(s) - 1 /\ Len(s) \in Nat /\ Len(r) \in Nat
      /\ \A i \in 1..Len(r) : IF i < n THEN r[i] = s[i] ELSE r[i] = s[i + 1]
  <2>1. r \in Seq(S) /\ Len(r) = Len(s) - 1 /\ Len(s) \in Nat /\ Len(r) \in Nat
    BY <1>1, <1>4
  <2> QED BY <1>4, <1>5, <1>7, <2>1
<1> HIDE DEF r
<1> QED BY <1>6, <1>8 DEF r
------------------------------------------------------------------------------
(* Buffers                                                                 *)

Numbered(S) == \A x \in S : x.sn \in Nat

LEMMA SegmentsAreNumbered == Numbered(InSeg) /\ Numbered(OutSeg)
BY DEF Numbered, InSeg, OutSeg

(* A search from the head stops at the first number that is not before.    *)
LEMMA BeforeIs ==
  ASSUME NEW S, Numbered(S), NEW buf \in Seq(S), NEW sn \in Nat
  PROVE  /\ Before(buf, sn) \in 0..Len(buf)
         /\ \A i \in 1..Before(buf, sn) : buf[i].sn < sn
         /\ Before(buf, sn) < Len(buf) => buf[Before(buf, sn) + 1].sn >= sn
<1> DEFINE R == {n \in 0..Len(buf) : \A i \in 1..n : buf[i].sn < sn}
           P(n) == /\ \A i \in 1..n : buf[i].sn < sn
                   /\ n < Len(buf) => buf[n + 1].sn >= sn
<1>1. Len(buf) \in Nat /\ \A i \in 1..Len(buf) : buf[i].sn \in Nat
  BY ElementIs DEF Numbered
<1>2. 0 \in R /\ R \in SUBSET 0..Len(buf)
  BY <1>1
<1>3. PICK n \in R : \A k \in R : k <= n
  <2> HIDE DEF R
  <2> QED BY <1>1, <1>2, GreatestIn
<1>4. n < Len(buf) => buf[n + 1].sn >= sn
  <2> SUFFICES ASSUME n < Len(buf), ~ (buf[n + 1].sn >= sn) PROVE FALSE
    OBVIOUS
  <2>1. n \in 0..Len(buf) /\ n \in Nat /\ n + 1 \in 0..Len(buf) /\ n + 1 \in 1..Len(buf) /\ ~ (n + 1 <= n)
    BY <1>1
  <2>2. \A i \in 1..n + 1 : i \in 1..n \/ i = n + 1
    BY <2>1
  <2>3. buf[n + 1].sn < sn
    BY <1>1, <2>1
  <2>4. n + 1 \in R
    BY <2>1, <2>2, <2>3
  <2> HIDE DEF R
  <2> QED BY <1>3, <2>1, <2>4
<1>5. n \in 0..Len(buf) /\ P(n)
  BY <1>4
<1>6. Before(buf, sn) = CHOOSE m \in 0..Len(buf) : P(m)
  BY DEF Before
<1> HIDE DEF P, R
<1>7. Before(buf, sn) \in 0..Len(buf) /\ P(Before(buf, sn))
  BY <1>5, <1>6
<1> QED BY <1>7 DEF P

(* A search from the tail stops at the last that is not behind.            *)
LEMMA UpToIs ==
  ASSUME NEW S, Numbered(S), NEW buf \in Seq(S), NEW sn \in Nat
  PROVE  /\ UpTo(buf, sn) \in 0..Len(buf)
         /\ \A i \in UpTo(buf, sn) + 1..Len(buf) : buf[i].sn > sn
         /\ UpTo(buf, sn) > 0 => buf[UpTo(buf, sn)].sn <= sn
<1> DEFINE R == {n \in 0..Len(buf) : \A i \in n + 1..Len(buf) : buf[i].sn > sn}
           P(n) == /\ \A i \in n + 1..Len(buf) : buf[i].sn > sn
                   /\ n > 0 => buf[n].sn <= sn
<1>1. Len(buf) \in Nat /\ \A i \in 1..Len(buf) : buf[i].sn \in Nat
  BY ElementIs DEF Numbered
<1>2. Len(buf) \in R /\ R \in SUBSET Nat
  BY <1>1
<1>3. PICK n \in R : \A k \in R : n <= k
  <2> HIDE DEF R
  <2> QED BY <1>1, <1>2, LeastIn
<1>4. n > 0 => buf[n].sn <= sn
  <2> SUFFICES ASSUME n > 0, ~ (buf[n].sn <= sn) PROVE FALSE
    OBVIOUS
  <2>1. n \in 0..Len(buf) /\ n - 1 \in 0..Len(buf) /\ n \in 1..Len(buf) /\ ~ (n <= n - 1)
    BY <1>1
  <2>2. \A i \in (n - 1) + 1..Len(buf) : i = n \/ i \in n + 1..Len(buf)
    BY <1>1, <2>1
  <2>3. buf[n].sn > sn
    BY <1>1, <2>1
  <2>4. n - 1 \in R
    BY <2>1, <2>2, <2>3
  <2> HIDE DEF R
  <2> QED BY <1>3, <2>1, <2>4
<1>5. n \in 0..Len(buf) /\ P(n)
  BY <1>4
<1>6. UpTo(buf, sn) = CHOOSE m \in 0..Len(buf) : P(m)
  BY DEF UpTo
<1> HIDE DEF P, R
<1>7. UpTo(buf, sn) \in 0..Len(buf) /\ P(UpTo(buf, sn))
  BY <1>5, <1>6
<1> QED BY <1>7 DEF P

(* The first message of a queue ends where the first last piece is.        *)
LEMMA FirstMessageIs ==
  ASSUME NEW q \in Seq(Piece), NEW n \in 1..Len(q), q[n].frg = 0,
         \A i \in 1..n - 1 : q[i].frg # 0
  PROVE  FirstMessage(q) = SubSeq(q, 1, n)
<1> DEFINE P(m) == (q[m].frg = 0 \/ m = Len(q)) /\ \A i \in 1..m - 1 : q[i].frg # 0
           m == CHOOSE i \in 1..Len(q) : P(i)
<1>1. P(n) /\ Len(q) \in Nat
  OBVIOUS
<1>2. m \in 1..Len(q) /\ P(m)
  <2> HIDE DEF P
  <2> QED BY <1>1
<1>3. m = n
  <2> HIDE DEF m
  <2>1. ~ (m < n)
    BY <1>1, <1>2
  <2>2. ~ (n < m)
    BY <1>1, <1>2
  <2> QED BY <1>1, <1>2, <2>1, <2>2
<1>4. FirstMessage(q) = SubSeq(q, 1, m)
  BY DEF FirstMessage
<1> HIDE DEF m
<1> QED BY <1>3, <1>4

(* What MoveReady moves: n segments that are next in order.                *)
Moved(k, n) ==
  [k EXCEPT !.rcv_queue = @ \o [i \in 1..n |-> [frg |-> k.rcv_buf[i].frg,
                                               data |-> k.rcv_buf[i].data]],
            !.rcv_buf = SubSeq(@, n + 1, Len(@)),
            !.rcv_nxt = @ + n]

LEMMA MoveReadyIs ==
  ASSUME NEW k \in Block, Len(k.rcv_queue) <= RcvWnd
  PROVE  \E n \in 0..Len(k.rcv_buf) :
           /\ MoveReady(k) = Moved(k, n) /\ n <= RcvWnd - Len(k.rcv_queue)
           /\ \A i \in 1..n : k.rcv_buf[i].sn = k.rcv_nxt + i - 1
<1> DEFINE b == Least(Len(k.rcv_buf), RcvWnd - Len(k.rcv_queue))
           R == {n \in 0..b : \A i \in 1..n : k.rcv_buf[i].sn = k.rcv_nxt + i - 1}
           n == CHOOSE m \in R : \A r \in R : r <= m
<1>1. k.rcv_buf \in Seq(InSeg) /\ k.rcv_queue \in Seq(Piece)
  BY DEF Block
<1>2. b \in Nat /\ b <= Len(k.rcv_buf) /\ b <= RcvWnd - Len(k.rcv_queue) /\ Len(k.rcv_buf) \in Nat
      /\ Len(k.rcv_queue) \in Nat
  <2>1. Len(k.rcv_buf) \in Nat /\ Len(k.rcv_queue) \in Nat
    BY <1>1, ElementIs
  <2>2. RcvWnd - Len(k.rcv_queue) \in Nat
    BY <2>1, WindowsAre
  <2> QED BY <2>1, <2>2 DEF Least
<1> HIDE DEF b
<1>3. 0 \in R /\ R \in SUBSET 0..b
  BY <1>2
<1>4. n \in R
  <2> HIDE DEF R
  <2> QED BY <1>2, <1>3, GreatestIn
<1>5. MoveReady(k) = Moved(k, n)
  BY DEF MoveReady, Moved, R, b
<1> HIDE DEF n
<1>6. n \in 0..Len(k.rcv_buf) /\ n <= RcvWnd - Len(k.rcv_queue)
  BY <1>2, <1>4, WindowsAre
<1> QED BY <1>4, <1>5, <1>6
------------------------------------------------------------------------------
(* What a buffer holds after a cut, a removal and an insertion             *)

LEMMA OrderRest ==
  ASSUME NEW S, Numbered(S), NEW buf \in Seq(S), InOrder(buf), NEW n \in 0..Len(buf)
  PROVE  InOrder(SubSeq(buf, n + 1, Len(buf)))
<1> DEFINE r == SubSeq(buf, n + 1, Len(buf))
<1>1. /\ Len(r) = Len(buf) - n /\ Len(buf) \in Nat
      /\ \A i \in 1..Len(r) : n + i \in 1..Len(buf) /\ r[i] = buf[n + i]
  BY RestIs
<1> HIDE DEF r
<1>2. ASSUME NEW i \in 1..Len(r), NEW j \in 1..Len(r), i < j PROVE r[i].sn < r[j].sn
  <2>1. n + i < n + j
    BY <1>1, <1>2
  <2> QED BY <1>1, <2>1 DEF InOrder
<1>3. InOrder(r)
  BY <1>2 DEF InOrder
<1> QED BY <1>3 DEF r

LEMMA OrderRemove ==
  ASSUME NEW S, Numbered(S), NEW buf \in Seq(S), InOrder(buf), NEW n \in 1..Len(buf)
  PROVE  /\ InOrder(RemoveAt(buf, n))
         /\ \A i \in 1..Len(RemoveAt(buf, n)) :
              \E j \in 1..Len(buf) : RemoveAt(buf, n)[i] = buf[j]
         /\ \A j \in 1..Len(buf) : j # n =>
              \E i \in 1..Len(RemoveAt(buf, n)) : RemoveAt(buf, n)[i] = buf[j]
<1> DEFINE r == RemoveAt(buf, n)
<1>1. /\ Len(r) = Len(buf) - 1 /\ Len(buf) \in Nat
      /\ \A i \in 1..Len(r) : IF i < n THEN r[i] = buf[i] ELSE r[i] = buf[i + 1]
  BY RemoveAtIs
<1> HIDE DEF r
<1>2. ASSUME NEW i \in 1..Len(r), NEW j \in 1..Len(r), i < j PROVE r[i].sn < r[j].sn
  <2> DEFINE x == IF i < n THEN i ELSE i + 1
             y == IF j < n THEN j ELSE j + 1
  <2>1. x \in 1..Len(buf) /\ y \in 1..Len(buf) /\ x < y
    BY <1>1, <1>2
  <2>2. r[i] = buf[x] /\ r[j] = buf[y]
    BY <1>1
  <2> HIDE DEF x, y
  <2> QED BY <2>1, <2>2 DEF InOrder
<1>3. ASSUME NEW i \in 1..Len(r) PROVE \E j \in 1..Len(buf) : r[i] = buf[j]
  <2>1. CASE i < n
    <3>1. i \in 1..Len(buf)
      BY <1>1
    <3> QED BY <1>1, <2>1, <3>1
  <2>2. CASE ~ (i < n)
    <3>1. i + 1 \in 1..Len(buf)
      BY <1>1
    <3> QED BY <1>1, <2>2, <3>1
  <2> QED BY <2>1, <2>2
<1>4. ASSUME NEW j \in 1..Len(buf), j # n PROVE \E i \in 1..Len(r) : r[i] = buf[j]
  <2>1. CASE j < n
    <3>1. j \in 1..Len(r)
      BY <1>1, <2>1
    <3> QED BY <1>1, <2>1, <3>1
  <2>2. CASE j > n
    <3>1. j - 1 \in 1..Len(r) /\ ~ (j - 1 < n) /\ (j - 1) + 1 = j
      BY <1>1, <2>2
    <3> QED BY <1>1, <3>1
  <2> QED BY <1>1, <1>4, <2>1, <2>2
<1>5. InOrder(r)
  BY <1>2 DEF InOrder
<1> QED BY <1>3, <1>4, <1>5 DEF r

LEMMA SndRestKeeps ==
  ASSUME NEW buf \in Seq(OutSeg), NEW una \in Nat, NEW nxt \in Nat, NEW T,
         SndBufRight(buf, una, nxt, T), NEW n \in 0..Len(buf)
  PROVE  SndBufRight(SubSeq(buf, n + 1, Len(buf)), una, nxt, T)
<1> DEFINE r == SubSeq(buf, n + 1, Len(buf))
<1>1. \A i \in 1..Len(r) : n + i \in 1..Len(buf) /\ r[i] = buf[n + i]
  BY RestIs
<1>2. InOrder(r)
  BY OrderRest, SegmentsAreNumbered DEF SndBufRight
<1> HIDE DEF r
<1>3. SndBufRight(r, una, nxt, T)
  BY <1>1, <1>2 DEF SndBufRight
<1> QED BY <1>3 DEF r

LEMMA SndRemoveKeeps ==
  ASSUME NEW buf \in Seq(OutSeg), NEW una \in Nat, NEW nxt \in Nat, NEW T,
         SndBufRight(buf, una, nxt, T), NEW n \in 1..Len(buf)
  PROVE  SndBufRight(RemoveAt(buf, n), una, nxt, T)
<1> DEFINE r == RemoveAt(buf, n)
<1>1. InOrder(r) /\ \A i \in 1..Len(r) : \E j \in 1..Len(buf) : r[i] = buf[j]
  BY OrderRemove, SegmentsAreNumbered DEF SndBufRight
<1> HIDE DEF r
<1>2. SndBufRight(r, una, nxt, T)
  BY <1>1 DEF SndBufRight
<1> QED BY <1>2 DEF r

(* What is dropped before what the receiver expects is not missed.         *)
LEMMA KeptRest ==
  ASSUME NEW sbuf \in Seq(OutSeg), NEW nxt \in Nat, NEW rbuf, NEW rnxt \in Nat,
         Kept(sbuf, nxt, rbuf, rnxt), NEW n \in 0..Len(sbuf),
         \A i \in 1..n : sbuf[i].sn < rnxt
  PROVE  Kept(SubSeq(sbuf, n + 1, Len(sbuf)), nxt, rbuf, rnxt)
<1> DEFINE r == SubSeq(sbuf, n + 1, Len(sbuf))
<1>1. \A i \in 1..Len(sbuf) : i > n => i - n \in 1..Len(r) /\ r[i - n] = sbuf[i]
  BY RestIs
<1>2. Len(sbuf) \in Nat /\ \A i \in 1..Len(sbuf) : sbuf[i].sn \in Nat
  BY ElementIs, SegmentsAreNumbered DEF Numbered
<1> HIDE DEF r
<1>3. ASSUME NEW sn \in Nat, rnxt <= sn, Holds(sbuf, sn) PROVE Holds(r, sn)
  <2>1. PICK i \in 1..Len(sbuf) : sbuf[i].sn = sn
    BY <1>3 DEF Holds
  <2>2. i > n
    BY <1>2, <1>3, <2>1
  <2>3. i - n \in 1..Len(r) /\ r[i - n].sn = sn
    BY <1>1, <2>1, <2>2
  <2> QED BY <2>3 DEF Holds
<1>4. Kept(r, nxt, rbuf, rnxt)
  BY <1>3 DEF Kept
<1> QED BY <1>4 DEF r

LEMMA KeptRemove ==
  ASSUME NEW sbuf \in Seq(OutSeg), NEW nxt \in Nat, NEW rbuf, NEW rnxt \in Nat,
         Kept(sbuf, nxt, rbuf, rnxt), NEW n \in 1..Len(sbuf),
         Has(rbuf, rnxt, sbuf[n].sn), InOrder(sbuf)
  PROVE  Kept(RemoveAt(sbuf, n), nxt, rbuf, rnxt)
<1> DEFINE r == RemoveAt(sbuf, n)
<1>1. \A j \in 1..Len(sbuf) : j # n => \E i \in 1..Len(r) : r[i] = sbuf[j]
  BY OrderRemove, SegmentsAreNumbered
<1>2. Len(sbuf) \in Nat /\ \A i \in 1..Len(sbuf) : sbuf[i].sn \in Nat
  BY ElementIs, SegmentsAreNumbered DEF Numbered
<1> HIDE DEF r
<1>3. ASSUME NEW sn \in Nat, rnxt <= sn, Holds(sbuf, sn) PROVE Holds(r, sn) \/ Holds(rbuf, sn)
  <2>1. PICK j \in 1..Len(sbuf) : sbuf[j].sn = sn
    BY <1>3 DEF Holds
  <2>2. CASE j = n
    BY <1>2, <1>3, <2>1, <2>2 DEF Has
  <2>3. CASE j # n
    BY <1>1, <2>1, <2>3 DEF Holds
  <2> QED BY <2>2, <2>3
<1>4. Kept(r, nxt, rbuf, rnxt)
  BY <1>3 DEF Kept
<1> QED BY <1>4 DEF r

(* What the receiver has more is missed less.                              *)
LEMMA KeptGrows ==
  ASSUME NEW sbuf, NEW nxt \in Nat, NEW rbuf, NEW rnxt \in Nat, NEW buf, NEW n \in Nat,
         Kept(sbuf, nxt, rbuf, rnxt), rnxt <= n,
         \A sn \in Nat : Has(rbuf, rnxt, sn) => Has(buf, n, sn)
  PROVE  Kept(sbuf, nxt, buf, n)
BY DEF Kept, Has

LEMMA PutBehindIs ==
  ASSUME NEW buf \in Seq(InSeg), NEW n \in 0..Len(buf), NEW seg \in Seg
  PROVE  LET r == PutBehind(buf, n, seg)
         IN  /\ r \in Seq(InSeg) /\ Len(r) = Len(buf) + 1 /\ Len(buf) \in Nat
             /\ \A i \in 1..n : r[i] = buf[i]
             /\ r[n + 1].sn = seg.sn /\ r[n + 1].frg = seg.frg /\ r[n + 1].data = seg.data
             /\ \A i \in n + 1..Len(buf) : r[i + 1] = buf[i]
<1> DEFINE x == [sn |-> seg.sn, frg |-> seg.frg, data |-> seg.data]
           p == SubSeq(buf, 1, n)
           q == SubSeq(buf, n + 1, Len(buf))
           r == p \o <<x>> \o q
<1>1. x \in InSeg /\ x.sn = seg.sn /\ x.frg = seg.frg /\ x.data = seg.data
  BY DEF Seg, InSeg
<1>2. p \in Seq(InSeg) /\ Len(p) = n /\ \A i \in 1..n : p[i] = buf[i]
  BY PrefixIs
<1>3. /\ q \in Seq(InSeg) /\ Len(q) = Len(buf) - n /\ Len(buf) \in Nat
      /\ \A i \in 1..Len(buf) : i > n => i - n \in 1..Len(q) /\ q[i - n] = buf[i]
  BY RestIs
<1>4. PutBehind(buf, n, seg) = r
  BY DEF PutBehind
<1> HIDE DEF x, p, q
<1> DEFINE y == p \o <<x>>
<1>5. /\ y \in Seq(InSeg) /\ Len(y) = n + 1 /\ y[n + 1] = x
      /\ \A i \in 1..n : y[i] = buf[i]
  BY <1>1, <1>2
<1> HIDE DEF y
<1>6. /\ y \o q \in Seq(InSeg) /\ Len(y \o q) = Len(buf) + 1
      /\ \A i \in 1..n + 1 : (y \o q)[i] = y[i]
      /\ \A i \in 1..Len(q) : (y \o q)[n + 1 + i] = q[i]
  BY <1>3, <1>5
<1>7. r = y \o q
  BY DEF y
<1> HIDE DEF r
<1>8. \A i \in 1..n : r[i] = buf[i]
  BY <1>5, <1>6, <1>7
<1>9. r[n + 1] = x
  BY <1>5, <1>6, <1>7
<1>10. ASSUME NEW i \in n + 1..Len(buf) PROVE r[i + 1] = buf[i]
  <2>1. i - n \in 1..Len(q) /\ q[i - n] = buf[i] /\ n + 1 + (i - n) = i + 1
    BY <1>3
  <2> QED BY <1>6, <1>7, <2>1
<1> QED BY <1>1, <1>3, <1>4, <1>6, <1>7, <1>8, <1>9, <1>10

(* A segment that has come is put where it keeps the order.                *)
LEMMA PutBehindKeeps ==
  ASSUME NEW buf \in Seq(InSeg), NEW rnxt \in Nat, NEW limit \in Nat, NEW T,
         RcvBufRight(buf, rnxt, limit, T), NEW seg \in Seg, Of(seg, T),
         rnxt <= seg.sn, seg.sn < rnxt + RcvWnd, seg.sn < limit,
         NEW n \in 0..Len(buf), n > 0 => buf[n].sn < seg.sn,
         \A i \in n + 1..Len(buf) : buf[i].sn > seg.sn
  PROVE  LET r == PutBehind(buf, n, seg)
         IN  /\ r \in Seq(InSeg) /\ RcvBufRight(r, rnxt, limit, T) /\ Holds(r, seg.sn)
             /\ \A sn \in Nat : Holds(buf, sn) => Holds(r, sn)
<1> DEFINE r == PutBehind(buf, n, seg)
<1>1. /\ r \in Seq(InSeg) /\ Len(r) = Len(buf) + 1 /\ Len(buf) \in Nat
      /\ \A i \in 1..n : r[i] = buf[i]
      /\ r[n + 1].sn = seg.sn /\ r[n + 1].frg = seg.frg /\ r[n + 1].data = seg.data
      /\ \A i \in n + 1..Len(buf) : r[i + 1] = buf[i]
  BY PutBehindIs
<1> HIDE DEF r
<1>2. seg.sn \in Nat /\ \A i \in 1..Len(buf) : buf[i].sn \in Nat
  BY ElementIs, SegmentsAreNumbered DEF Numbered, Seg
<1>3. \A i \in 1..n : buf[i].sn < seg.sn
  <2> SUFFICES ASSUME NEW i \in 1..n PROVE buf[i].sn < seg.sn
    OBVIOUS
  <2>1. n \in 1..Len(buf) /\ i \in 1..Len(buf) /\ (i = n \/ i < n)
    BY <1>1
  <2>2. i < n => buf[i].sn < buf[n].sn
    BY <2>1 DEF RcvBufRight, InOrder
  <2> QED BY <1>2, <2>1, <2>2
<1>4. \A i \in 1..Len(r) : i \in 1..n \/ i = n + 1 \/ (i - 1 \in n + 1..Len(buf) /\ r[i] = buf[i - 1])
  <2> SUFFICES ASSUME NEW i \in 1..Len(r), ~ (i \in 1..n), i # n + 1
               PROVE  i - 1 \in n + 1..Len(buf) /\ r[i] = buf[i - 1]
    OBVIOUS
  <2>1. i - 1 \in n + 1..Len(buf) /\ (i - 1) + 1 = i
    BY <1>1
  <2>2. r[(i - 1) + 1] = buf[i - 1]
    BY <1>1, <2>1
  <2> QED BY <2>1, <2>2
<1>5. ASSUME NEW i \in 1..Len(r)
      PROVE  rnxt <= r[i].sn /\ r[i].sn < rnxt + RcvWnd /\ r[i].sn < limit /\ Of(r[i], T)
  <2>1. CASE i \in 1..n
    <3>1. i \in 1..Len(buf)
      BY <1>1, <2>1
    <3> QED BY <1>1, <2>1, <3>1 DEF RcvBufRight
  <2>2. CASE i = n + 1
    <3>1. Of(r[i], T)
      BY <1>1, <2>2 DEF Of
    <3> QED BY <1>1, <2>2, <3>1
  <2>3. CASE i - 1 \in n + 1..Len(buf) /\ r[i] = buf[i - 1]
    <3>1. i - 1 \in 1..Len(buf)
      BY <1>1, <2>3
    <3> QED BY <2>3, <3>1 DEF RcvBufRight
  <2> QED BY <1>4, <2>1, <2>2, <2>3
<1>6. ASSUME NEW i \in 1..Len(r), NEW j \in 1..Len(r), i < j PROVE r[i].sn < r[j].sn
  <2>1. \A x, y \in 1..Len(buf) : x < y => buf[x].sn < buf[y].sn
    BY DEF RcvBufRight, InOrder
  <2>2. CASE i \in 1..n /\ j \in 1..n
    <3>1. i \in 1..Len(buf) /\ j \in 1..Len(buf)
      BY <1>1, <2>2
    <3> QED BY <1>1, <1>6, <2>1, <2>2, <3>1
  <2>3. CASE i \in 1..n /\ j = n + 1
    BY <1>1, <1>3, <2>3
  <2>4. CASE i \in 1..n /\ j - 1 \in n + 1..Len(buf) /\ r[j] = buf[j - 1]
    <3>1. i \in 1..Len(buf) /\ j - 1 \in 1..Len(buf) /\ i < j - 1
      BY <1>1, <2>4
    <3> QED BY <1>1, <2>1, <2>4, <3>1
  <2>5. CASE i = n + 1 /\ j - 1 \in n + 1..Len(buf) /\ r[j] = buf[j - 1]
    BY <1>1, <1>2, <2>5
  <2>6. CASE /\ i - 1 \in n + 1..Len(buf) /\ r[i] = buf[i - 1]
             /\ j - 1 \in n + 1..Len(buf) /\ r[j] = buf[j - 1]
    <3>1. i - 1 \in 1..Len(buf) /\ j - 1 \in 1..Len(buf) /\ i - 1 < j - 1
      BY <1>1, <1>6, <2>6
    <3> QED BY <2>1, <2>6, <3>1
  <2>7. ~ (j < n + 1 /\ i >= n + 1) /\ (j = n + 1 => i \in 1..n)
    BY <1>1, <1>6
  <2>8. j \in 1..n => i \in 1..n
    BY <1>1, <1>6
  <2>9. i - 1 \in n + 1..Len(buf) => j - 1 \in n + 1..Len(buf) /\ r[j] = buf[j - 1]
    BY <1>1, <1>4, <1>6
  <2>10. i = n + 1 => j - 1 \in n + 1..Len(buf) /\ r[j] = buf[j - 1]
    BY <1>1, <1>4, <1>6
  <2> QED BY <1>4, <2>2, <2>3, <2>4, <2>5, <2>6, <2>7, <2>8, <2>9, <2>10
<1>7. RcvBufRight(r, rnxt, limit, T)
  BY <1>5, <1>6 DEF RcvBufRight, InOrder
<1>8. Holds(r, seg.sn)
  <2>1. n + 1 \in 1..Len(r)
    BY <1>1
  <2> QED BY <1>1, <2>1 DEF Holds
<1>9. ASSUME NEW sn \in Nat, Holds(buf, sn) PROVE Holds(r, sn)
  <2>1. PICK i \in 1..Len(buf) : buf[i].sn = sn
    BY <1>9 DEF Holds
  <2>2. CASE i \in 1..n
    <3>1. i \in 1..Len(r)
      BY <1>1
    <3> QED BY <1>1, <2>1, <2>2, <3>1 DEF Holds
  <2>3. CASE i \in n + 1..Len(buf)
    <3>1. i + 1 \in 1..Len(r)
      BY <1>1
    <3> QED BY <1>1, <2>1, <2>3, <3>1 DEF Holds
  <2> QED BY <2>1, <2>2, <2>3
<1>10. r \in Seq(InSeg)
  BY <1>1
<1> QED BY <1>7, <1>8, <1>9, <1>10 DEF r
------------------------------------------------------------------------------
(* Blocks                                                                  *)

SameSender(k, r) == /\ r.snd_una = k.snd_una /\ r.snd_nxt = k.snd_nxt
                    /\ r.snd_buf = k.snd_buf /\ r.snd_queue = k.snd_queue
SameBuffers(k, r) == r.rcv_buf = k.rcv_buf /\ r.rcv_nxt = k.rcv_nxt /\ r.rcv_queue = k.rcv_queue
SameReceiver(k, r) == SameBuffers(k, r) /\ r.acklist = k.acklist

LEMMA BlockIs ==
  ASSUME NEW k \in Block
  PROVE  /\ k.snd_una \in Nat /\ k.snd_nxt \in Nat /\ k.rcv_nxt \in Nat
         /\ k.snd_queue \in Seq(Piece) /\ k.snd_buf \in Seq(OutSeg)
         /\ k.rcv_buf \in Seq(InSeg) /\ k.rcv_queue \in Seq(Piece) /\ k.acklist \in Seq(Nat)
BY DEF Block

LEMMA FunctionIs ==
  ASSUME NEW S, NEW n \in Nat, NEW f \in [1..n -> S]
  PROVE  f \in Seq(S) /\ Len(f) = n
OBVIOUS

(* What MoveReady does to a buffer and a queue: n segments that are next   *)
(* in order become the pieces x.                                           *)
LEMMA ReadyQueue ==
  ASSUME NEW buf \in Seq(InSeg), NEW q \in Seq(Piece), NEW nxt \in Nat,
         NEW T \in Seq(Piece), NEW limit \in Nat, NEW start \in Nat,
         RcvBufRight(buf, nxt, limit, T), RcvQueueRight(q, nxt, start, T),
         NEW n \in 0..Len(buf), n <= RcvWnd - Len(q),
         \A i \in 1..n : buf[i].sn = nxt + i - 1,
         NEW x, x = [i \in 1..n |-> [frg |-> buf[i].frg, data |-> buf[i].data]]
  PROVE  q \o x \in Seq(Piece) /\ RcvQueueRight(q \o x, nxt + n, start, T)
<1>1. /\ Len(buf) \in Nat /\ Len(q) \in Nat /\ n \in Nat /\ Len(T) \in Nat
      /\ \A i \in 1..Len(buf) : buf[i] \in InSeg
  BY ElementIs
<1>2. x \in Seq(Piece) /\ Len(x) = n
  <2>1. ASSUME NEW i \in 1..n PROVE [frg |-> buf[i].frg, data |-> buf[i].data] \in Piece
    <3>1. buf[i] \in InSeg
      BY <1>1
    <3>2. buf[i].frg \in Nat /\ buf[i].data \in Datum
      BY <3>1 DEF InSeg
    <3> QED BY <3>2 DEF Piece
  <2>2. x \in [1..n -> Piece]
    BY <2>1
  <2> QED BY <1>1, <2>2, FunctionIs
<1>3. ASSUME NEW i \in 1..n PROVE x[i] = T[nxt + i]
  <2>1. i \in 1..Len(buf) /\ buf[i].sn = nxt + i - 1
    BY <1>1
  <2>2. Of(buf[i], T)
    BY <2>1 DEF RcvBufRight
  <2>3. buf[i].sn + 1 = nxt + i /\ nxt + i \in Nat /\ nxt + i >= 1
    BY <1>1, <2>1
  <2>4. buf[i].frg = T[nxt + i].frg /\ buf[i].data = T[nxt + i].data
    BY <2>2, <2>3 DEF Of
  <2>5. nxt + i \in 1..Len(T)
    BY <1>1, <2>1, <2>2, <2>3 DEF Of
  <2>6. T[nxt + i] \in Piece
    BY <2>5, ElementIs
  <2>7. x[i] = [frg |-> buf[i].frg, data |-> buf[i].data]
    OBVIOUS
  <2>8. x[i] = [frg |-> T[nxt + i].frg, data |-> T[nxt + i].data]
    BY <2>4, <2>7
  <2> HIDE DEF Datum
  <2> QED BY <2>6, <2>8 DEF Piece
<1>4. /\ q \o x \in Seq(Piece) /\ Len(q \o x) = Len(q) + n
      /\ \A i \in 1..Len(q) : (q \o x)[i] = q[i]
      /\ \A i \in 1..n : (q \o x)[Len(q) + i] = x[i]
  BY <1>2, ConcatIs
<1>5. Len(q) <= RcvWnd /\ nxt = start + Len(q) /\ \A i \in 1..Len(q) : q[i] = T[start + i]
  BY DEF RcvQueueRight
<1>6. ASSUME NEW i \in 1..Len(q) + n PROVE (q \o x)[i] = T[start + i]
  <2>1. CASE i \in 1..Len(q)
    BY <1>4, <1>5, <2>1
  <2>2. CASE i - Len(q) \in 1..n
    <3>1. Len(q) + (i - Len(q)) = i /\ nxt + (i - Len(q)) = start + i
      BY <1>1, <1>5
    <3>2. (q \o x)[Len(q) + (i - Len(q))] = x[i - Len(q)]
      BY <1>4, <2>2
    <3> QED BY <1>3, <2>2, <3>1, <3>2
  <2>3. i \in 1..Len(q) \/ i - Len(q) \in 1..n
    BY <1>1
  <2> QED BY <2>1, <2>2, <2>3
<1>7. Len(q) + n <= RcvWnd /\ nxt + n = start + (Len(q) + n)
  BY <1>1, <1>5, WindowsAre
<1> QED BY <1>4, <1>6, <1>7 DEF RcvQueueRight

LEMMA ReadyRest ==
  ASSUME NEW buf \in Seq(InSeg), NEW nxt \in Nat, NEW T, NEW limit \in Nat,
         RcvBufRight(buf, nxt, limit, T), NEW n \in 0..Len(buf),
         \A i \in 1..n : buf[i].sn = nxt + i - 1,
         NEW rest, rest = SubSeq(buf, n + 1, Len(buf))
  PROVE  /\ rest \in Seq(InSeg) /\ nxt <= nxt + n /\ RcvBufRight(rest, nxt + n, limit, T)
         /\ \A sn \in Nat : Has(buf, nxt, sn) => Has(rest, nxt + n, sn)
<1>1. /\ Len(buf) \in Nat /\ n \in Nat /\ n <= Len(buf)
      /\ \A i \in 1..Len(buf) : buf[i].sn \in Nat
  BY ElementIs, SegmentsAreNumbered DEF Numbered
<1>2. /\ rest \in Seq(InSeg) /\ Len(rest) = Len(buf) - n
      /\ \A i \in 1..Len(rest) : n + i \in 1..Len(buf) /\ rest[i] = buf[n + i]
      /\ \A i \in 1..Len(buf) : i > n => i - n \in 1..Len(rest) /\ rest[i - n] = buf[i]
  BY RestIs
<1>3. InOrder(rest)
  BY OrderRest, SegmentsAreNumbered DEF RcvBufRight
<1>4. nxt + n <= limit
  <2>1. CASE n = 0
    BY <2>1 DEF RcvBufRight
  <2>2. CASE n # 0
    <3>1. n \in 1..n /\ n \in 1..Len(buf)
      BY <1>1, <2>2
    <3>2. buf[n].sn = nxt + n - 1 /\ buf[n].sn < limit
      BY <3>1 DEF RcvBufRight
    <3> QED BY <1>1, <3>2
  <2> QED BY <2>1, <2>2
<1>5. ASSUME NEW i \in 1..Len(buf), i > n PROVE nxt + n <= buf[i].sn
  <2>1. CASE n = 0
    BY <2>1 DEF RcvBufRight
  <2>2. CASE n # 0
    <3>1. n \in 1..n /\ n \in 1..Len(buf)
      BY <1>1, <2>2
    <3>2. buf[n].sn = nxt + n - 1
      BY <3>1
    <3>3. buf[n].sn < buf[i].sn
      BY <1>5, <3>1 DEF RcvBufRight, InOrder
    <3> QED BY <1>1, <3>1, <3>2, <3>3
  <2> QED BY <2>1, <2>2
<1>6. ASSUME NEW i \in 1..Len(rest)
      PROVE  /\ nxt + n <= rest[i].sn /\ rest[i].sn < (nxt + n) + RcvWnd
             /\ rest[i].sn < limit /\ Of(rest[i], T)
  <2>1. n + i \in 1..Len(buf) /\ rest[i] = buf[n + i] /\ n + i > n
    BY <1>1, <1>2
  <2>2. /\ buf[n + i].sn < nxt + RcvWnd /\ buf[n + i].sn < limit /\ Of(buf[n + i], T)
        /\ buf[n + i].sn \in Nat
    BY <1>1, <2>1 DEF RcvBufRight
  <2>3. buf[n + i].sn < (nxt + n) + RcvWnd
    BY <1>1, <2>2, WindowsAre
  <2> QED BY <1>5, <2>1, <2>2, <2>3
<1>7. RcvBufRight(rest, nxt + n, limit, T)
  BY <1>3, <1>4, <1>6 DEF RcvBufRight
<1>8. ASSUME NEW sn \in Nat, Has(buf, nxt, sn) PROVE Has(rest, nxt + n, sn)
  <2>1. CASE sn < nxt
    BY <1>1, <2>1 DEF Has
  <2>2. CASE Holds(buf, sn)
    <3>1. PICK i \in 1..Len(buf) : buf[i].sn = sn
      BY <2>2 DEF Holds
    <3>2. CASE i > n
      BY <1>2, <3>1, <3>2 DEF Has, Holds
    <3>3. CASE ~ (i > n)
      <4>1. i \in 1..n
        BY <1>1, <3>3
      <4>2. sn = nxt + i - 1
        BY <3>1, <4>1
      <4>3. sn < nxt + n
        BY <1>1, <4>1, <4>2
      <4> QED BY <4>3 DEF Has
    <3> QED BY <3>2, <3>3
  <2> QED BY <1>8, <2>1, <2>2 DEF Has
<1> QED BY <1>1, <1>2, <1>7, <1>8

(* Moving what is ready keeps the receiver right and loses nothing.        *)
LEMMA MoveReadyKeeps ==
  ASSUME NEW k \in Block, NEW T \in Seq(Piece), NEW limit \in Nat, NEW start \in Nat,
         RcvBufRight(k.rcv_buf, k.rcv_nxt, limit, T),
         RcvQueueRight(k.rcv_queue, k.rcv_nxt, start, T)
  PROVE  LET r == MoveReady(k)
         IN  /\ r \in Block /\ SameSender(k, r) /\ r.acklist = k.acklist
             /\ RcvBufRight(r.rcv_buf, r.rcv_nxt, limit, T)
             /\ RcvQueueRight(r.rcv_queue, r.rcv_nxt, start, T)
             /\ k.rcv_nxt <= r.rcv_nxt
             /\ \A sn \in Nat : Has(k.rcv_buf, k.rcv_nxt, sn) => Has(r.rcv_buf, r.rcv_nxt, sn)
<1>1. k.rcv_buf \in Seq(InSeg) /\ k.rcv_queue \in Seq(Piece) /\ k.rcv_nxt \in Nat
  BY BlockIs
<1>2. PICK n \in 0..Len(k.rcv_buf) :
        /\ MoveReady(k) = Moved(k, n) /\ n <= RcvWnd - Len(k.rcv_queue)
        /\ \A i \in 1..n : k.rcv_buf[i].sn = k.rcv_nxt + i - 1
  <2>1. Len(k.rcv_queue) <= RcvWnd
    BY DEF RcvQueueRight
  <2> QED BY <2>1, MoveReadyIs
<1> DEFINE x == [i \in 1..n |-> [frg |-> k.rcv_buf[i].frg, data |-> k.rcv_buf[i].data]]
           rest == SubSeq(k.rcv_buf, n + 1, Len(k.rcv_buf))
           queue == k.rcv_queue \o x
           nxt == k.rcv_nxt + n
           r == [k EXCEPT !.rcv_queue = queue, !.rcv_buf = rest, !.rcv_nxt = nxt]
<1>3. MoveReady(k) = r
  BY <1>2 DEF Moved
<1>4. queue \in Seq(Piece) /\ RcvQueueRight(queue, nxt, start, T)
  BY <1>1, <1>2, ReadyQueue
<1>5. /\ rest \in Seq(InSeg) /\ k.rcv_nxt <= nxt /\ RcvBufRight(rest, nxt, limit, T)
      /\ \A sn \in Nat : Has(k.rcv_buf, k.rcv_nxt, sn) => Has(rest, nxt, sn)
  BY <1>1, <1>2, ReadyRest
<1>6. nxt \in Nat
  BY <1>1, <1>2
<1> HIDE DEF x, rest, queue, nxt
<1>7. /\ r \in Block /\ SameSender(k, r) /\ r.acklist = k.acklist
      /\ r.rcv_queue = queue /\ r.rcv_buf = rest /\ r.rcv_nxt = nxt
  <2>1. queue \in Seq(Piece) /\ rest \in Seq(InSeg) /\ nxt \in Nat
    BY <1>4, <1>5, <1>6
  <2> QED BY <2>1 DEF Block, SameSender
<1> HIDE DEF r
<1> QED BY <1>3, <1>4, <1>5, <1>7
------------------------------------------------------------------------------
(* Input                                                                   *)

(* What input keeps of a block k, from k0 on, while o is the other end's:  *)
(* T is what k has written and U what o has, of which start pieces are     *)
(* read. No number that has come is forgotten.                             *)
Sends(k, o, T) == /\ SndBufRight(k.snd_buf, k.snd_una, k.snd_nxt, T)
                  /\ Kept(k.snd_buf, k.snd_nxt, o.rcv_buf, o.rcv_nxt)
Grows(k, k0) == /\ k0.rcv_nxt <= k.rcv_nxt
                /\ \A sn \in Nat : Has(k0.rcv_buf, k0.rcv_nxt, sn) => Has(k.rcv_buf, k.rcv_nxt, sn)
Receives(k, o, U, start) == /\ RcvBufRight(k.rcv_buf, k.rcv_nxt, o.snd_nxt, U)
                            /\ RcvQueueRight(k.rcv_queue, k.rcv_nxt, start, U)
                            /\ AcksRight(k.acklist, k.rcv_buf, k.rcv_nxt)
Good(k, k0, o, T, U, start) ==
  /\ k \in Block /\ k.snd_nxt = k0.snd_nxt /\ k.snd_queue = k0.snd_queue
  /\ Sends(k, o, T) /\ Receives(k, o, U, start) /\ Grows(k, k0)

LEMMA SenderChanges ==
  ASSUME NEW k, NEW k0, NEW o, NEW T, NEW U, NEW start, Good(k, k0, o, T, U, start),
         NEW r \in Block, SameReceiver(k, r), r.snd_nxt = k.snd_nxt, r.snd_queue = k.snd_queue,
         Sends(r, o, T)
  PROVE  Good(r, k0, o, T, U, start)
BY DEF Good, SameReceiver, SameBuffers, Receives, Grows

LEMMA ReceiverChanges ==
  ASSUME NEW k, NEW k0, NEW o, NEW T, NEW U, NEW start, Good(k, k0, o, T, U, start),
         NEW r \in Block, SameSender(k, r), Receives(r, o, U, start), Grows(r, k0)
  PROVE  Good(r, k0, o, T, U, start)
BY DEF Good, SameSender, Sends

LEMMA NothingChanges ==
  ASSUME NEW k, NEW k0, NEW o, NEW T, NEW U, NEW start, Good(k, k0, o, T, U, start),
         NEW r \in Block, SameSender(k, r), SameReceiver(k, r)
  PROVE  Good(r, k0, o, T, U, start)
BY DEF Good, SameSender, SameReceiver, SameBuffers, Sends, Receives, Grows

LEMMA GrowsOn ==
  ASSUME NEW k \in Block, NEW r \in Block, NEW k0 \in Block, Grows(k, k0), Grows(r, k)
  PROVE  Grows(r, k0)
<1>1. k.rcv_nxt \in Nat /\ r.rcv_nxt \in Nat /\ k0.rcv_nxt \in Nat
  BY BlockIs
<1> QED BY <1>1 DEF Grows

LEMMA ShrinkBufKeeps ==
  ASSUME NEW k, NEW k0, NEW o, NEW T, NEW U, NEW start, Good(k, k0, o, T, U, start)
  PROVE  Good(ShrinkBuf(k), k0, o, T, U, start)
<1> DEFINE una == IF k.snd_buf = <<>> THEN k.snd_nxt ELSE Head(k.snd_buf).sn
           r == [k EXCEPT !.snd_una = una]
<1>1. k \in Block /\ SndBufRight(k.snd_buf, k.snd_una, k.snd_nxt, T)
  BY DEF Good, Sends
<1>2. k.snd_una \in Nat /\ k.snd_nxt \in Nat /\ k.snd_buf \in Seq(OutSeg)
  BY <1>1, BlockIs
<1>3. /\ una \in Nat /\ k.snd_una <= una /\ una <= k.snd_nxt
      /\ \A i \in 1..Len(k.snd_buf) : una <= k.snd_buf[i].sn
  <2>1. CASE k.snd_buf = <<>>
    BY <1>1, <1>2, <2>1 DEF SndBufRight
  <2>2. CASE k.snd_buf # <<>>
    <3>1. Head(k.snd_buf) = k.snd_buf[1] /\ Len(k.snd_buf) \in Nat /\ Len(k.snd_buf) >= 1
      BY <1>2, <2>2
    <3>2. /\ 1 \in 1..Len(k.snd_buf) /\ \A i \in 1..Len(k.snd_buf) : i = 1 \/ 1 < i
          /\ \A i \in 1..Len(k.snd_buf) : k.snd_buf[i].sn \in Nat
      BY <1>2, <3>1, ElementIs, SegmentsAreNumbered DEF Numbered
    <3>3. \A i \in 1..Len(k.snd_buf) : i = 1 \/ k.snd_buf[1].sn < k.snd_buf[i].sn
      BY <1>1, <3>2 DEF SndBufRight, InOrder
    <3> QED BY <1>1, <1>2, <2>2, <3>1, <3>2, <3>3 DEF SndBufRight
  <2> QED BY <2>1, <2>2
<1>4. ShrinkBuf(k) = r
  BY DEF ShrinkBuf
<1> HIDE DEF una
<1>5. /\ r \in Block /\ SameReceiver(k, r) /\ r.snd_una = una
      /\ r.snd_nxt = k.snd_nxt /\ r.snd_buf = k.snd_buf /\ r.snd_queue = k.snd_queue
  BY <1>1, <1>3 DEF Block, SameReceiver, SameBuffers
<1> HIDE DEF r
<1>6. SndBufRight(k.snd_buf, una, k.snd_nxt, T)
  BY <1>1, <1>2, <1>3, WindowsAre DEF SndBufRight
<1>7. Sends(r, o, T)
  BY <1>5, <1>6 DEF Good, Sends
<1> QED BY <1>4, <1>5, <1>7, SenderChanges

LEMMA ParseUnaKeeps ==
  ASSUME NEW k, NEW k0, NEW o \in Block, NEW T, NEW U, NEW start, Good(k, k0, o, T, U, start),
         NEW una \in Nat, una <= o.rcv_nxt
  PROVE  Good(ParseUna(k, una), k0, o, T, U, start)
<1> DEFINE buf == SubSeq(k.snd_buf, Before(k.snd_buf, una) + 1, Len(k.snd_buf))
           r == [k EXCEPT !.snd_buf = buf]
<1>1. /\ k \in Block /\ SndBufRight(k.snd_buf, k.snd_una, k.snd_nxt, T)
      /\ Kept(k.snd_buf, k.snd_nxt, o.rcv_buf, o.rcv_nxt)
  BY DEF Good, Sends
<1>2. /\ k.snd_una \in Nat /\ k.snd_nxt \in Nat /\ k.snd_buf \in Seq(OutSeg) /\ o.rcv_nxt \in Nat
      /\ Len(k.snd_buf) \in Nat /\ \A i \in 1..Len(k.snd_buf) : k.snd_buf[i].sn \in Nat
  BY <1>1, BlockIs, ElementIs, SegmentsAreNumbered DEF Numbered
<1>3. PICK n \in 0..Len(k.snd_buf) :
        n = Before(k.snd_buf, una) /\ \A i \in 1..n : k.snd_buf[i].sn < una
  BY <1>2, BeforeIs, SegmentsAreNumbered
<1>4. \A i \in 1..n : k.snd_buf[i].sn < o.rcv_nxt
  <2> SUFFICES ASSUME NEW i \in 1..n PROVE k.snd_buf[i].sn < o.rcv_nxt
    OBVIOUS
  <2>1. i \in 1..Len(k.snd_buf)
    BY <1>2
  <2> QED BY <1>2, <1>3, <2>1
<1>5. buf \in Seq(OutSeg)
  BY <1>2, <1>3, RestIs
<1>6. SndBufRight(buf, k.snd_una, k.snd_nxt, T)
  BY <1>1, <1>2, <1>3, SndRestKeeps
<1>7. Kept(buf, k.snd_nxt, o.rcv_buf, o.rcv_nxt)
  BY <1>1, <1>2, <1>3, <1>4, KeptRest
<1>8. ParseUna(k, una) = r
  BY DEF ParseUna
<1> HIDE DEF buf
<1>9. /\ r \in Block /\ SameReceiver(k, r) /\ r.snd_una = k.snd_una
      /\ r.snd_nxt = k.snd_nxt /\ r.snd_buf = buf /\ r.snd_queue = k.snd_queue
  BY <1>1, <1>5 DEF Block, SameReceiver, SameBuffers
<1> HIDE DEF r
<1>10. Sends(r, o, T)
  BY <1>6, <1>7, <1>9 DEF Sends
<1> QED BY <1>8, <1>9, <1>10, SenderChanges

LEMMA ParseAckKeeps ==
  ASSUME NEW k, NEW k0, NEW o \in Block, NEW T, NEW U, NEW start, Good(k, k0, o, T, U, start),
         NEW sn \in Nat, Has(o.rcv_buf, o.rcv_nxt, sn)
  PROVE  Good(ParseAck(k, sn), k0, o, T, U, start)
<1> DEFINE n == Before(k.snd_buf, sn) + 1
           buf == RemoveAt(k.snd_buf, n)
           r == [k EXCEPT !.snd_buf = buf]
<1>1. /\ k \in Block /\ SndBufRight(k.snd_buf, k.snd_una, k.snd_nxt, T)
      /\ Kept(k.snd_buf, k.snd_nxt, o.rcv_buf, o.rcv_nxt)
  BY DEF Good, Sends
<1>2. /\ k.snd_una \in Nat /\ k.snd_nxt \in Nat /\ k.snd_buf \in Seq(OutSeg) /\ o.rcv_nxt \in Nat
      /\ Len(k.snd_buf) \in Nat
  BY <1>1, BlockIs, ElementIs
<1>3. Before(k.snd_buf, sn) \in 0..Len(k.snd_buf)
  BY <1>2, BeforeIs, SegmentsAreNumbered
<1>4. CASE ParseAck(k, sn) = k
  BY <1>4
<1>5. CASE n <= Len(k.snd_buf) /\ k.snd_buf[n].sn = sn /\ ParseAck(k, sn) = r
  <2>1. n \in 1..Len(k.snd_buf)
    BY <1>2, <1>3, <1>5
  <2> HIDE DEF n
  <2>2. buf \in Seq(OutSeg) /\ SndBufRight(buf, k.snd_una, k.snd_nxt, T)
    BY <1>1, <1>2, <2>1, RemoveAtIs, SndRemoveKeeps
  <2>3. Kept(buf, k.snd_nxt, o.rcv_buf, o.rcv_nxt)
    <3>1. InOrder(k.snd_buf) /\ Has(o.rcv_buf, o.rcv_nxt, k.snd_buf[n].sn)
      BY <1>1, <1>5 DEF SndBufRight
    <3> QED BY <1>1, <1>2, <2>1, <3>1, KeptRemove
  <2> HIDE DEF buf
  <2>4. /\ r \in Block /\ SameReceiver(k, r) /\ r.snd_una = k.snd_una
        /\ r.snd_nxt = k.snd_nxt /\ r.snd_buf = buf /\ r.snd_queue = k.snd_queue
    BY <1>1, <2>2 DEF Block, SameReceiver, SameBuffers
  <2> HIDE DEF r
  <2>5. Sends(r, o, T)
    BY <2>2, <2>3, <2>4 DEF Sends
  <2> QED BY <1>5, <2>4, <2>5, SenderChanges
<1> QED BY <1>4, <1>5 DEF ParseAck

LEMMA LeastIsNat ==
  ASSUME NEW m \in Nat, NEW n \in Nat
  PROVE  Least(m, n) \in Nat /\ Least(m, n) <= m /\ Least(m, n) <= n
BY DEF Least

LEMMA ParseFastackKeeps ==
  ASSUME NEW k, NEW k0, NEW o \in Block, NEW T, NEW U, NEW start, Good(k, k0, o, T, U, start),
         NEW sn, mode \in Modes
  PROVE  Good(ParseFastack(k, sn), k0, o, T, U, start)
<1> DEFINE old == k.snd_buf
           buf == [i \in DOMAIN old |->
                     IF old[i].sn < sn THEN Skipped(old[i]) ELSE old[i]]
           r == [k EXCEPT !.snd_buf = buf]
<1>1. /\ k \in Block /\ SndBufRight(old, k.snd_una, k.snd_nxt, T)
      /\ Kept(old, k.snd_nxt, o.rcv_buf, o.rcv_nxt)
  BY DEF Good, Sends
<1>2. /\ old \in Seq(OutSeg) /\ Len(old) \in Nat /\ DOMAIN old = 1..Len(old)
      /\ \A i \in 1..Len(old) : old[i] \in OutSeg
  BY <1>1, BlockIs, ElementIs
<1>3. ParseFastack(k, sn) = IF Outstanding(k, sn) THEN r ELSE k
  BY DEF ParseFastack
<1> HIDE DEF old
<1>4. ASSUME NEW i \in 1..Len(old)
      PROVE  /\ buf[i] \in OutSeg /\ buf[i].sn = old[i].sn /\ buf[i].frg = old[i].frg
             /\ buf[i].data = old[i].data
  <2> DEFINE s == Skipped(old[i])
  <2>1. old[i] \in OutSeg /\ old[i].fastack \in Nat
    BY <1>2 DEF OutSeg
  <2>2. Least(old[i].fastack + 1, mode.fastresend) \in Nat
    <3>1. mode.fastresend \in Nat /\ old[i].fastack + 1 \in Nat
      BY <2>1 DEF Modes
    <3> QED BY <3>1, LeastIsNat
  <2>3. s \in OutSeg /\ s.sn = old[i].sn /\ s.frg = old[i].frg /\ s.data = old[i].data
    BY <2>1, <2>2 DEF OutSeg, Skipped
  <2>4. buf[i] = s \/ buf[i] = old[i]
    BY <1>2
  <2> HIDE DEF s, buf
  <2> QED BY <2>1, <2>3, <2>4
<1>5. buf \in Seq(OutSeg) /\ Len(buf) = Len(old)
  <2>1. buf = [i \in 1..Len(old) |-> buf[i]]
    BY <1>2
  <2> HIDE DEF buf
  <2>2. buf \in [1..Len(old) -> OutSeg]
    BY <1>4, <2>1
  <2> QED BY <1>2, <2>2, FunctionIs
<1> HIDE DEF buf
<1>6. SndBufRight(buf, k.snd_una, k.snd_nxt, T)
  BY <1>1, <1>4, <1>5 DEF SndBufRight, InOrder, Of
<1>7. Kept(buf, k.snd_nxt, o.rcv_buf, o.rcv_nxt)
  BY <1>1, <1>4, <1>5 DEF Kept, Holds
<1>8. /\ r \in Block /\ SameReceiver(k, r) /\ r.snd_una = k.snd_una
      /\ r.snd_nxt = k.snd_nxt /\ r.snd_buf = buf /\ r.snd_queue = k.snd_queue
  BY <1>1, <1>5 DEF Block, SameReceiver, SameBuffers
<1> HIDE DEF r
<1>9. Good(r, k0, o, T, U, start)
  <2>1. Sends(r, o, T)
    BY <1>6, <1>7, <1>8 DEF Sends
  <2> QED BY <1>8, <2>1, SenderChanges
<1> QED BY <1>3, <1>9

(* A segment of data that is in the window is kept, unless it is there.    *)
LEMMA ParseDataIs ==
  ASSUME NEW k \in Block, NEW limit \in Nat, NEW U \in Seq(Piece), NEW start \in Nat,
         RcvBufRight(k.rcv_buf, k.rcv_nxt, limit, U),
         RcvQueueRight(k.rcv_queue, k.rcv_nxt, start, U),
         NEW seg \in Seg, seg.sn < limit, Of(seg, U),
         k.rcv_nxt <= seg.sn, seg.sn < k.rcv_nxt + RcvWnd
  PROVE  LET r == ParseData(k, seg)
         IN  /\ r \in Block /\ SameSender(k, r) /\ r.acklist = k.acklist
             /\ RcvBufRight(r.rcv_buf, r.rcv_nxt, limit, U)
             /\ RcvQueueRight(r.rcv_queue, r.rcv_nxt, start, U)
             /\ Grows(r, k) /\ Has(r.rcv_buf, r.rcv_nxt, seg.sn)
<1> DEFINE n == UpTo(k.rcv_buf, seg.sn)
           buf == PutBehind(k.rcv_buf, n, seg)
           y == [k EXCEPT !.rcv_buf = buf]
           x == IF n > 0 /\ k.rcv_buf[n].sn = seg.sn THEN k ELSE y
<1>1. /\ k.rcv_nxt \in Nat /\ k.rcv_buf \in Seq(InSeg) /\ Len(k.rcv_buf) \in Nat /\ seg.sn \in Nat
      /\ \A i \in 1..Len(k.rcv_buf) : k.rcv_buf[i].sn \in Nat
  BY BlockIs, ElementIs, SegmentsAreNumbered DEF Numbered, Seg
<1>2. /\ n \in 0..Len(k.rcv_buf) /\ \A i \in n + 1..Len(k.rcv_buf) : k.rcv_buf[i].sn > seg.sn
      /\ n > 0 => k.rcv_buf[n].sn <= seg.sn
  BY <1>1, UpToIs, SegmentsAreNumbered
<1>3. ParseData(k, seg) = MoveReady(x)
  BY DEF ParseData
<1> HIDE DEF n
<1>4. /\ x \in Block /\ SameSender(k, x) /\ x.acklist = k.acklist /\ x.rcv_nxt = k.rcv_nxt
      /\ RcvBufRight(x.rcv_buf, x.rcv_nxt, limit, U)
      /\ RcvQueueRight(x.rcv_queue, x.rcv_nxt, start, U)
      /\ Grows(x, k) /\ Has(x.rcv_buf, x.rcv_nxt, seg.sn)
  <2>1. CASE n > 0 /\ k.rcv_buf[n].sn = seg.sn
    <3>1. n \in 1..Len(k.rcv_buf)
      BY <1>1, <1>2, <2>1
    <3>2. Has(k.rcv_buf, k.rcv_nxt, seg.sn)
      BY <2>1, <3>1 DEF Has, Holds
    <3>3. x = k
      BY <2>1
    <3>4. SameSender(k, k) /\ Grows(k, k)
      BY <1>1 DEF SameSender, Grows
    <3> HIDE DEF x
    <3> QED BY <3>2, <3>3, <3>4
  <2>2. CASE ~ (n > 0 /\ k.rcv_buf[n].sn = seg.sn)
    <3>1. n > 0 => k.rcv_buf[n].sn < seg.sn
      BY <1>1, <1>2, <2>2
    <3>2. /\ buf \in Seq(InSeg) /\ RcvBufRight(buf, k.rcv_nxt, limit, U) /\ Holds(buf, seg.sn)
          /\ \A sn \in Nat : Holds(k.rcv_buf, sn) => Holds(buf, sn)
      BY <1>1, <1>2, <3>1, PutBehindKeeps
    <3> HIDE DEF buf
    <3>3. /\ y \in Block /\ SameSender(k, y) /\ y.acklist = k.acklist
          /\ y.rcv_queue = k.rcv_queue /\ y.rcv_buf = buf /\ y.rcv_nxt = k.rcv_nxt
      BY <3>2 DEF Block, SameSender
    <3>4. x = y
      BY <2>2
    <3> HIDE DEF x, y
    <3>5. Grows(y, k) /\ Has(y.rcv_buf, y.rcv_nxt, seg.sn)
      BY <1>1, <3>2, <3>3 DEF Grows, Has
    <3> QED BY <3>2, <3>3, <3>4, <3>5
  <2> QED BY <2>1, <2>2
<1> HIDE DEF x
<1> DEFINE r == MoveReady(x)
<1>5. /\ r \in Block /\ SameSender(x, r) /\ r.acklist = x.acklist
      /\ RcvBufRight(r.rcv_buf, r.rcv_nxt, limit, U)
      /\ RcvQueueRight(r.rcv_queue, r.rcv_nxt, start, U)
      /\ Grows(r, x)
  BY <1>4, MoveReadyKeeps DEF Grows
<1> HIDE DEF r
<1>6. SameSender(k, r) /\ r.acklist = k.acklist
  BY <1>4, <1>5 DEF SameSender
<1>7. Grows(r, k)
  BY <1>4, <1>5, GrowsOn
<1>8. Has(r.rcv_buf, r.rcv_nxt, seg.sn)
  BY <1>1, <1>4, <1>5 DEF Grows
<1> QED BY <1>3, <1>5, <1>6, <1>7, <1>8 DEF r

LEMMA AcksGrow ==
  ASSUME NEW k \in Block, NEW r, Grows(r, k), AcksRight(k.acklist, k.rcv_buf, k.rcv_nxt),
         NEW sn \in Nat, Has(r.rcv_buf, r.rcv_nxt, sn)
  PROVE  AcksRight(Append(k.acklist, sn), r.rcv_buf, r.rcv_nxt)
<1> DEFINE acks == Append(k.acklist, sn)
<1>1. k.acklist \in Seq(Nat)
  BY BlockIs
<1>2. /\ Len(acks) = Len(k.acklist) + 1 /\ Len(k.acklist) \in Nat
      /\ \A i \in 1..Len(k.acklist) : acks[i] = k.acklist[i] /\ k.acklist[i] \in Nat
      /\ acks[Len(k.acklist) + 1] = sn
  BY <1>1, AppendIs, ElementIs
<1> HIDE DEF acks
<1>3. ASSUME NEW i \in 1..Len(acks) PROVE Has(r.rcv_buf, r.rcv_nxt, acks[i])
  <2>1. CASE i \in 1..Len(k.acklist)
    BY <1>2, <2>1 DEF AcksRight, Grows
  <2>2. CASE i = Len(k.acklist) + 1
    BY <1>2, <2>2
  <2> QED BY <1>2, <2>1, <2>2
<1>4. AcksRight(acks, r.rcv_buf, r.rcv_nxt)
  BY <1>3 DEF AcksRight
<1> QED BY <1>4 DEF acks

LEMMA ParsePushKeeps ==
  ASSUME NEW k, NEW k0 \in Block, NEW o \in Block, NEW T, NEW U \in Seq(Piece), NEW start \in Nat,
         Good(k, k0, o, T, U, start), NEW seg \in Seg, seg.sn < o.snd_nxt, Of(seg, U)
  PROVE  Good(ParsePush(k, seg), k0, o, T, U, start)
<1> DEFINE acks == Append(k.acklist, seg.sn)
           acked == [k EXCEPT !.acklist = acks]
<1>1. /\ k \in Block /\ Grows(k, k0)
      /\ RcvBufRight(k.rcv_buf, k.rcv_nxt, o.snd_nxt, U)
      /\ RcvQueueRight(k.rcv_queue, k.rcv_nxt, start, U)
      /\ AcksRight(k.acklist, k.rcv_buf, k.rcv_nxt)
  BY DEF Good, Receives
<1>2. /\ k.rcv_nxt \in Nat /\ k.acklist \in Seq(Nat) /\ seg.sn \in Nat /\ o.snd_nxt \in Nat
      /\ acks \in Seq(Nat)
  BY <1>1, BlockIs DEF Seg
<1>3. ParsePush(k, seg) = IF seg.sn >= k.rcv_nxt + RcvWnd THEN k
                          ELSE IF seg.sn >= k.rcv_nxt THEN ParseData(acked, seg) ELSE acked
  BY DEF ParsePush
<1>4. /\ acked \in Block /\ SameSender(k, acked) /\ SameBuffers(k, acked) /\ acked.acklist = acks
  <2> HIDE DEF acks
  <2> QED BY <1>1, <1>2 DEF Block, SameSender, SameBuffers
<1> HIDE DEF acked
<1>5. /\ RcvBufRight(acked.rcv_buf, acked.rcv_nxt, o.snd_nxt, U)
      /\ RcvQueueRight(acked.rcv_queue, acked.rcv_nxt, start, U)
      /\ acked.rcv_nxt = k.rcv_nxt /\ acked.rcv_buf = k.rcv_buf
  BY <1>1, <1>4 DEF SameBuffers
<1>6. CASE seg.sn >= k.rcv_nxt + RcvWnd
  BY <1>3, <1>6
<1>7. CASE ~ (seg.sn >= k.rcv_nxt + RcvWnd) /\ seg.sn >= k.rcv_nxt
  <2> DEFINE r == ParseData(acked, seg)
  <2>1. acked.rcv_nxt <= seg.sn /\ seg.sn < acked.rcv_nxt + RcvWnd
    BY <1>2, <1>5, <1>7, WindowsAre
  <2>2. /\ r \in Block /\ SameSender(acked, r) /\ r.acklist = acked.acklist
        /\ RcvBufRight(r.rcv_buf, r.rcv_nxt, o.snd_nxt, U)
        /\ RcvQueueRight(r.rcv_queue, r.rcv_nxt, start, U)
        /\ Grows(r, acked) /\ Has(r.rcv_buf, r.rcv_nxt, seg.sn)
    BY <1>2, <1>4, <1>5, <2>1, ParseDataIs
  <2> HIDE DEF r
  <2>3. SameSender(k, r) /\ Grows(r, k)
    BY <1>4, <1>5, <2>2 DEF SameSender, Grows
  <2>4. AcksRight(acks, r.rcv_buf, r.rcv_nxt)
    BY <1>1, <1>2, <2>2, <2>3, AcksGrow
  <2>5. Receives(r, o, U, start)
    BY <1>4, <2>2, <2>4 DEF Receives
  <2>6. Grows(r, k0)
    BY <1>1, <2>2, <2>3, GrowsOn
  <2>7. Good(r, k0, o, T, U, start)
    BY <2>2, <2>3, <2>5, <2>6, ReceiverChanges
  <2> QED BY <1>3, <1>7, <2>7 DEF r
<1>8. CASE ~ (seg.sn >= k.rcv_nxt + RcvWnd) /\ ~ (seg.sn >= k.rcv_nxt)
  <2>1. Has(acked.rcv_buf, acked.rcv_nxt, seg.sn)
    BY <1>2, <1>5, <1>8 DEF Has
  <2>2. Grows(acked, k)
    BY <1>2, <1>5 DEF Grows
  <2>3. AcksRight(acks, acked.rcv_buf, acked.rcv_nxt)
    BY <1>1, <1>2, <2>1, <2>2, AcksGrow
  <2>4. Receives(acked, o, U, start) /\ Grows(acked, k0)
    BY <1>1, <1>4, <1>5, <2>3 DEF Receives, Grows
  <2>5. Good(acked, k0, o, T, U, start)
    BY <1>4, <2>4, ReceiverChanges
  <2> QED BY <1>3, <1>8, <2>5
<1> QED BY <1>6, <1>7, <1>8

LEMMA InputSegmentKeeps ==
  ASSUME NEW k, NEW k0 \in Block, NEW o \in Block, NEW T, NEW U \in Seq(Piece), NEW start \in Nat,
         Good(k, k0, o, T, U, start), NEW seg \in Seg, SegRight(seg, o, U)
  PROVE  Good(InputSegment(k, seg), k0, o, T, U, start)
<1> DEFINE told == [k EXCEPT !.rmt_wnd = seg.wnd]
           known == ShrinkBuf(ParseUna(told, seg.una))
           asked == [known EXCEPT !.probe = @ \cup {"tell"}]
<1>1. /\ seg.sn \in Nat /\ seg.una \in Nat /\ seg.wnd \in 0..RcvWnd
      /\ seg.cmd \in {"ack", "push", "wask", "wins"}
  BY DEF Seg
<1>2. Good(told, k0, o, T, U, start)
  <2>1. k \in Block
    BY DEF Good
  <2>2. told \in Block /\ SameSender(k, told) /\ SameReceiver(k, told)
    BY <1>1, <2>1 DEF Block, SameSender, SameReceiver, SameBuffers
  <2> HIDE DEF told
  <2> QED BY <2>2, NothingChanges
<1> HIDE DEF told
<1>3. Good(known, k0, o, T, U, start)
  <2>1. seg.una <= o.rcv_nxt
    BY DEF SegRight
  <2>2. Good(ParseUna(told, seg.una), k0, o, T, U, start)
    BY <1>1, <1>2, <2>1, ParseUnaKeeps
  <2> QED BY <2>2, ShrinkBufKeeps
<1>4. InputSegment(k, seg) = CASE seg.cmd = "ack"  -> ShrinkBuf(ParseAck(known, seg.sn))
                               [] seg.cmd = "push" -> ParsePush(known, seg)
                               [] seg.cmd = "wask" -> asked
                               [] seg.cmd = "wins" -> known
  BY DEF InputSegment, told
<1> HIDE DEF known
<1>5. CASE seg.cmd = "ack"
  <2>1. Good(ParseAck(known, seg.sn), k0, o, T, U, start)
    <3>1. Has(o.rcv_buf, o.rcv_nxt, seg.sn)
      BY <1>5 DEF SegRight
    <3> QED BY <1>1, <1>3, <3>1, ParseAckKeeps
  <2>2. Good(ShrinkBuf(ParseAck(known, seg.sn)), k0, o, T, U, start)
    BY <2>1, ShrinkBufKeeps
  <2>3. InputSegment(k, seg) = ShrinkBuf(ParseAck(known, seg.sn))
    BY <1>4, <1>5
  <2> QED BY <2>2, <2>3
<1>6. CASE seg.cmd = "push"
  <2>1. Good(ParsePush(known, seg), k0, o, T, U, start)
    BY <1>3, <1>6, ParsePushKeeps DEF SegRight
  <2>2. InputSegment(k, seg) = ParsePush(known, seg)
    BY <1>4, <1>6
  <2> QED BY <2>1, <2>2
<1>7. CASE seg.cmd = "wask"
  <2>1. known \in Block
    BY <1>3 DEF Good
  <2>2. asked \in Block /\ SameSender(known, asked) /\ SameReceiver(known, asked)
    BY <2>1 DEF Block, SameSender, SameReceiver, SameBuffers
  <2>3. InputSegment(k, seg) = asked
    BY <1>4, <1>7
  <2> HIDE DEF asked
  <2> QED BY <1>3, <2>2, <2>3, NothingChanges
<1>8. CASE seg.cmd = "wins"
  <2>1. InputSegment(k, seg) = known
    BY <1>4, <1>8
  <2> QED BY <1>3, <2>1
<1> QED BY <1>1, <1>5, <1>6, <1>7, <1>8

(* The loop of ikcp_input: there is a function as InputAll defines it.     *)
ReadStep(f, k, datagram, i) == IF i = 0 THEN k ELSE InputSegment(f[i - 1], datagram[i])
IsRead(f, k, datagram, n) == f = [i \in 0..n |-> ReadStep(f, k, datagram, i)]

LEMMA ReadExists ==
  ASSUME NEW k, NEW datagram, NEW n \in Nat
  PROVE  \E f : IsRead(f, k, datagram, n)
<1> DEFINE S == {m \in Nat : \E f : IsRead(f, k, datagram, m)}
<1>1. 0 \in S
  <2> DEFINE f == [i \in 0..0 |-> k]
  <2>1. \A i \in 0..0 : i = 0 /\ ReadStep(f, k, datagram, i) = k
    BY DEF ReadStep
  <2>2. IsRead(f, k, datagram, 0)
    BY <2>1 DEF IsRead
  <2> HIDE DEF f
  <2> QED BY <2>2
<1>2. ASSUME NEW m \in S PROVE m + 1 \in S
  <2>1. PICK f : IsRead(f, k, datagram, m)
    OBVIOUS
  <2> DEFINE g == [i \in 0..(m + 1) |-> IF i = m + 1 THEN ReadStep(f, k, datagram, i) ELSE f[i]]
  <2>2. ASSUME NEW i \in 0..(m + 1) PROVE g[i] = ReadStep(g, k, datagram, i)
    <3>1. CASE i = 0
      <4>1. g[i] = f[i] /\ f[i] = ReadStep(f, k, datagram, i)
        BY <2>1, <3>1 DEF IsRead
      <4> QED BY <3>1, <4>1 DEF ReadStep
    <3>2. CASE i # 0
      <4>1. i - 1 \in 0..m /\ g[i - 1] = f[i - 1]
        BY <3>2
      <4>2. g[i] = ReadStep(f, k, datagram, i)
        BY <2>1, <3>2 DEF IsRead
      <4> HIDE DEF g
      <4> QED BY <3>2, <4>1, <4>2 DEF ReadStep
    <3> QED BY <3>1, <3>2
  <2>3. g = [i \in 0..(m + 1) |-> g[i]]
    OBVIOUS
  <2> HIDE DEF g
  <2>4. IsRead(g, k, datagram, m + 1)
    BY <2>2, <2>3 DEF IsRead
  <2> QED BY <2>4
<1> HIDE DEF S
<1>3. S = Nat
  <2>1. S \in SUBSET Nat
    BY DEF S
  <2> QED BY <1>1, <1>2, <2>1, Induction
<1> QED BY <1>3 DEF S

LEMMA InputAllKeeps ==
  ASSUME NEW k0 \in Block, NEW o \in Block, NEW T, NEW U \in Seq(Piece), NEW start \in Nat,
         Good(k0, k0, o, T, U, start), mode \in Modes,
         NEW datagram \in Seq(Seg), AllRight(datagram, o, U)
  PROVE  Good(InputAll(k0, datagram), k0, o, T, U, start)
<1> DEFINE acks == {datagram[i].sn : i \in {j \in DOMAIN datagram : datagram[j].cmd = "ack"}}
           read[i \in 0..Len(datagram)] ==
             IF i = 0 THEN k0 ELSE InputSegment(read[i - 1], datagram[i])
           last == read[Len(datagram)]
           sn == CHOOSE s \in acks : \A a \in acks : a <= s
<1>1. InputAll(k0, datagram) = IF acks = {} THEN last ELSE ParseFastack(last, sn)
  BY DEF InputAll
<1> HIDE DEF acks, sn
<1>2. Len(datagram) \in Nat /\ \A i \in 1..Len(datagram) : datagram[i] \in Seg
  BY ElementIs
<1> DEFINE n == Len(datagram)
<1>3. read = [i \in 0..n |-> ReadStep(read, k0, datagram, i)]
  <2>1. \E f : IsRead(f, k0, datagram, n)
    <3> HIDE DEF n, read
    <3> QED BY <1>2, ReadExists DEF n
  <2> QED BY <2>1 DEF ReadStep, IsRead
<1> HIDE DEF read
<1> DEFINE S == {i \in Nat : i <= n => Good(read[i], k0, o, T, U, start)}
<1>4. 0 \in S
  <2>1. 0 \in 0..n
    BY <1>2
  <2>2. read[0] = ReadStep(read, k0, datagram, 0)
    BY <1>3, <2>1
  <2>3. read[0] = k0
    BY <2>2 DEF ReadStep
  <2> QED BY <2>3
<1>5. ASSUME NEW i \in S PROVE i + 1 \in S
  <2> SUFFICES ASSUME i + 1 <= n PROVE Good(read[i + 1], k0, o, T, U, start)
    OBVIOUS
  <2>1. Good(read[i], k0, o, T, U, start)
    BY <1>2
  <2>2. i + 1 \in 0..n /\ i + 1 # 0 /\ (i + 1) - 1 = i /\ i + 1 \in 1..Len(datagram)
    BY <1>2
  <2>3. read[i + 1] = ReadStep(read, k0, datagram, i + 1)
    BY <1>3, <2>2
  <2>4. read[i + 1] = InputSegment(read[i], datagram[i + 1])
    BY <2>2, <2>3 DEF ReadStep
  <2>5. datagram[i + 1] \in Seg /\ SegRight(datagram[i + 1], o, U)
    BY <1>2, <2>2 DEF AllRight
  <2>6. Good(InputSegment(read[i], datagram[i + 1]), k0, o, T, U, start)
    BY <2>1, <2>5, InputSegmentKeeps
  <2> QED BY <2>4, <2>6
<1>6. S = Nat
  <2> HIDE DEF S
  <2>1. S \in SUBSET Nat
    BY DEF S
  <2> QED BY <1>4, <1>5, <2>1, Induction
<1>7. Good(last, k0, o, T, U, start)
  <2>1. n \in S /\ n <= n
    BY <1>2, <1>6
  <2> QED BY <2>1
<1> HIDE DEF last
<1>8. Good(ParseFastack(last, sn), k0, o, T, U, start)
  BY <1>7, ParseFastackKeeps
<1> QED BY <1>1, <1>7, <1>8
------------------------------------------------------------------------------
(* One end's step and both directions                                      *)

Ways == Seq(Seq(Seg))

LEMMA WayRemove ==
  ASSUME NEW way \in Ways, NEW k, NEW T, WayRight(way, k, T), NEW i \in 1..Len(way)
  PROVE  RemoveAt(way, i) \in Ways /\ WayRight(RemoveAt(way, i), k, T)
<1> DEFINE r == RemoveAt(way, i)
<1>1. /\ r \in Ways /\ Len(r) = Len(way) - 1 /\ Len(way) \in Nat
      /\ \A j \in 1..Len(r) : IF j < i THEN r[j] = way[j] ELSE r[j] = way[j + 1]
  BY RemoveAtIs DEF Ways
<1> HIDE DEF r
<1>2. ASSUME NEW j \in 1..Len(r) PROVE AllRight(r[j], k, T)
  <2>1. j \in 1..Len(way) /\ j + 1 \in 1..Len(way)
    BY <1>1
  <2>2. r[j] = way[j] \/ r[j] = way[j + 1]
    BY <1>1
  <2> QED BY <2>1, <2>2 DEF WayRight
<1>3. WayRight(r, k, T)
  BY <1>2 DEF WayRight
<1> QED BY <1>1, <1>3 DEF r

LEMMA WayAppend ==
  ASSUME NEW way \in Ways, NEW k, NEW T, WayRight(way, k, T),
         NEW d \in Seq(Seg), AllRight(d, k, T)
  PROVE  Append(way, d) \in Ways /\ WayRight(Append(way, d), k, T)
<1> DEFINE r == Append(way, d)
<1>1. /\ r \in Ways /\ Len(r) = Len(way) + 1 /\ Len(way) \in Nat /\ r[Len(way) + 1] = d
      /\ \A j \in 1..Len(way) : r[j] = way[j]
  BY AppendIs DEF Ways
<1> HIDE DEF r
<1>2. ASSUME NEW j \in 1..Len(r) PROVE AllRight(r[j], k, T)
  <2>1. j \in 1..Len(way) \/ j = Len(way) + 1
    BY <1>1
  <2> QED BY <1>1, <2>1 DEF WayRight
<1>3. WayRight(r, k, T)
  BY <1>2 DEF WayRight
<1> QED BY <1>1, <1>3 DEF r

LEMMA WayConcat ==
  ASSUME NEW way \in Ways, NEW k, NEW T, WayRight(way, k, T),
         NEW more \in Ways, WayRight(more, k, T)
  PROVE  way \o more \in Ways /\ WayRight(way \o more, k, T)
<1> DEFINE r == way \o more
<1>1. /\ r \in Ways /\ Len(r) = Len(way) + Len(more) /\ Len(way) \in Nat /\ Len(more) \in Nat
      /\ \A j \in 1..Len(way) : r[j] = way[j]
      /\ \A j \in 1..Len(more) : r[Len(way) + j] = more[j]
      /\ \A j \in 1..Len(r) : j \in 1..Len(way) \/ j - Len(way) \in 1..Len(more)
  BY ConcatIs DEF Ways
<1> HIDE DEF r
<1>2. ASSUME NEW j \in 1..Len(r) PROVE AllRight(r[j], k, T)
  <2>1. CASE j \in 1..Len(way)
    BY <1>1, <2>1 DEF WayRight
  <2>2. CASE j - Len(way) \in 1..Len(more)
    <3>1. Len(way) + (j - Len(way)) = j
      BY <1>1
    <3>2. r[Len(way) + (j - Len(way))] = more[j - Len(way)]
      BY <1>1, <2>2
    <3> QED BY <2>2, <3>1, <3>2 DEF WayRight
  <2> QED BY <1>1, <2>1, <2>2
<1>3. WayRight(r, k, T)
  BY <1>2 DEF WayRight
<1> QED BY <1>1, <1>3 DEF r

(* What is on its way stays right while the sender's state grows.          *)
LEMMA WayGrows ==
  ASSUME NEW way \in Ways, NEW k \in Block, NEW r \in Block, NEW T, WayRight(way, k, T),
         Grows(r, k), r.snd_nxt >= k.snd_nxt
  PROVE  WayRight(way, r, T)
<1>1. /\ k.rcv_nxt \in Nat /\ r.rcv_nxt \in Nat /\ k.snd_nxt \in Nat /\ r.snd_nxt \in Nat
      /\ k.rcv_nxt <= r.rcv_nxt
  BY BlockIs DEF Grows
<1> SUFFICES ASSUME NEW i \in 1..Len(way), NEW j \in 1..Len(way[i])
             PROVE  SegRight(way[i][j], r, T)
  BY DEF WayRight, AllRight
<1> DEFINE seg == way[i][j]
<1>2. seg \in Seg
  <2>1. way[i] \in Seq(Seg)
    BY ElementIs DEF Ways
  <2> QED BY <2>1, ElementIs
<1>3. SegRight(seg, k, T)
  BY DEF WayRight, AllRight
<1> HIDE DEF seg
<1>4. seg.una \in Nat /\ seg.sn \in Nat
  BY <1>2 DEF Seg
<1>5. SegRight(seg, r, T)
  BY <1>1, <1>3, <1>4 DEF SegRight, Grows
<1> QED BY <1>5 DEF seg

LEMMA StartIs ==
  ASSUME NEW T, NEW C \in Seq(Nat), NEW M, NEW n \in Nat, Len(M) \in Nat, Cut(T, C, M), n <= Len(M)
  PROVE  C[n + 1] \in Nat
<1>1. n + 1 \in 1..Len(C)
  BY DEF Cut
<1> QED BY <1>1, ElementIs

(* Input and reading, after which the end has read l messages, change the  *)
(* block of one end and keep both directions right.                        *)
LEMMA GoodRight ==
  ASSUME NEW k0 \in Block, NEW o \in Block, NEW k,
         NEW M, NEW n \in Nat, NEW way \in Ways, NEW T, NEW C, Right(k0, o, M, n, way, T, C),
         NEW L, NEW m, NEW back, NEW U, NEW D, Right(o, k0, L, m, back, U, D),
         NEW l \in Nat, l <= Len(L), Good(k, k0, o, T, U, D[l + 1]),
         NEW left, WayRight(left, o, U)
  PROVE  Right(k, o, M, n, way, T, C) /\ Right(o, k, L, l, left, U, D)
<1>1. /\ k \in Block /\ k.snd_nxt = k0.snd_nxt /\ k.snd_queue = k0.snd_queue
      /\ Sends(k, o, T) /\ Receives(k, o, U, D[l + 1]) /\ Grows(k, k0)
  BY DEF Good
<1>2. /\ k.snd_nxt \in Nat /\ k.rcv_nxt \in Nat /\ k0.rcv_nxt \in Nat /\ o.snd_nxt \in Nat
  BY <1>1, BlockIs
<1>3. WayRight(way, k, T)
  <2>1. k.snd_nxt >= k0.snd_nxt
    BY <1>1, <1>2
  <2>2. WayRight(way, k0, T)
    BY DEF Right
  <2> QED BY <1>1, <2>1, <2>2, WayGrows
<1>4. Kept(o.snd_buf, o.snd_nxt, k.rcv_buf, k.rcv_nxt)
  <2>1. Kept(o.snd_buf, o.snd_nxt, k0.rcv_buf, k0.rcv_nxt)
    BY DEF Right
  <2> QED BY <1>1, <1>2, <2>1, KeptGrows DEF Grows
<1>5. Right(k, o, M, n, way, T, C)
  BY <1>1, <1>3 DEF Right, Sends, Receives
<1>6. Right(o, k, L, l, left, U, D)
  BY <1>1, <1>4 DEF Right, Receives
<1> QED BY <1>5, <1>6
------------------------------------------------------------------------------
(* The steps                                                               *)

LEMMA TypesOf ==
  ASSUME KcpInv, NEW e \in Ends
  PROVE  /\ kcp[e] \in Block /\ net[e] \in Ways /\ mode \in Modes
         /\ sent[e] \in Texts /\ got[e] \in Texts
         /\ Len(sent[e]) \in Nat /\ Len(got[e]) \in Nat /\ Len(net[e]) \in Nat
         /\ DOMAIN net[e] = 1..Len(net[e])
<1>1. /\ kcp[e] \in Block /\ net[e] \in Ways /\ mode \in Modes
      /\ sent[e] \in Texts /\ got[e] \in Texts
  BY DEF KcpInv, KcpTypes, Ways
<1> QED BY <1>1, ElementIs DEF Ways, Texts

LEMMA Directions ==
  ASSUME KcpInv, NEW e \in Ends
  PROVE  /\ \E T, C : Right(kcp[e], kcp[Other(e)], sent[e], Len(got[Other(e)]),
                            net[Other(e)], T, C)
         /\ \E T, C : Right(kcp[Other(e)], kcp[e], sent[Other(e)], Len(got[e]), net[e], T, C)
<1>1. Other(e) \in Ends /\ Other(Other(e)) = e
  BY OtherIs
<1>2. RightOf(e) /\ RightOf(Other(e))
  BY <1>1 DEF KcpInv
<1> QED BY <1>1, <1>2 DEF RightOf

LEMMA BothRight ==
  ASSUME NEW e \in Ends, KcpTypes',
         \E T, C : Right(kcp[e], kcp[Other(e)], sent[e], Len(got[Other(e)]), net[Other(e)], T, C)',
         \E T, C : Right(kcp[Other(e)], kcp[e], sent[Other(e)], Len(got[e]), net[e], T, C)'
  PROVE  KcpInv'
<1>1. Ends = {e, Other(e)} /\ Other(Other(e)) = e
  BY OtherIs
<1>2. RightOf(e)' /\ RightOf(Other(e))'
  BY <1>1 DEF RightOf
<1> QED BY <1>1, <1>2 DEF KcpInv

LEMMA CwndAfterIs ==
  ASSUME NEW k \in Block, NEW una, NEW c \in CwndAfter(k, una)
  PROVE  c \in 0..RcvWnd
<1>1. k.cwnd \in 0..RcvWnd /\ k.rmt_wnd \in 0..RcvWnd
  BY DEF Block
<1>2. c = k.cwnd \/ (c = k.cwnd + 1 /\ ~ (k.cwnd >= k.rmt_wnd))
  BY DEF CwndAfter
<1> QED BY <1>1, <1>2, WindowsAre

LEMMA InputKeeps ==
  ASSUME KcpInv, NEW e \in Ends, NEW i, Input(e, i)
  PROVE  KcpInv'
<1> DEFINE o == Other(e)
           k == InputAll(kcp[e], net[e][i])
           n == Len(got[e])
<1>1. o \in Ends /\ o # e /\ Ends = {e, o}
  BY OtherIs
<1>2. /\ kcp[e] \in Block /\ kcp[o] \in Block /\ net[e] \in Ways /\ net[o] \in Ways
      /\ mode \in Modes /\ n \in Nat /\ Len(got[o]) \in Nat
      /\ Len(sent[o]) \in Nat /\ DOMAIN net[e] = 1..Len(net[e])
  BY <1>1, TypesOf
<1>3. i \in 1..Len(net[e])
  BY <1>2 DEF Input
<1>4. PICK c \in CwndAfter(k, kcp[e].snd_una) : kcp' = [kcp EXCEPT ![e] = [k EXCEPT !.cwnd = c]]
  BY DEF Input
<1>5. net' = [net EXCEPT ![e] = RemoveAt(@, i)] /\ UNCHANGED <<mode, sent, got>>
  BY DEF Input
<1>6. PICK T, C : Right(kcp[e], kcp[o], sent[e], Len(got[o]), net[o], T, C)
  BY Directions
<1>7. PICK U, D : Right(kcp[o], kcp[e], sent[o], n, net[e], U, D)
  BY Directions
<1>8. U \in Seq(Piece) /\ D[n + 1] \in Nat
  BY <1>2, <1>7, StartIs DEF Right
<1>9. Good(kcp[e], kcp[e], kcp[o], T, U, D[n + 1])
  <2>1. Grows(kcp[e], kcp[e])
    BY <1>2, BlockIs DEF Grows
  <2>2. Sends(kcp[e], kcp[o], T)
    BY <1>6 DEF Right, Sends
  <2>3. Receives(kcp[e], kcp[o], U, D[n + 1])
    BY <1>6, <1>7 DEF Right, Receives
  <2> QED BY <1>2, <2>1, <2>2, <2>3 DEF Good
<1>10. Good(k, kcp[e], kcp[o], T, U, D[n + 1])
  <2>1. net[e][i] \in Seq(Seg)
    BY <1>2, <1>3, ElementIs DEF Ways
  <2>2. AllRight(net[e][i], kcp[o], U)
    BY <1>3, <1>7 DEF Right, WayRight
  <2> QED BY <1>2, <1>8, <1>9, <2>1, <2>2, InputAllKeeps
<1> DEFINE r == [k EXCEPT !.cwnd = c]
<1>11. Good(r, kcp[e], kcp[o], T, U, D[n + 1])
  <2>1. k \in Block
    BY <1>10 DEF Good
  <2> HIDE DEF k
  <2>2. c \in 0..RcvWnd
    BY <1>4, <2>1, CwndAfterIs
  <2>3. r \in Block /\ SameSender(k, r) /\ SameReceiver(k, r)
    BY <2>1, <2>2 DEF Block, SameSender, SameReceiver, SameBuffers
  <2> HIDE DEF r
  <2> QED BY <1>10, <2>3, NothingChanges
<1>12. kcp' = [kcp EXCEPT ![e] = r]
  BY <1>4
<1> HIDE DEF k, r
<1>13. RemoveAt(net[e], i) \in Ways /\ WayRight(RemoveAt(net[e], i), kcp[o], U)
  BY <1>2, <1>3, <1>7, WayRemove DEF Right
<1>14. /\ Right(r, kcp[o], sent[e], Len(got[o]), net[o], T, C)
       /\ Right(kcp[o], r, sent[o], n, RemoveAt(net[e], i), U, D)
  <2>1. n <= Len(sent[o])
    BY <1>7 DEF Right
  <2> QED BY <1>2, <1>6, <1>7, <1>11, <1>13, <2>1, GoodRight
<1>15. /\ kcp'[e] = r /\ kcp'[o] = kcp[o]
       /\ net'[e] = RemoveAt(net[e], i) /\ net'[o] = net[o]
  BY <1>1, <1>5, <1>12 DEF KcpInv, KcpTypes
<1>16. KcpTypes'
  <2>1. r \in Block
    BY <1>11 DEF Good
  <2>2. kcp' \in [Ends -> Block]
    BY <1>12, <2>1 DEF KcpInv, KcpTypes
  <2>3. net' \in [Ends -> Ways]
    BY <1>5, <1>13 DEF KcpInv, KcpTypes, Ways
  <2> QED BY <1>5, <2>2, <2>3 DEF KcpInv, KcpTypes, Ways
<1>17. sent' = sent /\ got' = got
  BY <1>5
<1>18. Right(kcp[e], kcp[o], sent[e], Len(got[o]), net[o], T, C)'
  BY <1>14, <1>15, <1>17
<1>19. Right(kcp[o], kcp[e], sent[o], Len(got[e]), net[e], U, D)'
  BY <1>14, <1>15, <1>17
<1> HIDE DEF o, n
<1> QED BY <1>16, <1>18, <1>19, BothRight DEF o

LEMMA NetKeeps ==
  ASSUME KcpInv, NEW e \in Ends, UNCHANGED <<kcp, mode, sent, got>>,
         NEW way \in Ways, net' = [net EXCEPT ![e] = way],
         \A T : WayRight(net[e], kcp[Other(e)], T) => WayRight(way, kcp[Other(e)], T)
  PROVE  KcpInv'
<1> DEFINE o == Other(e)
<1>1. o \in Ends /\ o # e
  BY OtherIs
<1>2. net'[e] = way /\ net'[o] = net[o] /\ kcp' = kcp /\ sent' = sent /\ got' = got
  BY <1>1 DEF KcpInv, KcpTypes
<1>3. KcpTypes'
  BY DEF KcpInv, KcpTypes, Ways
<1>4. PICK T, C : Right(kcp[e], kcp[o], sent[e], Len(got[o]), net[o], T, C)
  BY Directions
<1>5. PICK U, D : Right(kcp[o], kcp[e], sent[o], Len(got[e]), net[e], U, D)
  BY Directions
<1>6. Right(kcp[o], kcp[e], sent[o], Len(got[e]), way, U, D)
  BY <1>5 DEF Right
<1>7. Right(kcp[e], kcp[o], sent[e], Len(got[o]), net[o], T, C)'
  BY <1>2, <1>4
<1>8. Right(kcp[o], kcp[e], sent[o], Len(got[e]), net[e], U, D)'
  BY <1>2, <1>6
<1> HIDE DEF o
<1> QED BY <1>3, <1>7, <1>8, BothRight DEF o

LEMMA LoseKeeps ==
  ASSUME KcpInv, NEW e \in Ends, NEW i, Lose(e, i)
  PROVE  KcpInv'
<1>1. net[e] \in Ways /\ DOMAIN net[e] = 1..Len(net[e])
  BY TypesOf
<1>2. i \in 1..Len(net[e]) /\ net' = [net EXCEPT ![e] = RemoveAt(net[e], i)]
      /\ UNCHANGED <<kcp, mode, sent, got>>
  BY <1>1 DEF Lose
<1>3. RemoveAt(net[e], i) \in Ways
  BY <1>1, <1>2, RemoveAtIs DEF Ways
<1>4. ASSUME NEW T, WayRight(net[e], kcp[Other(e)], T)
      PROVE  WayRight(RemoveAt(net[e], i), kcp[Other(e)], T)
  BY <1>1, <1>2, <1>4, WayRemove
<1> QED BY <1>2, <1>3, <1>4, NetKeeps

LEMMA DuplicateKeeps ==
  ASSUME KcpInv, NEW e \in Ends, NEW i, Duplicate(e, i)
  PROVE  KcpInv'
<1>1. net[e] \in Ways /\ DOMAIN net[e] = 1..Len(net[e])
  BY TypesOf
<1>2. i \in 1..Len(net[e]) /\ net' = [net EXCEPT ![e] = Append(net[e], net[e][i])]
      /\ UNCHANGED <<kcp, mode, sent, got>>
  BY <1>1 DEF Duplicate
<1>3. net[e][i] \in Seq(Seg)
  BY <1>1, <1>2, ElementIs DEF Ways
<1>4. Append(net[e], net[e][i]) \in Ways
  BY <1>1, <1>3, AppendIs DEF Ways
<1>5. ASSUME NEW T, WayRight(net[e], kcp[Other(e)], T)
      PROVE  WayRight(Append(net[e], net[e][i]), kcp[Other(e)], T)
  <2>1. AllRight(net[e][i], kcp[Other(e)], T)
    BY <1>2, <1>5 DEF WayRight
  <2> QED BY <1>1, <1>3, <1>5, <2>1, WayAppend
<1> QED BY <1>2, <1>4, <1>5, NetKeeps

LEMMA TextIs ==
  ASSUME NEW m \in Text
  PROVE  Len(m) \in Nat /\ DOMAIN m = 1..Len(m) /\ \A i \in 1..Len(m) : m[i] \in Datum
BY ElementIs DEF Text

LEMMA TextsAre ==
  ASSUME NEW M \in Texts
  PROVE  Len(M) \in Nat /\ \A j \in 1..Len(M) : M[j] \in Text /\ Len(M[j]) \in Nat
<1>1. Len(M) \in Nat /\ \A j \in 1..Len(M) : M[j] \in Text
  BY ElementIs DEF Texts
<1> QED BY <1>1, TextIs

LEMMA TextsAppend ==
  ASSUME NEW M \in Texts, NEW m \in Text
  PROVE  /\ Append(M, m) \in Texts /\ Len(Append(M, m)) = Len(M) + 1
         /\ \A i \in 1..Len(M) : Append(M, m)[i] = M[i]
         /\ Append(M, m)[Len(M) + 1] = m
BY AppendIs DEF Texts

(* A message that is written: its pieces come behind those before.         *)
Items(m) == [i \in 1..Len(m) |-> [frg |-> Len(m) - i, data |-> m[i]]]

LEMMA ItemsAre ==
  ASSUME NEW m \in Text
  PROVE  /\ Items(m) \in Seq(Piece) /\ Len(Items(m)) = Len(m) /\ Len(m) \in Nat
         /\ \A i \in 1..Len(m) : Items(m)[i] = [frg |-> Len(m) - i, data |-> m[i]]
<1>1. Len(m) \in Nat /\ \A i \in 1..Len(m) : m[i] \in Datum
  BY TextIs
<1>2. ASSUME NEW i \in 1..Len(m) PROVE [frg |-> Len(m) - i, data |-> m[i]] \in Piece
  <2>1. Len(m) - i \in Nat /\ m[i] \in Datum
    BY <1>1
  <2> QED BY <2>1 DEF Piece
<1>3. Items(m) \in [1..Len(m) -> Piece]
  BY <1>2 DEF Items
<1>4. \A i \in 1..Len(m) : Items(m)[i] = [frg |-> Len(m) - i, data |-> m[i]]
  BY DEF Items
<1>5. Items(m) \in Seq(Piece) /\ Len(Items(m)) = Len(m)
  BY <1>1, <1>3, FunctionIs
<1> QED BY <1>1, <1>4, <1>5

LEMMA Within ==
  ASSUME NEW a \in Nat, NEW l \in Nat, NEW t \in Nat, a + l <= t, NEW i \in 1..l
  PROVE  a + i \in 1..t
OBVIOUS

(* No message begins behind the end.                                       *)
LEMMA CutWithin ==
  ASSUME NEW T \in Seq(Piece), NEW C \in Seq(Nat), NEW M \in Texts, Cut(T, C, M),
         NEW j \in 1..Len(M) + 1
  PROVE  C[j] \in Nat /\ C[j] <= Len(T)
<1> DEFINE n == Len(M)
           S == {d \in Nat : d <= n => C[n + 1 - d] <= Len(T)}
<1>1. /\ n \in Nat /\ Len(T) \in Nat /\ \A i \in 1..n + 1 : C[i] \in Nat
      /\ \A i \in 1..n : Len(M[i]) \in Nat
  <2>1. Len(C) = n + 1 /\ \A i \in 1..Len(C) : C[i] \in Nat
    BY ElementIs DEF Cut
  <2>2. n \in Nat /\ Len(T) \in Nat /\ \A i \in 1..n : Len(M[i]) \in Nat
    BY ElementIs, TextsAre
  <2> QED BY <2>1, <2>2
<1>0. n = Len(M)
  OBVIOUS
<1> HIDE DEF n
<1>2. 0 \in S
  <2>1. C[n + 1] = Len(T) /\ n + 1 - 0 = n + 1
    BY <1>0, <1>1 DEF Cut
  <2> QED BY <1>1, <2>1
<1>3. ASSUME NEW d \in S PROVE d + 1 \in S
  <2> SUFFICES ASSUME d + 1 <= n PROVE C[n + 1 - (d + 1)] <= Len(T)
    OBVIOUS
  <2> DEFINE x == n - d
  <2>1. x \in 1..n /\ n + 1 - (d + 1) = x /\ n + 1 - d = x + 1 /\ x + 1 \in 1..n + 1 /\ d <= n
    BY <1>1
  <2>2. C[x + 1] <= Len(T)
    BY <2>1
  <2> HIDE DEF x
  <2>3. C[x + 1] = C[x] + Len(M[x])
    BY <1>0, <2>1 DEF Cut
  <2>4. C[x] \in Nat /\ C[x + 1] \in Nat /\ Len(M[x]) \in Nat /\ Len(T) \in Nat
    BY <1>1, <2>1
  <2>5. C[x] <= Len(T)
    <3> DEFINE a == C[x]
               b == C[x + 1]
               l == Len(M[x])
               t == Len(T)
    <3>1. b <= t /\ b = a + l /\ a \in Nat /\ b \in Nat /\ l \in Nat /\ t \in Nat
      BY <2>2, <2>3, <2>4
    <3>2. a <= t
      <4> HIDE DEF a, b, l, t
      <4> QED BY <3>1
    <3> QED BY <3>2
  <2> QED BY <2>1, <2>5
<1>4. S = Nat
  <2> HIDE DEF S
  <2>1. S \in SUBSET Nat
    BY DEF S
  <2> QED BY <1>2, <1>3, <2>1, Induction
<1>5. j \in 1..n + 1
  BY <1>0
<1>6. n + 1 - j \in Nat /\ n + 1 - j <= n /\ n + 1 - (n + 1 - j) = j
  BY <1>1, <1>5
<1>7. C[n + 1 - (n + 1 - j)] <= Len(T)
  BY <1>4, <1>6
<1> QED BY <1>1, <1>5, <1>6, <1>7

LEMMA PiecesConcat ==
  ASSUME NEW T \in Seq(Piece), NEW x \in Seq(Piece)
  PROVE  /\ T \o x \in Seq(Piece) /\ Len(T \o x) = Len(T) + Len(x)
         /\ \A i \in 1..Len(T) : (T \o x)[i] = T[i]
         /\ \A i \in 1..Len(x) : (T \o x)[Len(T) + i] = x[i]
BY ConcatIs

LEMMA ItemsConcat ==
  ASSUME NEW T \in Seq(Piece), NEW m \in Text
  PROVE  /\ T \o Items(m) \in Seq(Piece) /\ Len(T \o Items(m)) = Len(T) + Len(m)
         /\ Len(T) \in Nat /\ Len(m) \in Nat
         /\ \A i \in 1..Len(T) : (T \o Items(m))[i] = T[i]
         /\ \A i \in 1..Len(m) : (T \o Items(m))[Len(T) + i] = Items(m)[i]
<1>1. PICK x : x = Items(m) /\ x \in Seq(Piece) /\ Len(x) = Len(m)
  BY ItemsAre
<1>2. x \in Seq(Piece)
  BY <1>1
<1>3. /\ T \o x \in Seq(Piece) /\ Len(T \o x) = Len(T) + Len(x)
      /\ \A i \in 1..Len(T) : (T \o x)[i] = T[i]
      /\ \A i \in 1..Len(x) : (T \o x)[Len(T) + i] = x[i]
  BY <1>2, PiecesConcat
<1>4. Len(T) \in Nat /\ Len(m) \in Nat
  BY ElementIs, TextIs
<1> QED BY <1>1, <1>3, <1>4, Zenon

LEMMA CutAppend ==
  ASSUME NEW T \in Seq(Piece), NEW C \in Seq(Nat), NEW M \in Texts, Cut(T, C, M),
         NEW m \in Text, Len(m) >= 1
  PROVE  /\ T \o Items(m) \in Seq(Piece) /\ Append(C, Len(T) + Len(m)) \in Seq(Nat)
         /\ Cut(T \o Items(m), Append(C, Len(T) + Len(m)), Append(M, m))
         /\ \A i \in 1..Len(M) + 1 : Append(C, Len(T) + Len(m))[i] = C[i]
<1> DEFINE P == T \o Items(m)
           B == Append(C, Len(T) + Len(m))
           L == Append(M, m)
<1>1. /\ Len(T) \in Nat /\ Len(m) \in Nat /\ Len(M) \in Nat /\ Len(C) = Len(M) + 1
      /\ \A i \in 1..Len(C) : C[i] \in Nat
      /\ \A j \in 1..Len(M) : Len(M[j]) \in Nat
  BY ElementIs, TextIs, TextsAre DEF Cut
<1>2. /\ P \in Seq(Piece) /\ Len(P) = Len(T) + Len(m)
      /\ \A i \in 1..Len(T) : P[i] = T[i]
      /\ \A i \in 1..Len(m) : P[Len(T) + i] = [frg |-> Len(m) - i, data |-> m[i]]
  <2>1. \A i \in 1..Len(m) : Items(m)[i] = [frg |-> Len(m) - i, data |-> m[i]]
    BY ItemsAre
  <2> QED BY <2>1, ItemsConcat
<1>3. /\ B \in Seq(Nat) /\ Len(B) = Len(M) + 2 /\ B[Len(M) + 2] = Len(T) + Len(m)
      /\ \A i \in 1..Len(M) + 1 : B[i] = C[i]
  <2>1. Len(T) + Len(m) \in Nat
    BY <1>1
  <2>2. /\ B \in Seq(Nat) /\ Len(B) = Len(C) + 1 /\ B[Len(C) + 1] = Len(T) + Len(m)
        /\ \A i \in 1..Len(C) : B[i] = C[i]
    BY <2>1, AppendIs
  <2> QED BY <1>1, <2>2
<1>4. /\ L \in Texts /\ Len(L) = Len(M) + 1 /\ L[Len(M) + 1] = m
      /\ \A i \in 1..Len(M) : L[i] = M[i]
  BY TextsAppend
<1> HIDE DEF P, B, L
<1>5. B[1] = 0 /\ Len(B) = Len(L) + 1 /\ B[Len(B)] = Len(P)
  BY <1>1, <1>2, <1>3, <1>4 DEF Cut
<1>6. C[Len(M) + 1] = Len(T)
  BY <1>1 DEF Cut
<1>7. ASSUME NEW j \in 1..Len(L)
      PROVE  /\ Len(L[j]) >= 1 /\ B[j + 1] = B[j] + Len(L[j])
             /\ \A i \in 1..Len(L[j]) : P[B[j] + i] = [frg |-> Len(L[j]) - i, data |-> L[j][i]]
  <2>1. CASE j \in 1..Len(M)
    <3>1. L[j] = M[j] /\ B[j] = C[j] /\ B[j + 1] = C[j + 1]
      <4>1. j \in 1..Len(M) + 1 /\ j + 1 \in 1..Len(M) + 1
        BY <1>1, <2>1
      <4> QED BY <1>3, <1>4, <2>1, <4>1
    <3>2. /\ Len(M[j]) >= 1 /\ C[j + 1] = C[j] + Len(M[j])
          /\ \A i \in 1..Len(M[j]) : T[C[j] + i] = [frg |-> Len(M[j]) - i, data |-> M[j][i]]
      BY <2>1 DEF Cut
    <3>3. \A i \in 1..Len(M[j]) : C[j] + i \in 1..Len(T)
      <4>1. C[j] \in Nat /\ C[j + 1] \in Nat /\ C[j + 1] <= Len(T)
        BY <1>1, <2>1, CutWithin
      <4>2. Len(M[j]) \in Nat
        BY <1>1, <2>1
      <4>3. C[j] + Len(M[j]) <= Len(T) /\ Len(T) \in Nat
        BY <1>1, <3>2, <4>1
      <4> QED BY <4>1, <4>2, <4>3, Within
    <3> QED BY <1>2, <3>1, <3>2, <3>3
  <2>2. CASE j = Len(M) + 1
    <3>1. L[j] = m /\ B[j] = Len(T) /\ B[j + 1] = Len(T) + Len(m)
      <4>1. Len(M) + 1 \in 1..Len(M) + 1 /\ j + 1 = Len(M) + 2
        BY <1>1, <2>2
      <4> QED BY <1>3, <1>4, <1>6, <2>2, <4>1
    <3>2. \A i \in 1..Len(m) : P[Len(T) + i] = [frg |-> Len(m) - i, data |-> m[i]]
      BY <1>2
    <3> QED BY <3>1, <3>2, Zenon
  <2>3. j \in 1..Len(M) \/ j = Len(M) + 1
    BY <1>1, <1>4
  <2> QED BY <2>1, <2>2, <2>3, Zenon
<1>8. Cut(P, B, L)
  BY <1>5, <1>7 DEF Cut
<1> QED BY <1>2, <1>3, <1>8 DEF P, B, L

(* Nothing that is right becomes wrong when more has been written.         *)
Extends(P, T) == Len(P) >= Len(T) /\ \A i \in 1..Len(T) : P[i] = T[i]

LEMMA OfGrows ==
  ASSUME NEW x, x.sn \in Nat, NEW T, NEW P, Len(T) \in Nat, Len(P) \in Nat,
         Extends(P, T), Of(x, T)
  PROVE  Of(x, P)
<1>1. x.sn + 1 \in 1..Len(T)
  BY DEF Of
<1> QED BY <1>1 DEF Of, Extends

LEMMA WayOfMore ==
  ASSUME NEW way \in Ways, NEW k, NEW T, NEW P, Len(T) \in Nat, Len(P) \in Nat,
         Extends(P, T), WayRight(way, k, T)
  PROVE  WayRight(way, k, P)
<1> SUFFICES ASSUME NEW i \in 1..Len(way), NEW j \in 1..Len(way[i])
             PROVE  SegRight(way[i][j], k, P)
  BY DEF WayRight, AllRight
<1> DEFINE seg == way[i][j]
<1>1. seg \in Seg
  <2>1. way[i] \in Seq(Seg)
    BY ElementIs DEF Ways
  <2> QED BY <2>1, ElementIs
<1>2. SegRight(seg, k, T)
  BY DEF WayRight, AllRight
<1> HIDE DEF seg
<1>3. seg.sn \in Nat
  BY <1>1 DEF Seg
<1>4. Of(seg, T) => Of(seg, P)
  BY <1>3, OfGrows
<1>5. SegRight(seg, k, P)
  BY <1>2, <1>4 DEF SegRight
<1> QED BY <1>5 DEF seg

LEMMA SendRight ==
  ASSUME NEW k \in Block, NEW r \in Block, NEW M \in Texts, NEW n \in Nat,
         NEW way \in Ways, NEW T, NEW C, Right(k, r, M, n, way, T, C),
         NEW m \in Text, Len(m) >= 1,
         NEW x, SameReceiver(k, x), x.snd_una = k.snd_una, x.snd_nxt = k.snd_nxt,
         x.snd_buf = k.snd_buf, x.snd_queue = k.snd_queue \o Items(m)
  PROVE  Right(x, r, Append(M, m), n, way, T \o Items(m), Append(C, Len(T) + Len(m)))
<1> DEFINE P == T \o Items(m)
           B == Append(C, Len(T) + Len(m))
           q == k.snd_queue \o Items(m)
<1>1. /\ T \in Seq(Piece) /\ C \in Seq(Nat) /\ Cut(T, C, M) /\ n <= Len(M)
      /\ SndQueueRight(k.snd_queue, k.snd_nxt, T)
      /\ SndBufRight(k.snd_buf, k.snd_una, k.snd_nxt, T)
      /\ RcvBufRight(r.rcv_buf, r.rcv_nxt, k.snd_nxt, T)
      /\ RcvQueueRight(r.rcv_queue, r.rcv_nxt, C[n + 1], T)
      /\ WayRight(way, k, T)
  BY DEF Right
<1>2. /\ k.snd_queue \in Seq(Piece) /\ k.snd_nxt \in Nat /\ r.rcv_nxt \in Nat
      /\ k.snd_buf \in Seq(OutSeg) /\ r.rcv_buf \in Seq(InSeg) /\ r.rcv_queue \in Seq(Piece)
  BY BlockIs
<1>3. /\ Items(m) \in Seq(Piece) /\ Len(Items(m)) = Len(m)
      /\ Len(T) \in Nat /\ Len(m) \in Nat /\ Len(M) \in Nat /\ Len(k.snd_queue) \in Nat
  BY <1>1, <1>2, ItemsAre, ElementIs, TextsAre
<1>4. /\ P \in Seq(Piece) /\ B \in Seq(Nat) /\ Cut(P, B, Append(M, m))
      /\ \A i \in 1..Len(M) + 1 : B[i] = C[i]
  BY <1>1, CutAppend
<1>5. /\ Len(P) = Len(T) + Len(m) /\ \A i \in 1..Len(T) : P[i] = T[i]
      /\ \A i \in 1..Len(m) : P[Len(T) + i] = Items(m)[i]
  BY <1>1, ItemsConcat
<1>6. /\ q \in Seq(Piece) /\ Len(q) = Len(k.snd_queue) + Len(m)
      /\ \A i \in 1..Len(k.snd_queue) : q[i] = k.snd_queue[i]
      /\ \A i \in 1..Len(m) : q[Len(k.snd_queue) + i] = Items(m)[i]
  BY <1>2, ItemsConcat
<1> HIDE DEF P, B, q
<1>7. Len(P) \in Nat /\ Extends(P, T)
  BY <1>3, <1>5 DEF Extends
<1>8. SndQueueRight(q, k.snd_nxt, P)
  <2>1. Len(T) = k.snd_nxt + Len(k.snd_queue)
        /\ \A i \in 1..Len(k.snd_queue) : k.snd_queue[i] = T[k.snd_nxt + i]
    BY <1>1 DEF SndQueueRight
  <2>2. ASSUME NEW i \in 1..Len(q) PROVE q[i] = P[k.snd_nxt + i]
    <3>1. CASE i \in 1..Len(k.snd_queue)
      <4>1. k.snd_nxt + i \in 1..Len(T)
        <5>1. k.snd_nxt \in Nat /\ Len(k.snd_queue) \in Nat /\ Len(T) \in Nat
          BY <1>2, <1>3
        <5>2. k.snd_nxt + Len(k.snd_queue) <= Len(T)
          BY <2>1, <5>1
        <5> QED BY ONLY <3>1, <5>1, <5>2, Within
      <4> QED BY <1>5, <1>6, <2>1, <3>1, <4>1
    <3>2. CASE i - Len(k.snd_queue) \in 1..Len(m)
      <4> DEFINE j == i - Len(k.snd_queue)
      <4>1. Len(k.snd_queue) + j = i /\ Len(T) + j = k.snd_nxt + i
        <5>1. k.snd_nxt \in Nat /\ Len(k.snd_queue) \in Nat /\ i \in Int
          BY <1>2, <1>3, <1>6
        <5>2. Len(T) = k.snd_nxt + Len(k.snd_queue)
          BY <2>1
        <5> QED BY ONLY <5>1, <5>2
      <4>2. q[Len(k.snd_queue) + j] = P[Len(T) + j]
        BY <1>5, <1>6, <3>2
      <4> QED BY <4>1, <4>2
    <3>3. i \in 1..Len(k.snd_queue) \/ i - Len(k.snd_queue) \in 1..Len(m)
      BY <1>3, <1>6
    <3> QED BY <3>1, <3>2, <3>3
  <2>3. Len(P) = k.snd_nxt + Len(q)
    <3>1. Len(P) = Len(T) + Len(m) /\ Len(q) = Len(k.snd_queue) + Len(m)
      BY <1>5, <1>6
    <3>2. Len(T) = k.snd_nxt + Len(k.snd_queue)
      BY <2>1
    <3>3. k.snd_nxt \in Nat /\ Len(k.snd_queue) \in Nat /\ Len(m) \in Nat
      BY <1>2, <1>3
    <3> QED BY <3>1, <3>2, <3>3
  <2> QED BY <2>2, <2>3 DEF SndQueueRight
<1>9. SndBufRight(k.snd_buf, k.snd_una, k.snd_nxt, P)
  <2>1. ASSUME NEW i \in 1..Len(k.snd_buf) PROVE Of(k.snd_buf[i], P)
    <3>1. k.snd_buf[i].sn \in Nat
      BY <1>2, ElementIs, SegmentsAreNumbered DEF Numbered
    <3>2. Of(k.snd_buf[i], T)
      BY <1>1 DEF SndBufRight
    <3> QED BY <1>3, <1>7, <3>1, <3>2, OfGrows
  <2> QED BY <1>1, <2>1 DEF SndBufRight
<1>10. RcvBufRight(r.rcv_buf, r.rcv_nxt, k.snd_nxt, P)
  <2>1. ASSUME NEW i \in 1..Len(r.rcv_buf) PROVE Of(r.rcv_buf[i], P)
    <3>1. r.rcv_buf[i].sn \in Nat
      BY <1>2, ElementIs, SegmentsAreNumbered DEF Numbered
    <3>2. Of(r.rcv_buf[i], T)
      BY <1>1 DEF RcvBufRight
    <3> QED BY <1>3, <1>7, <3>1, <3>2, OfGrows
  <2> QED BY <1>1, <2>1 DEF RcvBufRight
<1>11. RcvQueueRight(r.rcv_queue, r.rcv_nxt, B[n + 1], P)
  <2>1. n + 1 \in 1..Len(M) + 1 /\ B[n + 1] = C[n + 1] /\ C[n + 1] \in Nat
    BY <1>1, <1>3, <1>4, StartIs
  <2> DEFINE s == C[n + 1]
             w == r.rcv_queue
  <2>2. /\ Len(w) <= RcvWnd /\ r.rcv_nxt = s + Len(w) /\ \A i \in 1..Len(w) : w[i] = T[s + i]
    BY <1>1 DEF RcvQueueRight
  <2>3. s + Len(w) <= Len(T) /\ Len(w) \in Nat
    <3>1. r.rcv_nxt <= k.snd_nxt /\ Len(T) = k.snd_nxt + Len(k.snd_queue)
      BY <1>1 DEF RcvBufRight, SndQueueRight
    <3>2. Len(w) \in Nat
      BY <1>2, ElementIs
    <3> QED BY <1>2, <1>3, <2>2, <3>1, <3>2
  <2>4. s \in Nat
    BY <2>1
  <2> HIDE DEF s, w
  <2>5. \A i \in 1..Len(w) : s + i \in 1..Len(T)
    BY <1>3, <2>3, <2>4, Within
  <2>6. RcvQueueRight(w, r.rcv_nxt, s, P)
    BY <1>5, <2>2, <2>5 DEF RcvQueueRight
  <2> QED BY <2>1, <2>6 DEF s, w
<1>12. WayRight(way, x, P)
  <2>1. WayRight(way, k, P)
    BY <1>1, <1>3, <1>7, WayOfMore
  <2> QED BY <2>1 DEF WayRight, AllRight, SegRight, SameReceiver, SameBuffers
<1>13. n <= Len(Append(M, m))
  <2>1. Len(Append(M, m)) = Len(M) + 1
    BY TextsAppend
  <2> QED BY <1>1, <1>3, <2>1
<1>14. Kept(k.snd_buf, k.snd_nxt, r.rcv_buf, r.rcv_nxt) /\ AcksRight(k.acklist, k.rcv_buf, k.rcv_nxt)
  BY DEF Right
<1>15. x.snd_queue = q
  BY DEF q
<1>16. Right(x, r, Append(M, m), n, way, P, B)
  BY <1>4, <1>8, <1>9, <1>10, <1>11, <1>12, <1>13, <1>14, <1>15
     DEF Right, SameReceiver, SameBuffers
<1> QED BY <1>16 DEF P, B

LEMMA MessageIs ==
  ASSUME NEW j \in Nat, NEW n \in Nat
  PROVE  Message(j, n) \in Text /\ Len(Message(j, n)) = n
<1>1. \A i \in 1..n : <<j, i>> \in Datum
  BY DEF Datum
<1>2. Message(j, n) \in [1..n -> Datum]
  BY <1>1 DEF Message
<1> QED BY <1>2, FunctionIs DEF Text

LEMMA SendKeeps ==
  ASSUME KcpInv, NEW e \in Ends, Send(e)
  PROVE  KcpInv'
<1> DEFINE o == Other(e)
<1>1. o \in Ends /\ o # e
  BY OtherIs
<1>2. /\ kcp[e] \in Block /\ kcp[o] \in Block /\ net[e] \in Ways /\ net[o] \in Ways
      /\ sent[e] \in Texts /\ Len(sent[e]) \in Nat /\ Len(got[o]) \in Nat
  BY <1>1, TypesOf
<1>3. PICK n \in 1..WND_RCV :
        LET m == Message(Len(sent[e]) + 1, n)
        IN  /\ sent' = [sent EXCEPT ![e] = Append(@, m)]
            /\ kcp' = [kcp EXCEPT ![e].snd_queue = @ \o
                         [i \in 1..n |-> [frg |-> n - i, data |-> m[i]]]]
  BY DEF Send
<1>4. UNCHANGED <<net, mode, got>>
  BY DEF Send
<1> DEFINE m == Message(Len(sent[e]) + 1, n)
           q == kcp[e].snd_queue \o Items(m)
           x == [kcp[e] EXCEPT !.snd_queue = q]
<1>5. m \in Text /\ Len(m) = n /\ Len(m) >= 1
  BY <1>2, WindowsAre, MessageIs
<1>6. sent' = [sent EXCEPT ![e] = Append(sent[e], m)] /\ kcp' = [kcp EXCEPT ![e] = x]
  BY <1>3, <1>5 DEF Items
<1> HIDE DEF m
<1>7. q \in Seq(Piece)
  <2>1. kcp[e].snd_queue \in Seq(Piece) /\ Items(m) \in Seq(Piece)
    BY <1>2, <1>5, BlockIs, ItemsAre
  <2> QED BY <2>1, PiecesConcat
<1> HIDE DEF q
<1>8. /\ x \in Block /\ SameReceiver(kcp[e], x) /\ x.snd_una = kcp[e].snd_una
      /\ x.snd_nxt = kcp[e].snd_nxt /\ x.snd_buf = kcp[e].snd_buf /\ x.snd_queue = q
  BY <1>2, <1>7 DEF Block, SameReceiver, SameBuffers
<1> HIDE DEF x
<1>9. PICK T, C : Right(kcp[e], kcp[o], sent[e], Len(got[o]), net[o], T, C)
  BY Directions
<1>10. PICK U, D : Right(kcp[o], kcp[e], sent[o], Len(got[e]), net[e], U, D)
  BY Directions
<1>11. \E P, B : Right(x, kcp[o], Append(sent[e], m), Len(got[o]), net[o], P, B)
  <2>1. x.snd_queue = kcp[e].snd_queue \o Items(m)
    BY <1>8 DEF q
  <2>2. Right(x, kcp[o], Append(sent[e], m), Len(got[o]), net[o],
              T \o Items(m), Append(C, Len(T) + Len(m)))
    BY <1>2, <1>5, <1>8, <1>9, <2>1, SendRight
  <2> QED BY <2>2
<1>12. Right(kcp[o], x, sent[o], Len(got[e]), net[e], U, D)
  BY <1>8, <1>10 DEF Right, SameReceiver, SameBuffers
<1>13. /\ kcp'[e] = x /\ kcp'[o] = kcp[o] /\ sent'[e] = Append(sent[e], m) /\ sent'[o] = sent[o]
       /\ net' = net /\ got' = got
  BY <1>1, <1>4, <1>6 DEF KcpInv, KcpTypes
<1>14. KcpTypes'
  <2>1. Append(sent[e], m) \in Texts
    BY <1>2, <1>5, TextsAppend
  <2>2. kcp' \in [Ends -> Block]
    BY <1>6, <1>8 DEF KcpInv, KcpTypes
  <2>3. sent' \in [Ends -> Texts]
    BY <1>6, <2>1 DEF KcpInv, KcpTypes
  <2>4. net' \in [Ends -> Seq(Seq(Seg))] /\ mode' \in Modes /\ got' \in [Ends -> Texts]
    BY <1>4 DEF KcpInv, KcpTypes
  <2> QED BY <2>2, <2>3, <2>4 DEF KcpTypes
<1>15. \E P, B : Right(kcp[e], kcp[o], sent[e], Len(got[o]), net[o], P, B)'
  BY <1>11, <1>13
<1>16. Right(kcp[o], kcp[e], sent[o], Len(got[e]), net[e], U, D)'
  BY <1>12, <1>13
<1> HIDE DEF o
<1> QED BY <1>14, <1>15, <1>16, BothRight DEF o

(* A reader that has the whole of the first message has what was written   *)
(* next.                                                                   *)
LEMMA NextMessage ==
  ASSUME NEW k \in Block, NEW o \in Block, NEW L \in Texts, NEW m \in Nat, NEW way,
         NEW U, NEW D, Right(o, k, L, m, way, U, D), Complete(k)
  PROVE  /\ m < Len(L) /\ Len(L[m + 1]) \in 1..Len(k.rcv_queue)
         /\ FirstMessage(k.rcv_queue) = SubSeq(k.rcv_queue, 1, Len(L[m + 1]))
         /\ Len(FirstMessage(k.rcv_queue)) = Len(L[m + 1])
         /\ DOMAIN FirstMessage(k.rcv_queue) = 1..Len(L[m + 1])
         /\ [i \in DOMAIN FirstMessage(k.rcv_queue) |-> FirstMessage(k.rcv_queue)[i].data] = L[m + 1]
         /\ RcvQueueRight(SubSeq(k.rcv_queue, Len(L[m + 1]) + 1, Len(k.rcv_queue)),
                          k.rcv_nxt, D[m + 2], U)
<1> DEFINE q == k.rcv_queue
           s == D[m + 1]
           l == L[m + 1]
           n == Len(l)
           first == FirstMessage(q)
           rest == SubSeq(q, n + 1, Len(q))
<1>1. q \in Seq(Piece) /\ Len(q) \in Nat /\ k.rcv_nxt \in Nat /\ o.snd_nxt \in Nat
      /\ o.snd_queue \in Seq(Piece) /\ Len(o.snd_queue) \in Nat
  BY BlockIs, ElementIs
<1>2. /\ U \in Seq(Piece) /\ D \in Seq(Nat) /\ Cut(U, D, L) /\ m <= Len(L)
      /\ Len(U) = o.snd_nxt + Len(o.snd_queue) /\ k.rcv_nxt <= o.snd_nxt
      /\ RcvQueueRight(q, k.rcv_nxt, s, U)
  BY DEF Right, SndQueueRight, RcvBufRight
<1>3. Len(L) \in Nat /\ s \in Nat /\ Len(U) \in Nat
  <2>1. Len(L) \in Nat
    BY TextsAre
  <2> QED BY <1>2, <2>1, StartIs, ElementIs
<1>4. q # <<>> /\ Len(q) >= Head(q).frg + 1
  BY DEF Complete
<1>5. Len(q) >= 1 /\ Head(q) = q[1]
  BY <1>1, <1>4
<1>6. /\ Len(q) <= RcvWnd /\ k.rcv_nxt = s + Len(q) /\ \A i \in 1..Len(q) : q[i] = U[s + i]
  BY <1>2 DEF RcvQueueRight
<1> HIDE DEF q, s
<1>7. m < Len(L)
  <2> SUFFICES ASSUME m = Len(L) PROVE FALSE
    BY <1>2, <1>3
  <2>1. s = Len(U)
    BY <1>2 DEF Cut, s
  <2> QED BY <1>1, <1>2, <1>3, <1>5, <1>6, <2>1
<1>8. m + 1 \in 1..Len(L) /\ m + 2 = (m + 1) + 1
  BY <1>3, <1>7
<1>9. l \in Text /\ n \in Nat /\ \A i \in 1..n : l[i] \in Datum
  BY <1>8, TextsAre, TextIs
<1>10. /\ n >= 1 /\ D[m + 2] = s + n
       /\ \A i \in 1..n : U[s + i] = [frg |-> n - i, data |-> l[i]]
  <2>1. /\ Len(L[m + 1]) >= 1 /\ D[(m + 1) + 1] = D[m + 1] + Len(L[m + 1])
        /\ \A i \in 1..Len(L[m + 1]) :
             U[D[m + 1] + i] = [frg |-> Len(L[m + 1]) - i, data |-> L[m + 1][i]]
    BY <1>2, <1>8 DEF Cut
  <2> QED BY <1>8, <2>1 DEF s
<1> HIDE DEF l, n
<1>11. n <= Len(q)
  <2>1. 1 \in 1..n /\ 1 \in 1..Len(q)
    BY <1>1, <1>5, <1>9, <1>10
  <2>2. q[1] = [frg |-> n - 1, data |-> l[1]]
    BY <1>6, <1>10, <2>1
  <2>3. Len(q) >= (n - 1) + 1
    BY <1>4, <1>5, <2>2
  <2> QED BY <1>1, <1>9, <2>3
<1>12. \A i \in 1..n : i \in 1..Len(q) /\ q[i].frg = n - i /\ q[i].data = l[i]
  <2> SUFFICES ASSUME NEW i \in 1..n
               PROVE  i \in 1..Len(q) /\ q[i].frg = n - i /\ q[i].data = l[i]
    OBVIOUS
  <2>1. i \in 1..Len(q)
    BY <1>1, <1>9, <1>11
  <2>2. q[i] = [frg |-> n - i, data |-> l[i]]
    BY <1>6, <1>10, <2>1
  <2> QED BY <2>1, <2>2
<1>13. first = SubSeq(q, 1, n)
  <2>1. n \in 1..Len(q)
    BY <1>1, <1>9, <1>10, <1>11
  <2>2. q[n].frg = 0
    BY <1>9, <1>10, <1>12
  <2>3. \A i \in 1..n - 1 : q[i].frg # 0
    BY <1>9, <1>12
  <2> QED BY <1>1, <2>1, <2>2, <2>3, FirstMessageIs
<1>14. /\ first \in Seq(Piece) /\ Len(first) = n /\ \A i \in 1..n : first[i] = q[i]
       /\ DOMAIN first = 1..n
  <2>1. n \in 0..Len(q)
    BY <1>1, <1>9, <1>11
  <2>2. first \in Seq(Piece) /\ Len(first) = n /\ \A i \in 1..n : first[i] = q[i]
    BY <1>1, <1>13, <2>1, PrefixIs
  <2> HIDE DEF first
  <2> QED BY <2>2, ElementIs
<1> HIDE DEF first
<1>15. [i \in DOMAIN first |-> first[i].data] = l
  <2>1. l = [i \in 1..n |-> l[i]]
    BY <1>9 DEF Text, n
  <2>2. \A i \in 1..n : first[i].data = l[i]
    BY <1>12, <1>14
  <2> QED BY <1>14, <2>1, <2>2
<1>16. RcvQueueRight(rest, k.rcv_nxt, D[m + 2], U)
  <2>1. n \in 0..Len(q)
    BY <1>1, <1>9, <1>11
  <2>2. /\ Len(rest) = Len(q) - n
        /\ \A i \in 1..Len(rest) : n + i \in 1..Len(q) /\ rest[i] = q[n + i]
    BY <1>1, <2>1, RestIs
  <2> HIDE DEF rest
  <2>3. ASSUME NEW i \in 1..Len(rest) PROVE rest[i] = U[(s + n) + i]
    <3>1. s + (n + i) = (s + n) + i
      BY <1>1, <1>3, <1>9, <2>2
    <3> QED BY <1>6, <2>2, <3>1
  <2>4. Len(rest) <= RcvWnd /\ k.rcv_nxt = (s + n) + Len(rest)
    BY <1>1, <1>3, <1>6, <1>9, <2>2, WindowsAre
  <2> QED BY <1>10, <2>3, <2>4 DEF RcvQueueRight
<1>17. n \in 1..Len(q)
  BY <1>1, <1>9, <1>10, <1>11
<1> QED BY <1>7, <1>13, <1>14, <1>15, <1>16, <1>17 DEF first, n, l, q

LEMMA AcksStay ==
  ASSUME NEW k \in Block, NEW r, Grows(r, k), AcksRight(k.acklist, k.rcv_buf, k.rcv_nxt)
  PROVE  AcksRight(k.acklist, r.rcv_buf, r.rcv_nxt)
<1>1. \A i \in 1..Len(k.acklist) : k.acklist[i] \in Nat
  BY BlockIs, ElementIs
<1> QED BY <1>1 DEF AcksRight, Grows

(* The block after a message has been read.                                *)
LEMMA ReadKeeps ==
  ASSUME NEW k \in Block, NEW o \in Block, NEW M, NEW n, NEW way, NEW T, NEW C,
         Right(k, o, M, n, way, T, C),
         NEW L \in Texts, NEW m \in Nat, NEW back, NEW U, NEW D, Right(o, k, L, m, back, U, D),
         Complete(k), NEW x,
         x = [k EXCEPT !.rcv_queue = SubSeq(@, Len(FirstMessage(k.rcv_queue)) + 1, Len(@))]
  PROVE  m + 1 <= Len(L) /\ Good(MoveReady(x), k, o, T, U, D[(m + 1) + 1])
<1> DEFINE l == Len(L[m + 1])
           rest == SubSeq(k.rcv_queue, l + 1, Len(k.rcv_queue))
           r == MoveReady(x)
<1>1. /\ m < Len(L) /\ l \in 1..Len(k.rcv_queue) /\ Len(FirstMessage(k.rcv_queue)) = l
      /\ RcvQueueRight(rest, k.rcv_nxt, D[m + 2], U)
  BY NextMessage
<1>2. k.rcv_queue \in Seq(Piece) /\ Len(k.rcv_queue) \in Nat /\ k.rcv_nxt \in Nat /\ o.snd_nxt \in Nat
  BY BlockIs, ElementIs
<1>3. rest \in Seq(Piece)
  <2>1. l \in 0..Len(k.rcv_queue)
    BY <1>1, <1>2
  <2> HIDE DEF l
  <2> QED BY <1>2, <2>1, RestIs
<1>4. x = [k EXCEPT !.rcv_queue = rest]
  BY <1>1
<1> HIDE DEF l, rest
<1>5. /\ x \in Block /\ SameSender(k, x) /\ x.acklist = k.acklist
      /\ x.rcv_queue = rest /\ x.rcv_buf = k.rcv_buf /\ x.rcv_nxt = k.rcv_nxt
  BY <1>3, <1>4 DEF Block, SameSender
<1>6. /\ U \in Seq(Piece) /\ D \in Seq(Nat) /\ Cut(U, D, L) /\ Len(L) \in Nat
      /\ RcvBufRight(k.rcv_buf, k.rcv_nxt, o.snd_nxt, U)
  BY TextsAre DEF Right
<1>7. m + 2 = (m + 1) + 1 /\ m + 1 \in Nat /\ m + 1 <= Len(L) /\ D[(m + 1) + 1] \in Nat
  <2>1. m < Len(L) /\ Len(L) \in Nat
    BY <1>1, <1>6
  <2>2. m + 2 = (m + 1) + 1 /\ m + 1 \in Nat /\ m + 1 <= Len(L)
    BY <2>1
  <2> QED BY <1>6, <2>2, StartIs
<1>8. D[m + 2] = D[(m + 1) + 1]
  BY <1>7
<1>9. /\ r \in Block /\ SameSender(x, r) /\ r.acklist = x.acklist
      /\ RcvBufRight(r.rcv_buf, r.rcv_nxt, o.snd_nxt, U)
      /\ RcvQueueRight(r.rcv_queue, r.rcv_nxt, D[(m + 1) + 1], U)
      /\ Grows(r, x)
  <2> DEFINE start == D[(m + 1) + 1]
  <2>1. start \in Nat /\ RcvQueueRight(x.rcv_queue, x.rcv_nxt, start, U)
        /\ RcvBufRight(x.rcv_buf, x.rcv_nxt, o.snd_nxt, U)
    BY <1>1, <1>5, <1>6, <1>7, <1>8
  <2> HIDE DEF start
  <2>2. /\ r \in Block /\ SameSender(x, r) /\ r.acklist = x.acklist
        /\ RcvBufRight(r.rcv_buf, r.rcv_nxt, o.snd_nxt, U)
        /\ RcvQueueRight(r.rcv_queue, r.rcv_nxt, start, U)
        /\ Grows(r, x)
    BY <1>2, <1>5, <1>6, <2>1, MoveReadyKeeps DEF Grows
  <2> QED BY <2>2 DEF start
<1> HIDE DEF r
<1>10. SameSender(k, r) /\ r.acklist = k.acklist /\ Grows(r, k)
  BY <1>5, <1>9 DEF SameSender, Grows
<1>11. AcksRight(r.acklist, r.rcv_buf, r.rcv_nxt)
  <2>1. AcksRight(k.acklist, k.rcv_buf, k.rcv_nxt)
    BY DEF Right
  <2> QED BY <1>10, <2>1, AcksStay
<1>12. Sends(r, o, T)
  BY <1>10 DEF Right, Sends, SameSender
<1>13. r.snd_nxt = k.snd_nxt /\ r.snd_queue = k.snd_queue
  BY <1>10 DEF SameSender
<1>14. Good(r, k, o, T, U, D[(m + 1) + 1])
  BY <1>9, <1>10, <1>11, <1>12, <1>13 DEF Good, Receives
<1> QED BY <1>7, <1>14 DEF r

LEMMA RecvReads ==
  ASSUME KcpInv, NEW e \in Ends, Recv(e)
  PROVE  /\ Len(got[e]) < Len(sent[Other(e)])
         /\ sent[Other(e)][Len(got[e]) + 1] \in Text
         /\ got' = [got EXCEPT ![e] = Append(@, sent[Other(e)][Len(@) + 1])]
         /\ sent' = sent
<1> DEFINE o == Other(e)
           m == Len(got[e])
           first == FirstMessage(kcp[e].rcv_queue)
<1>1. o \in Ends
  BY OtherIs
<1>2. kcp[e] \in Block /\ kcp[o] \in Block /\ sent[o] \in Texts /\ m \in Nat /\ got[e] \in Texts
  BY <1>1, TypesOf
<1>3. PICK U, D : Right(kcp[o], kcp[e], sent[o], m, net[e], U, D)
  BY Directions
<1>4. Complete(kcp[e]) /\ sent' = sent
      /\ got' = [got EXCEPT ![e] = Append(@, [i \in DOMAIN first |-> first[i].data])]
  BY DEF Recv
<1>5. m < Len(sent[o]) /\ [i \in DOMAIN first |-> first[i].data] = sent[o][m + 1]
  BY <1>2, <1>3, <1>4, NextMessage
<1> HIDE DEF first
<1>6. m + 1 \in 1..Len(sent[o]) /\ sent[o][m + 1] \in Text
  <2>1. Len(sent[o]) \in Nat /\ \A j \in 1..Len(sent[o]) : sent[o][j] \in Text
    BY <1>2, TextsAre
  <2> QED BY <1>2, <1>5, <2>1
<1> QED BY <1>4, <1>5, <1>6

LEMMA RecvKeeps ==
  ASSUME KcpInv, NEW e \in Ends, Recv(e)
  PROVE  KcpInv'
<1> DEFINE o == Other(e)
           n == Len(got[o])
           m == Len(got[e])
           k == kcp[e]
           x == [k EXCEPT !.rcv_queue = SubSeq(@, Len(FirstMessage(k.rcv_queue)) + 1, Len(@))]
           moved == MoveReady(x)
           tell == [moved EXCEPT !.probe = @ \cup {"tell"}]
<1>1. o \in Ends /\ o # e
  BY OtherIs
<1>2. /\ k \in Block /\ kcp[o] \in Block /\ net[e] \in Ways /\ net[o] \in Ways
      /\ sent[o] \in Texts /\ m \in Nat /\ n \in Nat /\ got[e] \in Texts
  BY <1>1, TypesOf
<1>3. PICK T, C : Right(k, kcp[o], sent[e], n, net[o], T, C)
  BY Directions
<1>4. PICK U, D : Right(kcp[o], k, sent[o], m, net[e], U, D)
  BY Directions
<1>5. Complete(k) /\ UNCHANGED <<net, mode, sent>>
  BY DEF Recv
<1>6. PICK r \in {moved, tell} : kcp' = [kcp EXCEPT ![e] = r]
  BY DEF Recv
<1>7. m + 1 <= Len(sent[o]) /\ Good(moved, k, kcp[o], T, U, D[(m + 1) + 1])
  BY <1>2, <1>3, <1>4, <1>5, ReadKeeps
<1> HIDE DEF moved
<1>8. Good(r, k, kcp[o], T, U, D[(m + 1) + 1])
  <2>1. moved \in Block
    BY <1>7 DEF Good
  <2>2. tell \in Block /\ SameSender(moved, tell) /\ SameReceiver(moved, tell)
    BY <2>1 DEF Block, SameSender, SameReceiver, SameBuffers
  <2> HIDE DEF tell
  <2>3. Good(tell, k, kcp[o], T, U, D[(m + 1) + 1])
    BY <1>7, <2>2, NothingChanges
  <2> QED BY <1>6, <1>7, <2>3
<1> HIDE DEF tell
<1>9. WayRight(net[e], kcp[o], U)
  BY <1>4 DEF Right
<1>10. /\ Right(r, kcp[o], sent[e], n, net[o], T, C)
       /\ Right(kcp[o], r, sent[o], m + 1, net[e], U, D)
  <2>1. m + 1 \in Nat
    BY <1>2
  <2> HIDE DEF m, n, k, o
  <2> QED BY <1>2, <1>3, <1>4, <1>7, <1>8, <1>9, <2>1, GoodRight
<1>11. /\ got' = [got EXCEPT ![e] = Append(got[e], sent[o][m + 1])]
       /\ Append(got[e], sent[o][m + 1]) \in Texts
       /\ Len(Append(got[e], sent[o][m + 1])) = m + 1
  <2>1. sent[o][m + 1] \in Text /\ got' = [got EXCEPT ![e] = Append(got[e], sent[o][m + 1])]
    BY RecvReads
  <2> QED BY <1>2, <2>1, TextsAppend
<1>12. /\ kcp'[e] = r /\ kcp'[o] = kcp[o] /\ Len(got'[e]) = m + 1 /\ got'[o] = got[o]
       /\ net' = net /\ sent' = sent
  <2>1. kcp'[e] = r /\ kcp'[o] = kcp[o]
    BY <1>1, <1>6 DEF KcpInv, KcpTypes
  <2>2. got'[e] = Append(got[e], sent[o][m + 1]) /\ got'[o] = got[o]
    BY <1>1, <1>11 DEF KcpInv, KcpTypes
  <2> QED BY <1>5, <1>11, <2>1, <2>2
<1>13. KcpTypes'
  <2>1. kcp' \in [Ends -> Block]
    BY <1>6, <1>8 DEF KcpInv, KcpTypes, Good
  <2>2. got' \in [Ends -> Texts]
    BY <1>11 DEF KcpInv, KcpTypes
  <2> QED BY <1>5, <2>1, <2>2 DEF KcpInv, KcpTypes
<1>14. Right(kcp[e], kcp[o], sent[e], Len(got[o]), net[o], T, C)'
  BY <1>10, <1>12
<1>15. Right(kcp[o], kcp[e], sent[o], Len(got[e]), net[e], U, D)'
  BY <1>10, <1>12
<1> HIDE DEF o, k, m, n
<1> QED BY <1>13, <1>14, <1>15, BothRight DEF o
------------------------------------------------------------------------------
(* Flush: what is admitted into the window                                 *)

LEMMA ProbeIs ==
  ASSUME NEW k \in Block, NEW expired
  PROVE  Probe(k, expired) \in Block /\ SameSender(k, Probe(k, expired))
         /\ SameReceiver(k, Probe(k, expired))
<1> DEFINE asked == [k EXCEPT !.probe = @ \cup {"ask"}]
           waits == [k EXCEPT !.probe_wait = TRUE]
           stops == [k EXCEPT !.probe_wait = FALSE]
<1>1. asked \in Block /\ SameSender(k, asked) /\ SameReceiver(k, asked)
  BY DEF Block, SameSender, SameReceiver, SameBuffers
<1>2. waits \in Block /\ SameSender(k, waits) /\ SameReceiver(k, waits)
  BY DEF Block, SameSender, SameReceiver, SameBuffers
<1>3. stops \in Block /\ SameSender(k, stops) /\ SameReceiver(k, stops)
  BY DEF Block, SameSender, SameReceiver, SameBuffers
<1>4. SameSender(k, k) /\ SameReceiver(k, k)
  BY DEF SameSender, SameReceiver, SameBuffers
<1>5. Probe(k, expired) \in {asked, waits, stops, k}
  BY DEF Probe
<1> HIDE DEF asked, waits, stops
<1> QED BY <1>1, <1>2, <1>3, <1>4, <1>5

LEMMA SendWindowIs ==
  ASSUME NEW k \in Block
  PROVE  SendWindow(k) \in Nat /\ SendWindow(k) <= SndWnd
<1> DEFINE wnd == Least(SndWnd, k.rmt_wnd)
<1>1. k.rmt_wnd \in Nat /\ k.cwnd \in Nat /\ SndWnd \in Nat
  BY WindowsAre DEF Block
<1>2. wnd \in Nat /\ wnd <= SndWnd
  BY <1>1, LeastIsNat
<1>3. SendWindow(k) = wnd \/ SendWindow(k) = Least(k.cwnd, wnd)
  BY DEF SendWindow
<1> HIDE DEF wnd
<1>4. Least(k.cwnd, wnd) \in Nat /\ Least(k.cwnd, wnd) <= wnd
  BY <1>1, <1>2, LeastIsNat
<1> QED BY <1>1, <1>2, <1>3, <1>4

(* The segments that the first n pieces of a queue become.                 *)
Fresh(q, nxt, n) == [i \in 1..n |-> [sn |-> nxt + i - 1, frg |-> q[i].frg,
                                    data |-> q[i].data, xmit |-> 0, fastack |-> 0]]

LEMMA AdmittedBuffer ==
  ASSUME NEW buf \in Seq(OutSeg), NEW una \in Nat, NEW nxt \in Nat, NEW q \in Seq(Piece),
         NEW T \in Seq(Piece), SndBufRight(buf, una, nxt, T), SndQueueRight(q, nxt, T),
         NEW n \in 0..Len(q), nxt + n - una <= SndWnd, NEW x, x = Fresh(q, nxt, n)
  PROVE  /\ buf \o x \in Seq(OutSeg) /\ SndBufRight(buf \o x, una, nxt + n, T)
         /\ \A sn \in Nat : Holds(buf, sn) \/ (nxt <= sn /\ sn < nxt + n) => Holds(buf \o x, sn)
<1>1. /\ Len(buf) \in Nat /\ Len(q) \in Nat /\ n \in Nat /\ n <= Len(q) /\ Len(T) \in Nat
      /\ \A i \in 1..Len(buf) : buf[i].sn \in Nat
      /\ \A i \in 1..Len(q) : q[i] \in Piece
  BY ElementIs, SegmentsAreNumbered DEF Numbered
<1>2. Len(T) = nxt + Len(q) /\ \A i \in 1..Len(q) : q[i] = T[nxt + i]
  BY DEF SndQueueRight
<1>3. ASSUME NEW i \in 1..n
      PROVE  /\ x[i] \in OutSeg /\ x[i].sn = nxt + i - 1 /\ nxt + i - 1 \in Nat
             /\ x[i].frg = q[i].frg /\ x[i].data = q[i].data
  <2>1. i \in 1..Len(q) /\ nxt + i - 1 \in Nat
    BY <1>1
  <2>2. q[i].frg \in Nat /\ q[i].data \in Datum
    BY <1>1, <2>1 DEF Piece
  <2>3. x[i] = [sn |-> nxt + i - 1, frg |-> q[i].frg, data |-> q[i].data,
                xmit |-> 0, fastack |-> 0]
    BY DEF Fresh
  <2> HIDE DEF Datum
  <2> QED BY <2>1, <2>2, <2>3 DEF OutSeg
<1>4. x \in Seq(OutSeg) /\ Len(x) = n
  <2>1. x = [i \in 1..n |-> x[i]]
    BY DEF Fresh
  <2>2. x \in [1..n -> OutSeg]
    BY <1>3, <2>1
  <2> QED BY <1>1, <2>2, FunctionIs
<1> DEFINE r == buf \o x
<1>5. /\ r \in Seq(OutSeg) /\ Len(r) = Len(buf) + n
      /\ \A i \in 1..Len(buf) : r[i] = buf[i]
      /\ \A i \in 1..n : r[Len(buf) + i] = x[i]
  <2>1. /\ r \in Seq(OutSeg) /\ Len(r) = Len(buf) + Len(x)
        /\ \A i \in 1..Len(buf) : r[i] = buf[i]
        /\ \A i \in 1..Len(x) : r[Len(buf) + i] = x[i]
    <3>1. x \in Seq(OutSeg)
      BY <1>4
    <3> QED BY <3>1, ConcatIs
  <2> HIDE DEF r
  <2> QED BY <1>4, <2>1
<1> HIDE DEF r
<1>6. ASSUME NEW i \in 1..Len(r)
      PROVE  \/ i \in 1..Len(buf) /\ r[i] = buf[i]
             \/ i - Len(buf) \in 1..n /\ i \notin 1..Len(buf) /\ r[i] = x[i - Len(buf)]
  <2>1. i \in 1..Len(buf) \/ (i - Len(buf) \in 1..n /\ i \notin 1..Len(buf))
    BY <1>1, <1>5
  <2>2. Len(buf) + (i - Len(buf)) = i
    BY <1>1
  <2>3. i - Len(buf) \in 1..n => r[Len(buf) + (i - Len(buf))] = x[i - Len(buf)]
    BY <1>5
  <2> QED BY <1>5, <2>1, <2>2, <2>3
<1>7. una <= nxt /\ \A i \in 1..Len(buf) : una <= buf[i].sn /\ buf[i].sn < nxt /\ Of(buf[i], T)
  BY DEF SndBufRight
<1>8. ASSUME NEW i \in 1..n PROVE Of(x[i], T)
  <2>1. i \in 1..Len(q) /\ (nxt + i - 1) + 1 = nxt + i /\ nxt + i - 1 < Len(T)
    BY <1>1, <1>2
  <2>2. x[i].sn = nxt + i - 1 /\ x[i].sn + 1 = nxt + i
    BY <1>3, <2>1
  <2>3. q[i] = T[nxt + i]
    BY <1>2, <2>1
  <2> QED BY <1>3, <2>1, <2>2, <2>3 DEF Of
<1>9. ASSUME NEW i \in 1..Len(r)
      PROVE  una <= r[i].sn /\ r[i].sn < nxt + n /\ Of(r[i], T)
  <2>1. CASE i \in 1..Len(buf) /\ r[i] = buf[i]
    <3>1. una <= buf[i].sn /\ buf[i].sn < nxt /\ Of(buf[i], T) /\ buf[i].sn \in Nat
      BY <1>1, <1>7, <2>1
    <3> QED BY <1>1, <2>1, <3>1
  <2>2. CASE i - Len(buf) \in 1..n /\ r[i] = x[i - Len(buf)]
    <3> DEFINE j == i - Len(buf)
    <3>1. j \in 1..n /\ x[j].sn = nxt + j - 1 /\ Of(x[j], T)
      BY <1>3, <1>8, <2>2
    <3>2. r[i] = x[j]
      BY <2>2
    <3> HIDE DEF j
    <3>3. una <= nxt + j - 1 /\ nxt + j - 1 < nxt + n
      BY <1>1, <1>7, <3>1
    <3> QED BY <3>1, <3>2, <3>3
  <2> QED BY <1>6, <2>1, <2>2
<1>10. ASSUME NEW i \in 1..Len(r), NEW j \in 1..Len(r), i < j PROVE r[i].sn < r[j].sn
  <2>1. CASE i \in 1..Len(buf) /\ r[i] = buf[i] /\ j \in 1..Len(buf) /\ r[j] = buf[j]
    BY <1>10, <2>1 DEF SndBufRight, InOrder
  <2>2. CASE i \in 1..Len(buf) /\ r[i] = buf[i] /\ j - Len(buf) \in 1..n /\ r[j] = x[j - Len(buf)]
    <3>1. x[j - Len(buf)].sn = nxt + (j - Len(buf)) - 1
      BY <1>3, <2>2
    <3>2. buf[i].sn < nxt /\ buf[i].sn \in Nat
      BY <1>1, <1>7, <2>2
    <3> DEFINE d == nxt + (j - Len(buf)) - 1
    <3>3. nxt <= d /\ d \in Nat
      <4> DEFINE m == j - Len(buf)
      <4>1. m \in 1..n /\ nxt \in Nat /\ n \in Nat /\ d = nxt + m - 1
        BY <1>1, <2>2
      <4> HIDE DEF m, d
      <4> QED BY <4>1
    <3>4. r[i].sn = buf[i].sn /\ r[j].sn = d
      BY <2>2, <3>1
    <3> HIDE DEF d
    <3> QED BY ONLY <3>2, <3>3, <3>4
  <2>3. CASE /\ i - Len(buf) \in 1..n /\ r[i] = x[i - Len(buf)]
             /\ j - Len(buf) \in 1..n /\ r[j] = x[j - Len(buf)]
    <3>1. /\ x[i - Len(buf)].sn = nxt + (i - Len(buf)) - 1
          /\ x[j - Len(buf)].sn = nxt + (j - Len(buf)) - 1
      BY <1>3, <2>3
    <3>2. nxt + (i - Len(buf)) - 1 < nxt + (j - Len(buf)) - 1
      BY <1>1, <1>10
    <3> QED BY <2>3, <3>1, <3>2
  <2>4. j \in 1..Len(buf) => i \in 1..Len(buf)
    BY <1>1, <1>10
  <2> QED BY <1>6, <2>1, <2>2, <2>3, <2>4
<1>11. SndBufRight(r, una, nxt + n, T)
  <2>1. una <= nxt + n
    BY <1>1, <1>7
  <2> QED BY <1>9, <1>10, <2>1 DEF SndBufRight, InOrder
<1>12. ASSUME NEW sn \in Nat, Holds(buf, sn) PROVE Holds(r, sn)
  <2>1. PICK i \in 1..Len(buf) : buf[i].sn = sn
    BY <1>12 DEF Holds
  <2>2. i \in 1..Len(r) /\ r[i].sn = sn
    BY <1>1, <1>5, <2>1
  <2> QED BY <2>2 DEF Holds
<1>13. ASSUME NEW sn \in Nat, nxt <= sn, sn < nxt + n PROVE Holds(r, sn)
  <2> DEFINE i == sn - nxt + 1
  <2>1. i \in 1..n /\ nxt + i - 1 = sn /\ Len(buf) + i \in 1..Len(r)
    BY <1>1, <1>5, <1>13
  <2>2. r[Len(buf) + i].sn = sn
    BY <1>3, <1>5, <2>1
  <2> QED BY <2>1, <2>2 DEF Holds
<1> QED BY <1>5, <1>11, <1>12, <1>13 DEF r

LEMMA AdmittedQueue ==
  ASSUME NEW nxt \in Nat, NEW q \in Seq(Piece), NEW T \in Seq(Piece),
         SndQueueRight(q, nxt, T), NEW n \in 0..Len(q),
         NEW rest, rest = SubSeq(q, n + 1, Len(q))
  PROVE  rest \in Seq(Piece) /\ SndQueueRight(rest, nxt + n, T)
<1>1. /\ rest \in Seq(Piece) /\ Len(rest) = Len(q) - n /\ Len(q) \in Nat
      /\ \A i \in 1..Len(rest) : n + i \in 1..Len(q) /\ rest[i] = q[n + i]
  BY RestIs
<1>2. Len(T) = nxt + Len(q) /\ \A i \in 1..Len(q) : q[i] = T[nxt + i]
  BY DEF SndQueueRight
<1>3. ASSUME NEW i \in 1..Len(rest) PROVE rest[i] = T[(nxt + n) + i]
  <2>1. n + i \in 1..Len(q) /\ rest[i] = q[n + i] /\ nxt + (n + i) = (nxt + n) + i
    BY <1>1
  <2> QED BY <1>2, <2>1
<1>4. Len(T) = (nxt + n) + Len(rest)
  <2>1. n \in Nat
    OBVIOUS
  <2> QED BY <1>1, <1>2, <2>1
<1> QED BY <1>1, <1>3, <1>4 DEF SndQueueRight

LEMMA AdmitRight ==
  ASSUME NEW k \in Block, NEW r \in Block, NEW M, NEW n, NEW way \in Ways, NEW T, NEW C,
         Right(k, r, M, n, way, T, C)
  PROVE  /\ Admit(k) \in Block /\ SameReceiver(k, Admit(k))
         /\ Right(Admit(k), r, M, n, way, T, C)
<1> DEFINE q == k.snd_queue
           una == k.snd_una
           nxt == k.snd_nxt
           room == Largest(una + SendWindow(k) - nxt, 0)
           l == Least(Len(q), room)
           x == Fresh(q, nxt, l)
           buf == k.snd_buf \o x
           rest == SubSeq(q, l + 1, Len(q))
           a == [k EXCEPT !.snd_buf = buf, !.snd_queue = rest, !.snd_nxt = nxt + l]
<1>1. Admit(k) = a
  BY DEF Admit, Fresh
<1>2. /\ una \in Nat /\ nxt \in Nat /\ q \in Seq(Piece) /\ Len(q) \in Nat
      /\ k.snd_buf \in Seq(OutSeg) /\ r.rcv_nxt \in Nat
  BY BlockIs, ElementIs
<1>3. /\ T \in Seq(Piece) /\ SndQueueRight(q, nxt, T) /\ SndBufRight(k.snd_buf, una, nxt, T)
      /\ RcvBufRight(r.rcv_buf, r.rcv_nxt, nxt, T)
      /\ Kept(k.snd_buf, nxt, r.rcv_buf, r.rcv_nxt) /\ WayRight(way, k, T)
  BY DEF Right
<1>4. l \in 0..Len(q) /\ l \in Nat /\ nxt + l - una <= SndWnd
  <2>1. SendWindow(k) \in Nat /\ SendWindow(k) <= SndWnd /\ SndWnd \in Nat
    BY SendWindowIs, WindowsAre
  <2>2. nxt - una <= SndWnd
    BY <1>3 DEF SndBufRight
  <2> DEFINE w == SendWindow(k)
  <2> HIDE DEF w, una, nxt, q
  <2>3. room \in Nat /\ (room = 0 \/ room = una + w - nxt)
    BY <1>2, <2>1 DEF Largest, w
  <2> HIDE DEF room
  <2>4. l \in Nat /\ l <= Len(q) /\ l <= room
    BY <1>2, <2>3, LeastIsNat
  <2> HIDE DEF l
  <2>5. nxt + l - una <= SndWnd
    BY <1>2, <2>1, <2>2, <2>3, <2>4 DEF w
  <2> QED BY <1>2, <2>4, <2>5
<1> HIDE DEF l
<1>5. /\ buf \in Seq(OutSeg) /\ SndBufRight(buf, una, nxt + l, T)
      /\ \A sn \in Nat : Holds(k.snd_buf, sn) \/ (nxt <= sn /\ sn < nxt + l) => Holds(buf, sn)
  <2>1. x = Fresh(q, nxt, l)
    OBVIOUS
  <2> DEFINE old == k.snd_buf
  <2>2. /\ old \in Seq(OutSeg) /\ una \in Nat /\ nxt \in Nat /\ q \in Seq(Piece)
        /\ T \in Seq(Piece) /\ SndBufRight(old, una, nxt, T) /\ SndQueueRight(q, nxt, T)
        /\ l \in 0..Len(q) /\ nxt + l - una <= SndWnd
    BY <1>2, <1>3, <1>4
  <2>3. buf = old \o x
    OBVIOUS
  <2>4. k.snd_buf = old
    OBVIOUS
  <2> HIDE DEF una, nxt, q, x, old, buf
  <2>5. /\ old \o x \in Seq(OutSeg) /\ SndBufRight(old \o x, una, nxt + l, T)
        /\ \A sn \in Nat : Holds(old, sn) \/ (nxt <= sn /\ sn < nxt + l) => Holds(old \o x, sn)
    BY <2>1, <2>2, AdmittedBuffer
  <2> QED BY <2>3, <2>4, <2>5
<1>6. rest \in Seq(Piece) /\ SndQueueRight(rest, nxt + l, T)
  BY <1>2, <1>3, <1>4, AdmittedQueue
<1>7. nxt + l \in Nat
  BY <1>2, <1>4
<1> DEFINE big == nxt + l
<1> HIDE DEF buf, rest, big
<1>8. /\ a \in Block /\ SameReceiver(k, a) /\ a.snd_una = una
      /\ a.snd_nxt = big /\ a.snd_buf = buf /\ a.snd_queue = rest
  <2>1. big \in Nat /\ a = [k EXCEPT !.snd_buf = buf, !.snd_queue = rest, !.snd_nxt = big]
    BY <1>7 DEF big
  <2> HIDE DEF a
  <2> QED BY <1>5, <1>6, <2>1 DEF Block, SameReceiver, SameBuffers
<1> HIDE DEF a
<1>9. big >= nxt /\ big \in Nat
  BY <1>2, <1>4 DEF big
<1>10. RcvBufRight(r.rcv_buf, r.rcv_nxt, big, T)
  <2>1. \A i \in 1..Len(r.rcv_buf) : r.rcv_buf[i].sn \in Nat
    BY BlockIs, ElementIs, SegmentsAreNumbered DEF Numbered
  <2> HIDE DEF nxt
  <2> QED BY <1>2, <1>3, <1>9, <2>1 DEF RcvBufRight
<1>11. Kept(buf, big, r.rcv_buf, r.rcv_nxt)
  <2>1. ASSUME NEW sn \in Nat, r.rcv_nxt <= sn, sn < big
        PROVE  Holds(buf, sn) \/ Holds(r.rcv_buf, sn)
    <3>1. CASE sn < nxt
      <4>1. Holds(k.snd_buf, sn) \/ Holds(r.rcv_buf, sn)
        BY <1>3, <2>1, <3>1 DEF Kept
      <4> QED BY <1>5, <4>1
    <3>2. CASE ~ (sn < nxt)
      <4>1. nxt <= sn /\ sn < nxt + l
        BY <1>2, <2>1, <3>2 DEF big
      <4> QED BY <1>5, <4>1
    <3> QED BY <3>1, <3>2
  <2> QED BY <2>1 DEF Kept
<1>12. WayRight(way, a, T)
  <2>1. Grows(a, k)
    BY <1>8, BlockIs DEF Grows, SameReceiver, SameBuffers
  <2>2. a.snd_nxt >= k.snd_nxt
    BY <1>8, <1>9
  <2> QED BY <1>3, <1>8, <2>1, <2>2, WayGrows
<1>13. SndBufRight(buf, una, big, T) /\ SndQueueRight(rest, big, T)
  BY <1>5, <1>6 DEF big
<1>14. Right(a, r, M, n, way, T, C)
  BY <1>8, <1>10, <1>11, <1>12, <1>13 DEF Right, SameReceiver, SameBuffers
<1> QED BY <1>1, <1>8, <1>14
------------------------------------------------------------------------------
(* Flush: what is sent                                                     *)

LEMMA SegmentIs ==
  ASSUME NEW k \in Block, NEW cmd \in {"ack", "push", "wask", "wins"}, NEW sn \in Nat
  PROVE  /\ Segment(k, cmd, sn) \in Seg /\ Segment(k, cmd, sn).cmd = cmd
         /\ Segment(k, cmd, sn).sn = sn /\ Segment(k, cmd, sn).una = k.rcv_nxt
<1>1. k.rcv_nxt \in Nat /\ Len(k.rcv_queue) \in Nat
  BY BlockIs, ElementIs
<1>2. WndUnused(k) \in 0..RcvWnd
  BY <1>1, WindowsAre DEF WndUnused, Largest
<1>3. <<>> \in Datum
  BY DEF Datum
<1> QED BY <1>1, <1>2, <1>3 DEF Segment, Seg

LEMMA PushSegmentIs ==
  ASSUME NEW k \in Block, NEW seg \in OutSeg, NEW T, seg.sn < k.snd_nxt, Of(seg, T)
  PROVE  PushSegment(k, seg) \in Seg /\ SegRight(PushSegment(k, seg), k, T)
<1>1. seg.sn \in Nat /\ seg.frg \in Nat /\ seg.data \in Datum
  BY DEF OutSeg
<1> DEFINE s == Segment(k, "push", seg.sn)
           r == [s EXCEPT !.frg = seg.frg, !.data = seg.data]
<1>2. s \in Seg /\ s.cmd = "push" /\ s.sn = seg.sn /\ s.una = k.rcv_nxt
  BY <1>1, SegmentIs
<1>3. PushSegment(k, seg) = r
  BY DEF PushSegment
<1> HIDE DEF s
<1>4. /\ r \in Seg /\ r.cmd = "push" /\ r.sn = seg.sn /\ r.una = k.rcv_nxt
      /\ r.frg = seg.frg /\ r.data = seg.data
  BY <1>1, <1>2 DEF Seg
<1> HIDE DEF r
<1>5. k.rcv_nxt \in Nat
  BY BlockIs
<1>6. SegRight(r, k, T)
  BY <1>4, <1>5 DEF SegRight, Of
<1> QED BY <1>3, <1>4, <1>6

LEMMA AllAppend ==
  ASSUME NEW d \in Seq(Seg), NEW k, NEW T, AllRight(d, k, T), NEW seg \in Seg, SegRight(seg, k, T)
  PROVE  Append(d, seg) \in Seq(Seg) /\ AllRight(Append(d, seg), k, T)
<1> DEFINE r == Append(d, seg)
<1>1. /\ r \in Seq(Seg) /\ Len(r) = Len(d) + 1 /\ Len(d) \in Nat /\ r[Len(d) + 1] = seg
      /\ \A j \in 1..Len(d) : r[j] = d[j]
  BY AppendIs
<1> HIDE DEF r
<1>2. ASSUME NEW j \in 1..Len(r) PROVE SegRight(r[j], k, T)
  <2>1. j \in 1..Len(d) \/ j = Len(d) + 1
    BY <1>1
  <2> QED BY <1>1, <2>1 DEF AllRight
<1>3. AllRight(r, k, T)
  BY <1>2 DEF AllRight
<1> QED BY <1>1, <1>3 DEF r

LEMMA AllConcat ==
  ASSUME NEW d \in Seq(Seg), NEW k, NEW T, AllRight(d, k, T), NEW x \in Seq(Seg), AllRight(x, k, T)
  PROVE  d \o x \in Seq(Seg) /\ AllRight(d \o x, k, T)
<1> DEFINE r == d \o x
<1>1. /\ r \in Seq(Seg) /\ Len(d) \in Nat
      /\ \A j \in 1..Len(d) : r[j] = d[j]
      /\ \A j \in 1..Len(x) : r[Len(d) + j] = x[j]
      /\ \A j \in 1..Len(r) : j \in 1..Len(d) \/ j - Len(d) \in 1..Len(x)
  BY ConcatIs
<1> HIDE DEF r
<1>2. ASSUME NEW j \in 1..Len(r) PROVE SegRight(r[j], k, T)
  <2>1. CASE j \in 1..Len(d)
    BY <1>1, <2>1 DEF AllRight
  <2>2. CASE j - Len(d) \in 1..Len(x)
    <3>1. Len(d) + (j - Len(d)) = j
      BY <1>1
    <3>2. r[Len(d) + (j - Len(d))] = x[j - Len(d)]
      BY <1>1, <2>2
    <3> QED BY <2>2, <3>1, <3>2 DEF AllRight
  <2> QED BY <1>1, <2>1, <2>2
<1>3. AllRight(r, k, T)
  BY <1>2 DEF AllRight
<1> QED BY <1>1, <1>3 DEF r

LEMMA AcksSentRight ==
  ASSUME NEW k \in Block, NEW T, AcksRight(k.acklist, k.rcv_buf, k.rcv_nxt),
         NEW d, d = [i \in DOMAIN k.acklist |-> Segment(k, "ack", k.acklist[i])]
  PROVE  d \in Seq(Seg) /\ AllRight(d, k, T)
<1> DEFINE acks == k.acklist
<1>1. /\ Len(acks) \in Nat /\ DOMAIN acks = 1..Len(acks)
      /\ \A i \in 1..Len(acks) : acks[i] \in Nat
  BY BlockIs, ElementIs
<1>2. ASSUME NEW i \in 1..Len(acks)
      PROVE  /\ d[i] \in Seg /\ d[i].cmd = "ack" /\ d[i].sn = acks[i] /\ d[i].una = k.rcv_nxt
  <2>1. acks[i] \in Nat /\ d[i] = Segment(k, "ack", acks[i])
    BY <1>1
  <2> QED BY <2>1, SegmentIs
<1>3. d \in Seq(Seg) /\ Len(d) = Len(acks)
  <2>1. d = [i \in 1..Len(acks) |-> d[i]]
    BY <1>1
  <2>2. d \in [1..Len(acks) -> Seg]
    BY <1>2, <2>1
  <2> QED BY <1>1, <2>2, FunctionIs
<1>4. k.rcv_nxt \in Nat
  BY BlockIs
<1>5. ASSUME NEW i \in 1..Len(d) PROVE SegRight(d[i], k, T)
  BY <1>2, <1>3, <1>4 DEF AcksRight, SegRight
<1> QED BY <1>3, <1>5 DEF AllRight

LEMMA ProbeSentRight ==
  ASSUME NEW k \in Block, NEW T, NEW cmd \in {"wask", "wins"}
  PROVE  /\ <<Segment(k, cmd, 0)>> \in Seq(Seg) /\ AllRight(<<Segment(k, cmd, 0)>>, k, T)
         /\ <<>> \in Seq(Seg) /\ AllRight(<<>>, k, T)
<1> DEFINE s == Segment(k, cmd, 0)
<1>1. s \in Seg /\ s.cmd = cmd /\ s.una = k.rcv_nxt /\ k.rcv_nxt \in Nat
  BY SegmentIs, BlockIs
<1> HIDE DEF s
<1>2. SegRight(s, k, T)
  BY <1>1 DEF SegRight
<1>3. <<s>> \in Seq(Seg) /\ AllRight(<<s>>, k, T)
  BY <1>1, <1>2 DEF AllRight
<1>4. <<>> \in Seq(Seg) /\ AllRight(<<>>, k, T)
  BY DEF AllRight
<1> QED BY <1>3, <1>4 DEF s

(* The loop over snd_buf: there is a function as Pushes defines it.        *)
PushStep(f, k, reasons, i) ==
  IF i = 0 THEN <<>>
  ELSE IF reasons[i] = "none" THEN f[i - 1]
  ELSE Append(f[i - 1], PushSegment(k, k.snd_buf[i]))
IsPushed(f, k, reasons, n) == f = [i \in 0..n |-> PushStep(f, k, reasons, i)]

LEMMA PushedExists ==
  ASSUME NEW k, NEW reasons, NEW n \in Nat
  PROVE  \E f : IsPushed(f, k, reasons, n)
<1> DEFINE S == {m \in Nat : \E f : IsPushed(f, k, reasons, m)}
<1>1. 0 \in S
  <2> DEFINE f == [i \in 0..0 |-> <<>>]
  <2>1. \A i \in 0..0 : i = 0 /\ PushStep(f, k, reasons, i) = <<>>
    BY DEF PushStep
  <2>2. IsPushed(f, k, reasons, 0)
    BY <2>1 DEF IsPushed
  <2> HIDE DEF f
  <2> QED BY <2>2
<1>2. ASSUME NEW m \in S PROVE m + 1 \in S
  <2>1. PICK f : IsPushed(f, k, reasons, m)
    OBVIOUS
  <2> DEFINE g == [i \in 0..(m + 1) |-> IF i = m + 1 THEN PushStep(f, k, reasons, i) ELSE f[i]]
  <2>2. ASSUME NEW i \in 0..(m + 1) PROVE g[i] = PushStep(g, k, reasons, i)
    <3>1. CASE i = 0
      <4>1. g[i] = f[i] /\ f[i] = PushStep(f, k, reasons, i)
        BY <2>1, <3>1 DEF IsPushed
      <4> QED BY <3>1, <4>1 DEF PushStep
    <3>2. CASE i # 0
      <4>1. i - 1 \in 0..m /\ g[i - 1] = f[i - 1]
        BY <3>2
      <4>2. g[i] = PushStep(f, k, reasons, i)
        BY <2>1, <3>2 DEF IsPushed
      <4> HIDE DEF g
      <4> QED BY <3>2, <4>1, <4>2 DEF PushStep
    <3> QED BY <3>1, <3>2
  <2>3. g = [i \in 0..(m + 1) |-> g[i]]
    OBVIOUS
  <2> HIDE DEF g
  <2>4. IsPushed(g, k, reasons, m + 1)
    BY <2>2, <2>3 DEF IsPushed
  <2> QED BY <2>4
<1> HIDE DEF S
<1>3. S = Nat
  <2>1. S \in SUBSET Nat
    BY DEF S
  <2> QED BY <1>1, <1>2, <2>1, Induction
<1> QED BY <1>3 DEF S

LEMMA PushesRight ==
  ASSUME NEW k \in Block, NEW T, SndBufRight(k.snd_buf, k.snd_una, k.snd_nxt, T), NEW reasons
  PROVE  Pushes(k, reasons) \in Seq(Seg) /\ AllRight(Pushes(k, reasons), k, T)
<1> DEFINE n == Len(k.snd_buf)
           pushed[i \in 0..Len(k.snd_buf)] ==
             IF i = 0 THEN <<>>
             ELSE IF reasons[i] = "none" THEN pushed[i - 1]
             ELSE Append(pushed[i - 1], PushSegment(k, k.snd_buf[i]))
<1>1. Pushes(k, reasons) = pushed[n]
  BY DEF Pushes
<1>2. n \in Nat /\ \A i \in 1..n : k.snd_buf[i] \in OutSeg
  BY BlockIs, ElementIs
<1>3. pushed = [i \in 0..n |-> PushStep(pushed, k, reasons, i)]
  <2>1. \E f : IsPushed(f, k, reasons, n)
    <3> HIDE DEF n, pushed
    <3> QED BY <1>2, PushedExists
  <2> QED BY <2>1 DEF PushStep, IsPushed
<1> HIDE DEF pushed
<1> DEFINE S == {i \in Nat : i <= n => pushed[i] \in Seq(Seg) /\ AllRight(pushed[i], k, T)}
<1>4. 0 \in S
  <2>1. 0 \in 0..n
    BY <1>2
  <2>2. pushed[0] = <<>>
    BY <1>3, <2>1 DEF PushStep
  <2>3. <<>> \in Seq(Seg) /\ AllRight(<<>>, k, T)
    BY DEF AllRight
  <2> QED BY <2>2, <2>3
<1>5. ASSUME NEW i \in S PROVE i + 1 \in S
  <2> SUFFICES ASSUME i + 1 <= n
               PROVE  pushed[i + 1] \in Seq(Seg) /\ AllRight(pushed[i + 1], k, T)
    OBVIOUS
  <2>1. pushed[i] \in Seq(Seg) /\ AllRight(pushed[i], k, T)
    BY <1>2
  <2>2. i + 1 \in 0..n /\ i + 1 # 0 /\ (i + 1) - 1 = i /\ i + 1 \in 1..n
    BY <1>2
  <2> DEFINE j == i + 1
             s == PushSegment(k, k.snd_buf[j])
  <2>3. pushed[j] = PushStep(pushed, k, reasons, j)
    BY <1>3, <2>2
  <2>4. pushed[j] = pushed[i] \/ pushed[j] = Append(pushed[i], s)
    BY <2>2, <2>3 DEF PushStep
  <2>5. s \in Seg /\ SegRight(s, k, T)
    <3>1. k.snd_buf[j] \in OutSeg
      BY <1>2, <2>2
    <3>2. k.snd_buf[j].sn < k.snd_nxt /\ Of(k.snd_buf[j], T)
      BY <2>2 DEF SndBufRight
    <3> QED BY <3>1, <3>2, PushSegmentIs
  <2> HIDE DEF s
  <2>6. Append(pushed[i], s) \in Seq(Seg) /\ AllRight(Append(pushed[i], s), k, T)
    BY <2>1, <2>5, AllAppend
  <2> QED BY <2>1, <2>4, <2>6
<1>6. S = Nat
  <2> HIDE DEF S
  <2>1. S \in SUBSET Nat
    BY DEF S
  <2> QED BY <1>4, <1>5, <2>1, Induction
<1>7. n \in S /\ n <= n
  BY <1>2, <1>6
<1> QED BY <1>1, <1>7
(* The loop that fills datagrams: there is a function as Pack defines it.  *)
Large(seg) == seg.cmd = "push" /\ seg.frg > 0
Filled(p, seg) == [p EXCEPT ![Len(p)] = Append(@, seg)]
PackStep(f, segments, i) ==
  IF i = 0 THEN <<>>
  ELSE IF i = 1 \/ Large(segments[i]) \/ Large(segments[i - 1])
       THEN Append(f[i - 1], <<segments[i]>>)
  ELSE Filled(f[i - 1], segments[i])
IsPacked(f, segments, n) == f = [i \in 0..n |-> PackStep(f, segments, i)]

LEMMA PackedExists ==
  ASSUME NEW segments, NEW n \in Nat
  PROVE  \E f : IsPacked(f, segments, n)
<1> DEFINE S == {m \in Nat : \E f : IsPacked(f, segments, m)}
<1>1. 0 \in S
  <2> DEFINE f == [i \in 0..0 |-> <<>>]
  <2>1. \A i \in 0..0 : i = 0 /\ PackStep(f, segments, i) = <<>>
    BY DEF PackStep
  <2>2. IsPacked(f, segments, 0)
    BY <2>1 DEF IsPacked
  <2> HIDE DEF f
  <2> QED BY <2>2
<1>2. ASSUME NEW m \in S PROVE m + 1 \in S
  <2>1. PICK f : IsPacked(f, segments, m)
    OBVIOUS
  <2> DEFINE g == [i \in 0..(m + 1) |-> IF i = m + 1 THEN PackStep(f, segments, i) ELSE f[i]]
  <2>2. ASSUME NEW i \in 0..(m + 1) PROVE g[i] = PackStep(g, segments, i)
    <3>1. CASE i = 0
      <4>1. g[i] = f[i] /\ f[i] = PackStep(f, segments, i)
        BY <2>1, <3>1 DEF IsPacked
      <4> QED BY <3>1, <4>1 DEF PackStep
    <3>2. CASE i # 0
      <4>1. i - 1 \in 0..m /\ g[i - 1] = f[i - 1]
        BY <3>2
      <4>2. g[i] = PackStep(f, segments, i)
        BY <2>1, <3>2 DEF IsPacked
      <4> HIDE DEF g
      <4> QED BY <3>2, <4>1, <4>2 DEF PackStep
    <3> QED BY <3>1, <3>2
  <2>3. g = [i \in 0..(m + 1) |-> g[i]]
    OBVIOUS
  <2> HIDE DEF g
  <2>4. IsPacked(g, segments, m + 1)
    BY <2>2, <2>3 DEF IsPacked
  <2> QED BY <2>4
<1> HIDE DEF S
<1>3. S = Nat
  <2>1. S \in SUBSET Nat
    BY DEF S
  <2> QED BY <1>1, <1>2, <2>1, Induction
<1> QED BY <1>3 DEF S

(* A segment more in the last datagram.                                    *)
LEMMA FilledRight ==
  ASSUME NEW p \in Ways, NEW k, NEW T, WayRight(p, k, T), Len(p) >= 1,
         NEW seg \in Seg, SegRight(seg, k, T)
  PROVE  /\ Filled(p, seg) \in Ways /\ WayRight(Filled(p, seg), k, T)
         /\ Len(Filled(p, seg)) >= 1
<1> DEFINE n == Len(p)
           d == Append(p[n], seg)
           r == Filled(p, seg)
<1>1. /\ n \in Nat /\ DOMAIN p = 1..n /\ n \in 1..n /\ \A j \in 1..n : p[j] \in Seq(Seg)
  BY ElementIs DEF Ways
<1>2. d \in Seq(Seg) /\ AllRight(d, k, T)
  <2>1. p[n] \in Seq(Seg) /\ AllRight(p[n], k, T)
    BY <1>1 DEF WayRight
  <2> HIDE DEF n
  <2> QED BY <2>1, AllAppend
<1> HIDE DEF d
<1>3. r = [j \in 1..n |-> IF j = n THEN d ELSE p[j]]
  BY <1>1 DEF Filled, d
<1> HIDE DEF r, n
<1>4. r \in Seq(Seq(Seg)) /\ Len(r) = n
  <2>1. r \in [1..n -> Seq(Seg)]
    BY <1>1, <1>2, <1>3
  <2> QED BY <1>1, <2>1, FunctionIs
<1>5. ASSUME NEW j \in 1..n PROVE AllRight(r[j], k, T)
  <2>1. AllRight(p[j], k, T)
    BY DEF WayRight, n
  <2> QED BY <1>2, <1>3, <2>1
<1>6. WayRight(r, k, T)
  BY <1>4, <1>5 DEF WayRight
<1>7. Len(r) >= 1
  BY <1>4 DEF n
<1> QED BY <1>4, <1>6, <1>7 DEF r, Ways

LEMMA PackRight ==
  ASSUME NEW segments \in Seq(Seg), NEW k, NEW T, AllRight(segments, k, T)
  PROVE  Pack(segments) \in Ways /\ WayRight(Pack(segments), k, T)
<1> DEFINE full(i) == segments[i].cmd = "push" /\ segments[i].frg > 0
           packed[i \in 0..Len(segments)] ==
             IF i = 0 THEN <<>>
             ELSE IF i = 1 \/ full(i) \/ full(i - 1) THEN Append(packed[i - 1], <<segments[i]>>)
             ELSE [packed[i - 1] EXCEPT ![Len(packed[i - 1])] = Append(@, segments[i])]
           n == Len(segments)
<1>1. Pack(segments) = packed[n]
  BY DEF Pack
<1>2. n \in Nat /\ \A i \in 1..n : segments[i] \in Seg
  BY ElementIs
<1>3. packed = [i \in 0..n |-> PackStep(packed, segments, i)]
  <2>1. \E f : IsPacked(f, segments, n)
    <3> HIDE DEF n, packed
    <3> QED BY <1>2, PackedExists
  <2> QED BY <2>1 DEF PackStep, IsPacked, Large, Filled
<1> HIDE DEF packed
<1> DEFINE P(i) == /\ packed[i] \in Ways /\ WayRight(packed[i], k, T)
                   /\ i # 0 => Len(packed[i]) >= 1
           S == {i \in Nat : i <= n => P(i)}
<1>4. 0 \in S
  <2>1. 0 \in 0..n
    BY <1>2
  <2>2. packed[0] = <<>>
    BY <1>3, <2>1 DEF PackStep
  <2>3. <<>> \in Ways /\ WayRight(<<>>, k, T)
    BY DEF Ways, WayRight
  <2> QED BY <2>2, <2>3
<1>5. ASSUME NEW i \in S PROVE i + 1 \in S
  <2> SUFFICES ASSUME i + 1 <= n PROVE P(i + 1)
    OBVIOUS
  <2>1. P(i)
    BY <1>2
  <2>2. i + 1 \in 0..n /\ i + 1 # 0 /\ (i + 1) - 1 = i /\ i + 1 \in 1..n /\ (i + 1 = 1 \/ i # 0)
    BY <1>2
  <2> DEFINE j == i + 1
             old == packed[i]
             seg == segments[j]
  <2>3. packed[j] = PackStep(packed, segments, j)
    BY <1>3, <2>2
  <2>4. packed[j] = Append(old, <<seg>>) \/ (i # 0 /\ packed[j] = Filled(old, seg))
    BY <2>2, <2>3 DEF PackStep
  <2>5. seg \in Seg /\ SegRight(seg, k, T)
    BY <1>2, <2>2 DEF AllRight
  <2>6. old \in Ways /\ WayRight(old, k, T) /\ (i # 0 => Len(old) >= 1)
    BY <2>1
  <2>7. j # 0 /\ j \in Nat
    BY <2>2
  <2> HIDE DEF old, seg, j
  <2>8. /\ Append(old, <<seg>>) \in Ways /\ WayRight(Append(old, <<seg>>), k, T)
        /\ Len(Append(old, <<seg>>)) >= 1
    <3>1. <<seg>> \in Seq(Seg) /\ AllRight(<<seg>>, k, T)
      BY <2>5 DEF AllRight
    <3> DEFINE d == <<seg>>
    <3>2. d \in Seq(Seg) /\ AllRight(d, k, T)
      BY <3>1
    <3> HIDE DEF d
    <3>3. Append(old, d) \in Ways /\ WayRight(Append(old, d), k, T)
      BY <2>6, <3>2, WayAppend
    <3>4. Len(Append(old, d)) = Len(old) + 1 /\ Len(old) \in Nat
      BY <2>6, <3>2, AppendIs DEF Ways
    <3>5. Len(Append(old, d)) >= 1
      BY <3>4
    <3> QED BY <3>3, <3>5 DEF d
  <2>9. i # 0 => /\ Filled(old, seg) \in Ways /\ WayRight(Filled(old, seg), k, T)
                 /\ Len(Filled(old, seg)) >= 1
    BY <2>5, <2>6, FilledRight
  <2>10. P(j)
    BY <2>4, <2>8, <2>9
  <2> QED BY <2>10 DEF j
<1>6. S = Nat
  <2> HIDE DEF S
  <2>1. S \in SUBSET Nat
    BY DEF S
  <2> QED BY <1>4, <1>5, <2>1, Induction
<1>7. n \in S /\ n <= n
  BY <1>2, <1>6
<1> QED BY <1>1, <1>7

LEMMA OutputRight ==
  ASSUME NEW k \in Block, NEW T, SndBufRight(k.snd_buf, k.snd_una, k.snd_nxt, T),
         AcksRight(k.acklist, k.rcv_buf, k.rcv_nxt), NEW reasons
  PROVE  Output(k, reasons) \in Ways /\ WayRight(Output(k, reasons), k, T)
<1> DEFINE acks == [i \in DOMAIN k.acklist |-> Segment(k, "ack", k.acklist[i])]
           ask == IF "ask" \in k.probe THEN <<Segment(k, "wask", 0)>> ELSE <<>>
           tell == IF "tell" \in k.probe THEN <<Segment(k, "wins", 0)>> ELSE <<>>
           pushes == Pushes(k, reasons)
<1>1. acks \in Seq(Seg) /\ AllRight(acks, k, T)
  BY AcksSentRight
<1>2. ask \in Seq(Seg) /\ AllRight(ask, k, T)
  BY ProbeSentRight
<1>3. tell \in Seq(Seg) /\ AllRight(tell, k, T)
  BY ProbeSentRight
<1>4. pushes \in Seq(Seg) /\ AllRight(pushes, k, T)
  BY PushesRight
<1>5. Output(k, reasons) = Pack(acks \o (ask \o tell) \o pushes)
  BY DEF Output
<1> HIDE DEF acks, ask, tell, pushes
<1> DEFINE probes == ask \o tell
           front == acks \o probes
           segments == front \o pushes
<1>6. probes \in Seq(Seg) /\ AllRight(probes, k, T)
  BY <1>2, <1>3, AllConcat
<1> HIDE DEF probes
<1>7. front \in Seq(Seg) /\ AllRight(front, k, T)
  BY <1>1, <1>6, AllConcat
<1> HIDE DEF front
<1>8. segments \in Seq(Seg) /\ AllRight(segments, k, T)
  BY <1>4, <1>7, AllConcat
<1>9. Output(k, reasons) = Pack(segments)
  BY <1>5 DEF front, probes
<1> HIDE DEF segments
<1> QED BY <1>8, <1>9, PackRight

LEMMA TransmitIs ==
  ASSUME NEW seg \in OutSeg, NEW reason
  PROVE  /\ Transmit(seg, reason) \in OutSeg /\ Transmit(seg, reason).sn = seg.sn
         /\ Transmit(seg, reason).frg = seg.frg /\ Transmit(seg, reason).data = seg.data
<1> DEFINE x == Least(seg.xmit + 1, FASTACK_LIMIT + 1)
           f == IF reason = "fast" THEN 0 ELSE seg.fastack
           r == [seg EXCEPT !.xmit = x, !.fastack = f]
<1>1. seg.xmit + 1 \in Nat /\ FASTACK_LIMIT + 1 \in Nat /\ f \in Nat
  BY Limits DEF OutSeg
<1>2. x \in Nat
  BY <1>1, LeastIsNat
<1>3. Transmit(seg, reason) = IF reason = "none" THEN seg ELSE r
  BY DEF Transmit
<1> HIDE DEF x, f
<1>4. r \in OutSeg /\ r.sn = seg.sn /\ r.frg = seg.frg /\ r.data = seg.data
  BY <1>1, <1>2 DEF OutSeg
<1> HIDE DEF r
<1> QED BY <1>3, <1>4

(* What a flush leaves in the buffer is what was there.                    *)
LEMMA TransmittedBuffer ==
  ASSUME NEW buf \in Seq(OutSeg), NEW reasons,
         NEW x, x = [i \in DOMAIN buf |-> Transmit(buf[i], reasons[i])]
  PROVE  /\ x \in Seq(OutSeg) /\ Len(x) = Len(buf)
         /\ \A i \in 1..Len(buf) : /\ x[i].sn = buf[i].sn /\ x[i].frg = buf[i].frg
                                   /\ x[i].data = buf[i].data
<1>1. /\ Len(buf) \in Nat /\ DOMAIN buf = 1..Len(buf)
      /\ \A i \in 1..Len(buf) : buf[i] \in OutSeg
  BY ElementIs
<1>2. ASSUME NEW i \in 1..Len(buf)
      PROVE  /\ x[i] \in OutSeg /\ x[i].sn = buf[i].sn /\ x[i].frg = buf[i].frg
             /\ x[i].data = buf[i].data
  <2>1. buf[i] \in OutSeg /\ x[i] = Transmit(buf[i], reasons[i])
    BY <1>1
  <2> QED BY <2>1, TransmitIs
<1>3. x = [i \in 1..Len(buf) |-> x[i]]
  BY <1>1
<1>4. x \in [1..Len(buf) -> OutSeg]
  BY <1>2, <1>3
<1>5. x \in Seq(OutSeg) /\ Len(x) = Len(buf)
  BY <1>1, <1>4, FunctionIs
<1> QED BY <1>2, <1>5

LEMMA FlushedRight ==
  ASSUME NEW k \in Block, NEW r, NEW M, NEW n, NEW way, NEW T, NEW C,
         Right(k, r, M, n, way, T, C), NEW reasons, NEW lost
  PROVE  /\ Flushed(k, reasons, lost) \in Block /\ SameBuffers(k, Flushed(k, reasons, lost))
         /\ Flushed(k, reasons, lost).snd_nxt = k.snd_nxt
         /\ Right(Flushed(k, reasons, lost), r, M, n, way, T, C)
<1> DEFINE old == k.snd_buf
           buf == [i \in DOMAIN old |-> Transmit(old[i], reasons[i])]
           thresh == IF lost THEN Largest(SendWindow(k) \div 2, THRESH_MIN) ELSE k.ssthresh
           cwnd == IF mode.nocwnd THEN 0 ELSE IF lost THEN 1 ELSE Largest(k.cwnd, 1)
           acks == <<>>
           probe == {}
           f == [k EXCEPT !.acklist = acks, !.probe = probe, !.snd_buf = buf,
                          !.ssthresh = thresh, !.cwnd = cwnd]
<1>0. acks = <<>> /\ acks \in Seq(Nat) /\ probe \in SUBSET {"ask", "tell"}
  OBVIOUS
<1>1. Flushed(k, reasons, lost) = f
  BY DEF Flushed
<1>2. old \in Seq(OutSeg)
  BY BlockIs
<1>3. /\ buf \in Seq(OutSeg) /\ Len(buf) = Len(old)
      /\ \A i \in 1..Len(old) : /\ buf[i].sn = old[i].sn /\ buf[i].frg = old[i].frg
                                /\ buf[i].data = old[i].data
  BY <1>2, TransmittedBuffer
<1>4. thresh \in Nat
  <2>1. k.ssthresh \in Nat /\ THRESH_MIN \in Nat
    BY Windows DEF Block
  <2>2. SendWindow(k) \div 2 \in Nat
    BY SendWindowIs
  <2> QED BY <2>1, <2>2 DEF Largest
<1>5. cwnd \in 0..RcvWnd
  <2>1. k.cwnd \in 0..RcvWnd
    BY DEF Block
  <2> QED BY <2>1, WindowsAre DEF Largest
<1> HIDE DEF buf, thresh, cwnd, acks, probe
<1>6. /\ f \in Block /\ SameBuffers(k, f) /\ f.snd_nxt = k.snd_nxt /\ f.snd_una = k.snd_una
      /\ f.snd_queue = k.snd_queue /\ f.snd_buf = buf /\ f.acklist = acks
  BY <1>0, <1>3, <1>4, <1>5 DEF Block, SameBuffers
<1> HIDE DEF f
<1>7. SndBufRight(buf, k.snd_una, k.snd_nxt, T)
  <2>1. SndBufRight(old, k.snd_una, k.snd_nxt, T)
    BY DEF Right
  <2> HIDE DEF old
  <2> QED BY <1>3, <2>1 DEF SndBufRight, InOrder, Of
<1>8. Kept(buf, k.snd_nxt, r.rcv_buf, r.rcv_nxt)
  <2>1. Kept(old, k.snd_nxt, r.rcv_buf, r.rcv_nxt)
    BY DEF Right
  <2> HIDE DEF old
  <2> QED BY <1>3, <2>1 DEF Kept, Holds
<1>9. AcksRight(acks, f.rcv_buf, f.rcv_nxt)
  BY <1>0 DEF AcksRight
<1>10. WayRight(way, f, T)
  BY <1>6 DEF Right, SameBuffers, WayRight, AllRight, SegRight
<1>11. Right(f, r, M, n, way, T, C)
  BY <1>6, <1>7, <1>8, <1>9, <1>10 DEF Right
<1> QED BY <1>1, <1>6, <1>11

LEMMA FlushKeeps ==
  ASSUME KcpInv, NEW e \in Ends, NEW due, NEW expired, Flush(e, due, expired)
  PROVE  KcpInv'
<1> DEFINE o == Other(e)
           k == kcp[e]
           probed == Probe(k, expired)
           a == Admit(probed)
           n == Len(got[o])
<1>1. o \in Ends /\ o # e
  BY OtherIs
<1>2. k \in Block /\ kcp[o] \in Block /\ net[e] \in Ways /\ net[o] \in Ways
  BY <1>1, TypesOf
<1>3. PICK reasons : /\ net' = [net EXCEPT ![o] = @ \o Output(a, reasons)]
                     /\ kcp' = [kcp EXCEPT ![e] = Flushed(a, reasons, "lost" \in Range(reasons))]
  BY DEF Flush, UdpOutput
<1>4. UNCHANGED <<mode, sent, got>>
  BY DEF Flush
<1>5. PICK T, C : Right(k, kcp[o], sent[e], n, net[o], T, C)
  BY Directions
<1>6. PICK U, D : Right(kcp[o], k, sent[o], Len(got[e]), net[e], U, D)
  BY Directions
<1>7. probed \in Block /\ SameSender(k, probed) /\ SameReceiver(k, probed)
  BY <1>2, ProbeIs
<1> HIDE DEF k, probed
<1>8. Right(probed, kcp[o], sent[e], n, net[o], T, C)
  <2>1. WayRight(net[o], probed, T)
    BY <1>5, <1>7 DEF Right, WayRight, AllRight, SegRight, SameSender, SameReceiver, SameBuffers
  <2> QED BY <1>5, <1>7, <2>1 DEF Right, SameSender, SameReceiver, SameBuffers
<1>9. /\ a \in Block /\ SameReceiver(probed, a)
      /\ Right(a, kcp[o], sent[e], n, net[o], T, C)
  BY <1>2, <1>7, <1>8, AdmitRight
<1> HIDE DEF a
<1> DEFINE f == Flushed(a, reasons, "lost" \in Range(reasons))
           out == Output(a, reasons)
<1>10. /\ f \in Block /\ SameBuffers(a, f) /\ f.snd_nxt = a.snd_nxt
       /\ Right(f, kcp[o], sent[e], n, net[o], T, C)
  BY <1>9, FlushedRight
<1>11. out \in Ways /\ WayRight(out, a, T)
  BY <1>9, OutputRight DEF Right
<1>12. kcp' = [kcp EXCEPT ![e] = f] /\ net' = [net EXCEPT ![o] = net[o] \o out]
  BY <1>3
<1> HIDE DEF f, out
<1>13. net[o] \o out \in Ways /\ WayRight(net[o] \o out, f, T)
  <2>1. WayRight(net[o], f, T)
    BY <1>10 DEF Right
  <2>2. WayRight(out, f, T)
    BY <1>10, <1>11 DEF SameBuffers, WayRight, AllRight, SegRight
  <2> QED BY <1>2, <1>11, <2>1, <2>2, WayConcat
<1>14. Right(f, kcp[o], sent[e], n, net[o] \o out, T, C)
  BY <1>10, <1>13 DEF Right
<1>15. Right(kcp[o], f, sent[o], Len(got[e]), net[e], U, D)
  <2>1. SameBuffers(k, f)
    BY <1>7, <1>9, <1>10 DEF SameReceiver, SameBuffers
  <2> QED BY <1>6, <2>1 DEF Right, SameBuffers
<1>16. /\ kcp'[e] = f /\ kcp'[o] = kcp[o] /\ net'[o] = net[o] \o out /\ net'[e] = net[e]
       /\ sent' = sent /\ got' = got
  BY <1>1, <1>4, <1>12 DEF KcpInv, KcpTypes
<1>17. KcpTypes'
  <2>1. kcp' \in [Ends -> Block]
    BY <1>10, <1>12 DEF KcpInv, KcpTypes
  <2>2. net' \in [Ends -> Ways]
    BY <1>12, <1>13 DEF KcpInv, KcpTypes, Ways
  <2> QED BY <1>4, <2>1, <2>2 DEF KcpInv, KcpTypes, Ways
<1>18. Right(kcp[e], kcp[o], sent[e], Len(got[o]), net[o], T, C)'
  BY <1>14, <1>16
<1>19. Right(kcp[o], kcp[e], sent[o], Len(got[e]), net[e], U, D)'
  BY <1>15, <1>16
<1> HIDE DEF o, n
<1> QED BY <1>17, <1>18, <1>19, BothRight DEF o
------------------------------------------------------------------------------
(* The invariant, and what it says                                         *)

LEMMA CreateIs == Create \in Block
<1>1. WND_RCV \in 0..RcvWnd /\ 0 \in 0..RcvWnd /\ THRESH_MIN \in Nat
  BY Windows, WindowsAre
<1>2. {} \in SUBSET {"ask", "tell"} /\ FALSE \in BOOLEAN /\ <<>> \in Seq(Piece)
      /\ <<>> \in Seq(OutSeg) /\ <<>> \in Seq(InSeg) /\ <<>> \in Seq(Nat)
  OBVIOUS
<1> QED BY <1>1, <1>2 DEF Create, Block

LEMMA CreateRight == Right(Create, Create, <<>>, 0, <<>>, <<>>, <<0>>)
<1> DEFINE k == Create
<1>1. /\ k.snd_una = 0 /\ k.snd_nxt = 0 /\ k.rcv_nxt = 0 /\ k.snd_queue = <<>>
      /\ k.snd_buf = <<>> /\ k.rcv_buf = <<>> /\ k.rcv_queue = <<>> /\ k.acklist = <<>>
  BY DEF Create
<1> HIDE DEF k
<1>2. <<>> \in Seq(Piece) /\ <<0>> \in Seq(Nat) /\ Cut(<<>>, <<0>>, <<>>)
  BY DEF Cut
<1>3. SndQueueRight(<<>>, 0, <<>>) /\ SndBufRight(<<>>, 0, 0, <<>>)
  BY WindowsAre DEF SndQueueRight, SndBufRight, InOrder
<1>4. RcvBufRight(<<>>, 0, 0, <<>>) /\ RcvQueueRight(<<>>, 0, 0, <<>>)
  BY WindowsAre DEF RcvBufRight, RcvQueueRight, InOrder
<1>5. Kept(<<>>, 0, <<>>, 0) /\ AcksRight(<<>>, <<>>, 0) /\ WayRight(<<>>, k, <<>>)
  BY DEF Kept, AcksRight, WayRight
<1>6. 0 <= Len(<<>>) /\ <<0>>[0 + 1] = 0
  OBVIOUS
<1>7. Right(k, k, <<>>, 0, <<>>, <<>>, <<0>>)
  BY <1>1, <1>2, <1>3, <1>4, <1>5, <1>6 DEF Right
<1> QED BY <1>7 DEF k

LEMMA KcpInit == Init => KcpInv
<1> SUFFICES ASSUME Init PROVE KcpInv
  OBVIOUS
<1>1. KcpTypes
  <2>1. kcp \in [Ends -> Block]
    BY CreateIs DEF Init
  <2>2. net \in [Ends -> Seq(Seq(Seg))]
    BY DEF Init
  <2>3. mode \in Modes
    <3>1. PICK level \in Levels : mode = Config(level)
      BY DEF Init
    <3> QED BY <3>1, Resends DEF Config, Nodelay, Modes, Levels
  <2>4. sent \in [Ends -> Texts] /\ got \in [Ends -> Texts]
    BY DEF Init, Texts
  <2> QED BY <2>1, <2>2, <2>3, <2>4 DEF KcpTypes
<1>2. ASSUME NEW e \in Ends PROVE RightOf(e)
  <2>1. Other(e) \in Ends
    BY OtherIs
  <2>2. /\ kcp[e] = Create /\ kcp[Other(e)] = Create /\ sent[e] = <<>>
        /\ Len(got[Other(e)]) = 0 /\ net[Other(e)] = <<>>
    BY <2>1 DEF Init
  <2> QED BY <2>2, CreateRight DEF RightOf
<1> QED BY <1>1, <1>2 DEF KcpInv

LEMMA KcpInductive == KcpInv /\ [Next]_vars => KcpInv'
<1> SUFFICES ASSUME KcpInv, [Next]_vars PROVE KcpInv'
  OBVIOUS
<1>1. ASSUME NEW e \in Ends, Send(e) PROVE KcpInv'
  BY <1>1, SendKeeps
<1>2. ASSUME NEW e \in Ends, Recv(e) PROVE KcpInv'
  BY <1>2, RecvKeeps
<1>3. ASSUME NEW e \in Ends, NEW i, Input(e, i) PROVE KcpInv'
  BY <1>3, InputKeeps
<1>4. ASSUME NEW e \in Ends, FlushSome(e) PROVE KcpInv'
  <2>1. PICK due \in SUBSET InFlight(e), expired \in BOOLEAN : Flush(e, due, expired)
    BY <1>4 DEF FlushSome
  <2> QED BY <2>1, FlushKeeps
<1>5. ASSUME NEW e \in Ends, Fault(e) PROVE KcpInv'
  <2>1. PICK i \in DOMAIN net[e] : Lose(e, i) \/ Duplicate(e, i) \/ Input(e, i)
    BY <1>5 DEF Fault
  <2> QED BY <2>1, LoseKeeps, DuplicateKeeps, InputKeeps
<1>6. CASE UNCHANGED vars
  BY <1>6 DEF vars, KcpInv, KcpTypes, RightOf
<1> QED BY <1>1, <1>2, <1>3, <1>4, <1>5, <1>6 DEF Next

(* KcpCorrect: whatever the network does with the datagrams, what the      *)
(* buffers and queues of ikcpcb and the segments on their way hold are the *)
(* pieces of that number that ikcp_send made, no piece is missing between  *)
(* sender and receiver, and what is acknowledged has come.                 *)
THEOREM KcpCorrect == Spec => []KcpInv
<1> QED BY KcpInit, KcpInductive, PTL DEF Spec

LEMMA SenderIs ==
  ASSUME KcpInv, NEW e \in Ends
  PROVE  \E T : SndBufRight(kcp[e].snd_buf, kcp[e].snd_una, kcp[e].snd_nxt, T)
BY Directions DEF Right

LEMMA ReceiverIs ==
  ASSUME KcpInv, NEW e \in Ends
  PROVE  \E T, start : /\ RcvBufRight(kcp[e].rcv_buf, kcp[e].rcv_nxt, kcp[Other(e)].snd_nxt, T)
                       /\ RcvQueueRight(kcp[e].rcv_queue, kcp[e].rcv_nxt, start, T)
BY Directions DEF Right

(* TypeCorrect: whatever windows ikcp_wndsize is asked for and whatever    *)
(* the network does, the buffers are in order of sequence number and stay  *)
(* within the windows (ikcp_flush, ikcp_parse_data, ikcp_recv).            *)
THEOREM TypeCorrect == Spec => []TypeOK
<1>1. ASSUME KcpInv PROVE TypeOK
  <2> SUFFICES ASSUME NEW e \in Ends
               PROVE  LET k == kcp[e]
                          Ordered(buf) == \A i, j \in DOMAIN buf : i < j => buf[i].sn < buf[j].sn
                      IN  /\ Ordered(k.snd_buf)
                          /\ \A i \in DOMAIN k.snd_buf : Outstanding(k, k.snd_buf[i].sn)
                          /\ Ordered(k.rcv_buf)
                          /\ \A i \in DOMAIN k.rcv_buf :
                               k.rcv_buf[i].sn \in k.rcv_nxt .. k.rcv_nxt + RcvWnd - 1
                          /\ k.snd_una <= k.snd_nxt /\ k.snd_nxt - k.snd_una <= SndWnd
                          /\ Len(k.rcv_queue) <= RcvWnd /\ k.rmt_wnd \in 0..RcvWnd
                          /\ k.probe \subseteq {"ask", "tell"} /\ k.cwnd \in 0..RcvWnd
    BY DEF TypeOK
  <2> DEFINE k == kcp[e]
  <2>1. k \in Block
    BY <1>1, TypesOf
  <2>2. PICK T : SndBufRight(k.snd_buf, k.snd_una, k.snd_nxt, T)
    BY <1>1, SenderIs
  <2>3. PICK U, start : /\ RcvBufRight(k.rcv_buf, k.rcv_nxt, kcp[Other(e)].snd_nxt, U)
                        /\ RcvQueueRight(k.rcv_queue, k.rcv_nxt, start, U)
    BY <1>1, ReceiverIs
  <2> HIDE DEF k
  <2>4. /\ DOMAIN k.snd_buf = 1..Len(k.snd_buf) /\ DOMAIN k.rcv_buf = 1..Len(k.rcv_buf)
        /\ k.rcv_nxt \in Nat /\ \A i \in 1..Len(k.rcv_buf) : k.rcv_buf[i].sn \in Nat
    BY <2>1, BlockIs, ElementIs, SegmentsAreNumbered DEF Numbered
  <2>5. /\ \A i, j \in DOMAIN k.snd_buf : i < j => k.snd_buf[i].sn < k.snd_buf[j].sn
        /\ \A i \in DOMAIN k.snd_buf : Outstanding(k, k.snd_buf[i].sn)
        /\ k.snd_una <= k.snd_nxt /\ k.snd_nxt - k.snd_una <= SndWnd
    BY <2>2, <2>4 DEF SndBufRight, InOrder, Outstanding
  <2>6. \A i, j \in DOMAIN k.rcv_buf : i < j => k.rcv_buf[i].sn < k.rcv_buf[j].sn
    BY <2>3, <2>4 DEF RcvBufRight, InOrder
  <2>7. \A i \in DOMAIN k.rcv_buf : k.rcv_buf[i].sn \in k.rcv_nxt .. k.rcv_nxt + RcvWnd - 1
    BY <2>3, <2>4, WindowsAre DEF RcvBufRight
  <2>8. /\ Len(k.rcv_queue) <= RcvWnd /\ k.rmt_wnd \in 0..RcvWnd
        /\ k.probe \subseteq {"ask", "tell"} /\ k.cwnd \in 0..RcvWnd
    BY <2>1, <2>3 DEF RcvQueueRight, Block
  <2> QED BY <2>5, <2>6, <2>7, <2>8 DEF k
<1> QED BY <1>1, KcpCorrect, PTL

(* UnreceivedStaysKept: of what the other end has not received in order    *)
(* nothing is forgotten: it is still in snd_buf, or in the other's         *)
(* rcv_buf (ikcp_parse_una, ikcp_parse_ack, ikcp_shrink_buf).              *)
THEOREM UnreceivedStaysKept == Spec => []UnreceivedIsKept
<1>1. ASSUME KcpInv PROVE UnreceivedIsKept
  <2> SUFFICES ASSUME NEW e \in Ends, NEW sn \in kcp[Other(e)].rcv_nxt .. kcp[e].snd_nxt - 1
               PROVE  \/ \E i \in DOMAIN kcp[e].snd_buf : kcp[e].snd_buf[i].sn = sn
                      \/ \E i \in DOMAIN kcp[Other(e)].rcv_buf : kcp[Other(e)].rcv_buf[i].sn = sn
    BY DEF UnreceivedIsKept
  <2> DEFINE k == kcp[e]
             r == kcp[Other(e)]
  <2>1. k \in Block /\ r \in Block
    BY <1>1, OtherIs, TypesOf
  <2>2. Kept(k.snd_buf, k.snd_nxt, r.rcv_buf, r.rcv_nxt)
    BY <1>1, Directions DEF Right
  <2>3. sn \in r.rcv_nxt .. k.snd_nxt - 1
    OBVIOUS
  <2> HIDE DEF k, r
  <2>4. /\ DOMAIN k.snd_buf = 1..Len(k.snd_buf) /\ DOMAIN r.rcv_buf = 1..Len(r.rcv_buf)
        /\ r.rcv_nxt \in Nat /\ k.snd_nxt \in Nat
    BY <2>1, BlockIs, ElementIs
  <2>5. sn \in Nat /\ r.rcv_nxt <= sn /\ sn < k.snd_nxt
    BY <2>3, <2>4
  <2>6. Holds(k.snd_buf, sn) \/ Holds(r.rcv_buf, sn)
    BY <2>2, <2>5 DEF Kept
  <2> QED BY <2>4, <2>6 DEF Holds, k, r
<1> QED BY <1>1, KcpCorrect, PTL

(* KcpImplementsStream: over a network that loses, repeats and reorders    *)
(* the datagrams, two KCP ends are a pair of streams: each ikcp_recv       *)
(* returns whole the next message that the other end gave to ikcp_send.    *)
THEOREM KcpImplementsStream == Spec => ImplementsStream
<1>1. Init => Streams!Init
  BY DEF Init, Streams!Init
<1>2. ASSUME KcpInv, [Next]_vars PROVE [Streams!Next]_(Streams!vars)
  <2>1. ASSUME NEW e \in Ends, Send(e) PROVE Streams!Next
    <3>1. PICK n \in 1..WND_RCV :
            /\ Len(sent[e]) < MaxMessages
            /\ sent' = [sent EXCEPT ![e] = Append(@, Message(Len(sent[e]) + 1, n))]
      BY <2>1 DEF Send
    <3>2. Len(sent[e]) + 1 \in 1..MaxMessages
      BY <1>2, <3>1, TypesOf, Limits
    <3>3. UNCHANGED got
      BY <2>1 DEF Send
    <3> DEFINE m == Message(Len(sent[e]) + 1, n)
    <3>4. m \in Messages
      BY <3>2 DEF Messages
    <3>5. sent' = [sent EXCEPT ![e] = Append(@, m)]
      BY <3>1
    <3> HIDE DEF m
    <3>6. Streams!Put(e)
      BY <3>3, <3>4, <3>5 DEF Streams!Put
    <3> QED BY <3>6 DEF Streams!Next
  <2>2. ASSUME NEW e \in Ends, Recv(e) PROVE Streams!Next
    <3>1. Streams!Other(e) = Other(e)
      BY DEF Streams!Other, Other
    <3>2. /\ Len(got[e]) < Len(sent[Other(e)])
          /\ got' = [got EXCEPT ![e] = Append(@, sent[Other(e)][Len(@) + 1])]
          /\ sent' = sent
      BY <1>2, <2>2, RecvReads
    <3>3. Streams!Get(e)
      BY <3>1, <3>2 DEF Streams!Get
    <3> QED BY <3>3 DEF Streams!Next
  <2>3. ASSUME NEW e \in Ends, NEW i, Input(e, i) PROVE UNCHANGED Streams!vars
    BY <2>3 DEF Input, Streams!vars
  <2>4. ASSUME NEW e \in Ends, FlushSome(e) PROVE UNCHANGED Streams!vars
    BY <2>4 DEF FlushSome, Flush, Streams!vars
  <2>5. ASSUME NEW e \in Ends, Fault(e) PROVE UNCHANGED Streams!vars
    BY <2>5 DEF Fault, Lose, Duplicate, Input, Streams!vars
  <2>6. CASE UNCHANGED vars
    BY <2>6 DEF vars, Streams!vars
  <2> QED BY <1>2, <2>1, <2>2, <2>3, <2>4, <2>5, <2>6 DEF Next
<1> QED BY <1>1, <1>2, KcpCorrect, PTL DEF Spec, ImplementsStream, Streams!Spec
===============================================================================
