------------------------------ MODULE Rudp_proofs ------------------------------
(* Proofs about Rudp, for any endpoints, times and bounds: an endpoint has   *)
(* one timer at most, the one it has registered, and none once it is closed; *)
(* and who has something to go on with is queued. Until a timer can be set   *)
(* in the microsecond of a tick, what cancel names is the endpoint's own,    *)
(* and none is left waiting without its updates; until an endpoint is        *)
(* allocated where the dispatcher skips another, every start is queued.      *)
(*                                                                           *)
(* The inductive invariant relates the timers of the loop to what each       *)
(* endpoint has registered, and the endpoints to the dispatcher's queue.     *)
EXTENDS Rudp, FiniteSetTheorems, WellFoundedInduction, TLAPS

Times == 0..Horizon + 1
Callback == [owner : Endpoints, on : BOOLEAN]
Who == Endpoints \cup {Server}
Entries == [who : Who, job : Jobs]

(* The types.                                                                *)
EndpointTypes ==
  /\ state \in [Endpoints -> {"none", "open", "released"}]
  /\ co \in [Endpoints -> {"none", "new", "running", "read", "close", "done"}]
  /\ \A e \in Endpoints : /\ state[e] = "none" <=> co[e] = "none"
                          /\ state[e] = "released" <=> co[e] = "done"

KcpTypes ==
  /\ recv_queue \in [Endpoints -> Seq(Datagrams)] /\ inbox \in [Endpoints -> Nat]
  /\ unacked \in [Endpoints -> 0..MaxUnacked] /\ flush \in [Endpoints -> 0..Interval]

TimerTypes ==
  /\ slots \in [Times -> Seq(Callback)]
  /\ timer_reg \in [Endpoints -> Registration]

LoopTypes ==
  /\ pc \in {"tick", "dispatch", "select", "event"} /\ cur \in Endpoints \cup {Nobody, Server}
  /\ queue \in Seq(Entries) /\ exact \in BOOLEAN /\ instants \in 0..MaxInstants
  /\ socket \in Seq([from : Endpoints, kind : Datagrams])

(* Acknowledgements, in the kernel and in the queue, are of pieces sent.     *)
Coming(e) == Count(socket, [from |-> e, kind |-> "ack"])
Acknowledged == \A e \in Endpoints : Acks(e) + Coming(e) <= unacked[e]

(* A coroutine that runs is in an open endpoint, and runs while the loop     *)
(* dispatches.                                                               *)
Dispatches == pc \in {"dispatch", "event"}
Running == /\ cur \in Endpoints => co[cur] = "running"
           /\ ~Dispatches => cur = Nobody

(* Whom the dispatcher skips has not begun.                                  *)
Skipping == /\ freed \in Nat /\ skipped \subseteq Endpoints
            /\ \A e \in skipped : co[e] = "new"
            /\ reused \in BOOLEAN /\ (~reused => skipped = {})

(* Nobody in the dispatcher's queue was destroyed.                           *)
QueuedAreMade == \A i \in 1..Len(queue) : queue[i].who \in Endpoints => state[queue[i].who] # "none"

(* Callback i of the slot of time t is to be called for an endpoint.         *)
IsOn(sl, e, t, i) == i \in 1..Len(sl[t]) /\ sl[t][i] = [owner |-> e, on |-> TRUE]
HasTimer(sl, e) == \E t \in Times : \E i \in 1..Len(sl[t]) : IsOn(sl, e, t, i)

(* A callback that will be called is the one its owner has registered.       *)
OnIsRegistered(sl, reg, e) ==
  \A t \in Times : \A i \in 1..Len(sl[t]) : IsOn(sl, e, t, i) => reg = [id |-> i, timepoint |-> t]

(* A slot may have been made again.                                          *)
Again == instants > 0

(* What a registration names is its owner's callback: in a slot of a later   *)
(* time; and in the slot of now too, as long as it is there, while no slot   *)
(* was made again (h): until the tick, which ends an exact multiple (x).     *)
Lives(sl, reg, x, h) ==
  /\ reg.id >= 0
  /\ \/ reg.timepoint > 0
     \/ reg.timepoint = 0 /\ ~h /\ (x \/ sl[0] # <<>>)
NamesOwn(sl, reg, e, x, h) ==
  Lives(sl, reg, x, h) => reg.id \in 1..Len(sl[reg.timepoint]) /\ sl[reg.timepoint][reg.id].owner = e

Right(sl, reg, e, x, h) == OnIsRegistered(sl, reg, e) /\ NamesOwn(sl, reg, e, x, h)
TimersRight == \A e \in Endpoints : /\ Right(slots, timer_reg[e], e, exact, Again)
                                    /\ state[e] # "open" => timer_reg[e] = NotRegistered

(* An endpoint whose coroutine waits has a timer, or its function is queued. *)
Timed == ~Again =>
           \A e \in Endpoints :
             co[e] \in {"read", "close"} =>
               HasTimer(slots, e) \/ \E i \in 1..Len(queue) : queue[i] = Entry(e, "update")

RudpTypes == EndpointTypes /\ KcpTypes /\ TimerTypes /\ LoopTypes
RudpInv == /\ RudpTypes /\ Acknowledged /\ Running /\ Skipping /\ QueuedAreMade
           /\ TimersRight /\ Timed
------------------------------------------------------------------------------
(* Sequences.                                                                *)

LEMMA Induction ==
  ASSUME NEW S \in SUBSET Nat, 0 \in S, \A n \in S : n + 1 \in S
  PROVE  S = Nat
<1> SUFFICES ASSUME Nat \ S # {} PROVE FALSE
  OBVIOUS
<1>1. PICK m \in Nat \ S : \A k \in Nat \ S : ~ (<<k, m>> \in OpToRel(<, Nat))
  BY NatLessThanWellFounded, WFMin
<1>2. \A k \in Nat \ S : ~ (k < m)
  BY <1>1 DEF OpToRel
<1>3. m - 1 \in Nat /\ m - 1 < m
  OBVIOUS
<1>4. m - 1 \in S
  BY <1>2, <1>3
<1>5. (m - 1) + 1 \in S /\ (m - 1) + 1 = m
  BY <1>4
<1> QED BY <1>5

LEMMA TailIs ==
  ASSUME NEW T, NEW s \in Seq(T), s # <<>>
  PROVE  /\ Tail(s) \in Seq(T) /\ Len(Tail(s)) = Len(s) - 1 /\ Len(s) \in Nat \ {0}
         /\ \A i \in 1..Len(Tail(s)) : i + 1 \in 1..Len(s) /\ Tail(s)[i] = s[i + 1]
         /\ \A i \in 1..Len(s) : i = 1 \/ (i - 1 \in 1..Len(Tail(s)) /\ Tail(s)[i - 1] = s[i])
         /\ Head(s) = s[1] /\ 1 \in 1..Len(s) /\ s[1] \in T
OBVIOUS

LEMMA HeadIs ==
  ASSUME NEW T, NEW s \in Seq(T), s # <<>>
  PROVE  Tail(s) \in Seq(T) /\ Head(s) \in T
BY TailIs

LEMMA AppendIs ==
  ASSUME NEW T, NEW s \in Seq(T), NEW x \in T
  PROVE  LET r == Append(s, x)
         IN  /\ r \in Seq(T) /\ Len(r) = Len(s) + 1 /\ Len(s) \in Nat
             /\ r[Len(s) + 1] = x /\ \A i \in 1..Len(s) : i \in 1..Len(r) /\ r[i] = s[i]
             /\ \A i \in 1..Len(r) : i \in 1..Len(s) \/ i = Len(s) + 1
OBVIOUS

LEMMA ConcatIs ==
  ASSUME NEW T, NEW s \in Seq(T), NEW u \in Seq(T)
  PROVE  LET r == s \o u
         IN  /\ r \in Seq(T) /\ Len(r) = Len(s) + Len(u) /\ Len(s) \in Nat /\ Len(u) \in Nat
             /\ \A i \in 1..Len(s) : i \in 1..Len(r) /\ r[i] = s[i]
             /\ \A i \in 1..Len(u) : Len(s) + i \in 1..Len(r) /\ r[Len(s) + i] = u[i]
             /\ \A i \in 1..Len(r) :
                  i \in 1..Len(s) \/ (i - Len(s) \in 1..Len(u) /\ i = Len(s) + (i - Len(s)))
<1> DEFINE r == s \o u
<1>1. r \in Seq(T) /\ Len(r) = Len(s) + Len(u) /\ Len(s) \in Nat /\ Len(u) \in Nat
  OBVIOUS
<1>2. \A i \in 1..Len(s) : r[i] = s[i]
  OBVIOUS
<1>3. \A i \in 1..Len(u) : r[Len(s) + i] = u[i]
  OBVIOUS
<1> HIDE DEF r
<1>4. /\ \A i \in 1..Len(s) : i \in 1..Len(r)
      /\ \A i \in 1..Len(u) : Len(s) + i \in 1..Len(r)
      /\ \A i \in 1..Len(r) :
           i \in 1..Len(s) \/ (i - Len(s) \in 1..Len(u) /\ i = Len(s) + (i - Len(s)))
  BY <1>1
<1> QED BY <1>1, <1>2, <1>3, <1>4 DEF r

(* One step of the filter.                                                   *)
Kept(f, s, S, i) == IF i = 0 THEN <<>>
                    ELSE IF s[i] \in S THEN Append(f[i - 1], s[i])
                    ELSE f[i - 1]
IsFilter(f, s, S, n) == f = [i \in 0..n |-> Kept(f, s, S, i)]

LEMMA FilterExists ==
  ASSUME NEW s, NEW S, NEW n \in Nat
  PROVE  \E f : IsFilter(f, s, S, n)
<1> DEFINE M == {m \in Nat : \E f : IsFilter(f, s, S, m)}
<1>1. 0 \in M
  <2> DEFINE f == [i \in 0..0 |-> <<>>]
  <2>1. \A i \in 0..0 : i = 0 /\ Kept(f, s, S, i) = <<>>
    BY DEF Kept
  <2>2. IsFilter(f, s, S, 0)
    BY <2>1 DEF IsFilter
  <2> HIDE DEF f
  <2> QED BY <2>2
<1>2. ASSUME NEW m \in M PROVE m + 1 \in M
  <2>1. PICK f : IsFilter(f, s, S, m)
    OBVIOUS
  <2> DEFINE g == [i \in 0..(m + 1) |-> IF i = m + 1 THEN Kept(f, s, S, i) ELSE f[i]]
  <2>2. ASSUME NEW i \in 0..(m + 1) PROVE g[i] = Kept(g, s, S, i)
    <3>1. CASE i = 0
      <4>1. g[i] = f[i] /\ f[i] = Kept(f, s, S, i)
        BY <2>1, <3>1 DEF IsFilter
      <4> QED BY <3>1, <4>1 DEF Kept
    <3>2. CASE i # 0
      <4>1. i - 1 \in 0..m /\ g[i - 1] = f[i - 1]
        BY <3>2
      <4>2. g[i] = Kept(f, s, S, i)
        BY <2>1, <3>2 DEF IsFilter
      <4> HIDE DEF g
      <4> QED BY <3>2, <4>1, <4>2 DEF Kept
    <3> QED BY <3>1, <3>2
  <2>3. IsFilter(g, s, S, m + 1)
    <3>1. g = [i \in 0..(m + 1) |-> g[i]]
      OBVIOUS
    <3> HIDE DEF g
    <3> QED BY <2>2, <3>1 DEF IsFilter
  <2> HIDE DEF g
  <2> QED BY <2>3
<1>3. M = Nat
  <2> HIDE DEF M
  <2>1. M \in SUBSET Nat
    BY DEF M
  <2> QED BY <1>1, <1>2, <2>1, Induction
<1> QED BY <1>3

(* The filter keeps what is in S, and nothing else.                          *)
LEMMA OnlyIs ==
  ASSUME NEW T, NEW s \in Seq(T), NEW S
  PROVE  LET r == Only(s, S)
         IN  /\ r \in Seq(T)
             /\ \A i \in 1..Len(r) : r[i] \in S /\ \E j \in 1..Len(s) : r[i] = s[j]
             /\ \A j \in 1..Len(s) : s[j] \in S => \E i \in 1..Len(r) : r[i] = s[j]
<1> DEFINE n == Len(s)
           kept[i \in 0..n] == IF i = 0 THEN <<>>
                               ELSE IF s[i] \in S THEN Append(kept[i - 1], s[i])
                               ELSE kept[i - 1]
<1>1. Only(s, S) = kept[n]
  BY DEF Only
<1>2. n \in Nat /\ \A i \in 1..n : s[i] \in T
  OBVIOUS
<1>3. kept = [i \in 0..n |-> Kept(kept, s, S, i)]
  <2>1. \E f : IsFilter(f, s, S, n)
    <3> HIDE DEF n, kept
    <3> QED BY <1>2, FilterExists, Zenon
  <2> QED BY <2>1 DEF Kept, IsFilter
<1> HIDE DEF kept, n
<1> DEFINE Good(k, r) ==
             /\ r \in Seq(T)
             /\ \A i \in 1..Len(r) : r[i] \in S /\ \E j \in 1..k : r[i] = s[j]
             /\ \A j \in 1..k : s[j] \in S => \E i \in 1..Len(r) : r[i] = s[j]
           K == {k \in Nat : k <= n => Good(k, kept[k])}
<1>4. 0 \in K
  <2>1. kept[0] = <<>>
    <3>1. 0 \in 0..n
      BY <1>2
    <3>2. kept[0] = Kept(kept, s, S, 0)
      BY <1>3, <3>1
    <3> QED BY <3>2 DEF Kept
  <2>2. Good(0, <<>>)
    OBVIOUS
  <2> HIDE DEF Good
  <2> QED BY <2>1, <2>2
<1>5. ASSUME NEW k \in K PROVE k + 1 \in K
  <2> SUFFICES ASSUME k + 1 <= n PROVE Good(k + 1, kept[k + 1])
    <3> HIDE DEF Good
    <3> QED OBVIOUS
  <2> DEFINE r == kept[k]
             x == s[k + 1]
  <2>1. k \in Nat /\ k <= n
    BY <1>2
  <2>2. Good(k, r)
    <3> HIDE DEF Good
    <3> QED BY <2>1
  <2>3. kept[k + 1] = IF x \in S THEN Append(r, x) ELSE r
    <3>1. k + 1 \in 0..n /\ k + 1 # 0 /\ (k + 1) - 1 = k
      BY <1>2, <2>1
    <3>2. kept[k + 1] = Kept(kept, s, S, k + 1)
      BY <1>3, <3>1
    <3> QED BY <3>1, <3>2 DEF Kept
  <2>4. x \in T
    BY <1>2, <2>1
  <2>5. /\ \A j \in 1..(k + 1) : j \in 1..k \/ j = k + 1
        /\ \A j \in 1..k : j \in 1..(k + 1)
        /\ k + 1 \in 1..(k + 1)
    BY <2>1
  <2> HIDE DEF r
  <2>6. CASE x \notin S
    <3>1. ASSUME NEW j \in 1..(k + 1), s[j] \in S PROVE \E i \in 1..Len(r) : r[i] = s[j]
      BY <2>2, <2>5, <2>6, <3>1
    <3>2. Good(k + 1, r)
      BY <2>2, <2>5, <3>1
    <3> HIDE DEF Good
    <3> QED BY <2>3, <2>6, <3>2
  <2>7. CASE x \in S
    <3> DEFINE z == Append(r, x)
    <3>1. /\ z \in Seq(T) /\ Len(z) = Len(r) + 1 /\ Len(r) \in Nat
          /\ z[Len(r) + 1] = x /\ Len(r) + 1 \in 1..Len(z)
          /\ \A i \in 1..Len(r) : i \in 1..Len(z) /\ z[i] = r[i]
          /\ \A i \in 1..Len(z) : i \in 1..Len(r) \/ i = Len(r) + 1
      BY <2>2, <2>4
    <3> HIDE DEF z
    <3>2. ASSUME NEW i \in 1..Len(z) PROVE z[i] \in S /\ \E j \in 1..(k + 1) : z[i] = s[j]
      <4>1. CASE i \in 1..Len(r)
        <5>1. z[i] = r[i] /\ r[i] \in S
          BY <2>2, <3>1, <4>1
        <5>2. PICK j \in 1..k : r[i] = s[j]
          BY <2>2, <4>1
        <5> QED BY <2>5, <5>1, <5>2
      <4>2. CASE i = Len(r) + 1
        BY <2>5, <2>7, <3>1, <4>2
      <4> QED BY <3>1, <4>1, <4>2
    <3>3. ASSUME NEW j \in 1..(k + 1), s[j] \in S PROVE \E i \in 1..Len(z) : z[i] = s[j]
      <4>1. CASE j \in 1..k
        <5>1. PICK i \in 1..Len(r) : r[i] = s[j]
          BY <2>2, <3>3, <4>1
        <5> QED BY <3>1, <5>1
      <4>2. CASE j = k + 1
        BY <3>1, <4>2
      <4> QED BY <2>5, <4>1, <4>2
    <3>4. Good(k + 1, z)
      BY <3>1, <3>2, <3>3
    <3> HIDE DEF Good
    <3> QED BY <2>3, <2>7, <3>4 DEF z
  <2> QED BY <2>6, <2>7
<1>6. K = Nat
  <2> HIDE DEF K
  <2>1. K \in SUBSET Nat
    BY DEF K
  <2> QED BY <1>4, <1>5, <2>1, Induction
<1>7. Good(n, kept[n])
  <2> HIDE DEF Good
  <2>1. n \in K /\ n <= n
    BY <1>2, <1>6
  <2> QED BY <2>1
<1> QED BY <1>1, <1>7 DEF n

(* r is what s has of S: nothing else, and nothing of S left out.            *)
IsOnly(r, s, S, T) ==
  /\ r \in Seq(T)
  /\ \A i \in 1..Len(r) : r[i] \in S /\ \E j \in 1..Len(s) : r[i] = s[j]
  /\ \A j \in 1..Len(s) : s[j] \in S => \E i \in 1..Len(r) : r[i] = s[j]
LEMMA OnlyOf ==
  ASSUME NEW T, NEW s \in Seq(T), NEW S
  PROVE  IsOnly(Only(s, S), s, S, T)
BY OnlyIs DEF IsOnly
------------------------------------------------------------------------------
(* Counting.                                                                 *)

PlacesOf(s, x) == {i \in 1..Len(s) : s[i] = x}
LEMMA CountIs ==
  ASSUME NEW T, NEW s \in Seq(T), NEW x
  PROVE  /\ IsFiniteSet(PlacesOf(s, x)) /\ Count(s, x) = Cardinality(PlacesOf(s, x))
         /\ Count(s, x) \in Nat
<1>1. PlacesOf(s, x) \subseteq 1..Len(s) /\ 1 \in Int /\ Len(s) \in Int
  BY DEF PlacesOf
<1>2. IsFiniteSet(PlacesOf(s, x))
  BY <1>1, FS_Interval, FS_Subset
<1>3. DOMAIN s = 1..Len(s)
  OBVIOUS
<1> QED BY <1>2, <1>3, FS_CardinalityType DEF Count, PlacesOf

LEMMA CountEmpty ==
  ASSUME NEW x
  PROVE  Count(<<>>, x) = 0
<1>1. {i \in DOMAIN <<>> : <<>>[i] = x} = {}
  OBVIOUS
<1> QED BY <1>1, FS_EmptySet DEF Count

LEMMA CountAppend ==
  ASSUME NEW T, NEW s \in Seq(T), NEW y \in T, NEW x
  PROVE  Count(Append(s, y), x) = Count(s, x) + (IF y = x THEN 1 ELSE 0)
<1> DEFINE r == Append(s, y)
<1>1. /\ r \in Seq(T) /\ Len(r) = Len(s) + 1 /\ Len(s) \in Nat /\ r[Len(s) + 1] = y
      /\ \A i \in 1..Len(s) : i \in 1..Len(r) /\ r[i] = s[i]
      /\ \A i \in 1..Len(r) : i \in 1..Len(s) \/ i = Len(s) + 1
  BY AppendIs
<1> HIDE DEF r
<1>2. /\ IsFiniteSet(PlacesOf(s, x)) /\ Count(s, x) = Cardinality(PlacesOf(s, x))
      /\ Count(r, x) = Cardinality(PlacesOf(r, x)) /\ Count(s, x) \in Nat
  BY <1>1, CountIs
<1>3. Len(s) + 1 \notin PlacesOf(s, x) /\ Len(s) + 1 \in 1..Len(r)
  BY <1>1 DEF PlacesOf
<1>4. CASE y = x
  <2>1. PlacesOf(r, x) = PlacesOf(s, x) \cup {Len(s) + 1}
    BY <1>1, <1>3, <1>4 DEF PlacesOf
  <2>2. Cardinality(PlacesOf(r, x)) = Cardinality(PlacesOf(s, x)) + 1
    BY <1>2, <1>3, <2>1, FS_AddElement
  <2> QED BY <1>2, <1>4, <2>2 DEF r
<1>5. CASE y # x
  <2>1. PlacesOf(r, x) = PlacesOf(s, x)
    BY <1>1, <1>5 DEF PlacesOf
  <2> QED BY <1>2, <1>5, <2>1 DEF r
<1> QED BY <1>4, <1>5

LEMMA CountTail ==
  ASSUME NEW T, NEW s \in Seq(T), s # <<>>, NEW x
  PROVE  Count(s, x) = Count(Tail(s), x) + (IF Head(s) = x THEN 1 ELSE 0)
<1> DEFINE r == Tail(s)
           P == PlacesOf(s, x)
           Q == PlacesOf(r, x)
           f == [i \in Q |-> i + 1]
<1>1. /\ r \in Seq(T) /\ Len(r) = Len(s) - 1 /\ Len(s) \in Nat \ {0}
      /\ \A i \in 1..Len(r) : i + 1 \in 1..Len(s) /\ r[i] = s[i + 1]
      /\ \A i \in 1..Len(s) : i = 1 \/ (i - 1 \in 1..Len(r) /\ r[i - 1] = s[i])
      /\ Head(s) = s[1] /\ 1 \in 1..Len(s)
  BY TailIs
<1> HIDE DEF r
<1>2. /\ IsFiniteSet(P) /\ Count(s, x) = Cardinality(P)
      /\ IsFiniteSet(Q) /\ Count(r, x) = Cardinality(Q) /\ Count(r, x) \in Nat
  BY <1>1, CountIs
<1>3. \A i \in Q : i \in Nat \ {0} /\ i + 1 \in P \ {1}
  BY <1>1 DEF PlacesOf
<1>4. \A i \in P \ {1} : i \in Nat /\ i - 1 \in Q /\ (i - 1) + 1 = i
  BY <1>1 DEF PlacesOf
<1>5. f \in Bijection(Q, P \ {1})
  <2>1. f \in [Q -> P \ {1}]
    BY <1>3
  <2>2. \A i, j \in Q : f[i] = f[j] => i = j
    BY <1>3
  <2>3. ASSUME NEW i \in P \ {1} PROVE \E j \in Q : f[j] = i
    <3>1. i - 1 \in Q /\ f[i - 1] = i
      BY <1>4
    <3> QED BY <3>1
  <2> HIDE DEF f, P, Q
  <2> QED BY <2>1, <2>2, <2>3 DEF Bijection, Injection, Surjection, IsInjective, Range
<1>6. Cardinality(P \ {1}) = Cardinality(Q)
  <2>1. ExistsBijection(Q, P \ {1})
    BY <1>5 DEF ExistsBijection
  <2> HIDE DEF P, Q
  <2> QED BY <1>2, <2>1, FS_Bijection
<1>7. 1 \in P <=> Head(s) = x
  BY <1>1 DEF PlacesOf
<1> HIDE DEF P, Q, f
<1>8. CASE 1 \in P
  <2>1. Cardinality(P \ {1}) = Cardinality(P) - 1 /\ Cardinality(P) \in Nat
    BY <1>2, <1>8, FS_RemoveElement, FS_CardinalityType
  <2> QED BY <1>2, <1>6, <1>7, <1>8, <2>1 DEF r
<1>9. CASE 1 \notin P
  <2>1. P \ {1} = P
    BY <1>9
  <2>2. Count(s, x) = Count(r, x)
    BY <1>2, <1>6, <2>1
  <2>3. Count(s, x) = Count(r, x) + 0
    BY <1>2, <2>2
  <2> QED BY <1>7, <1>9, <2>3 DEF r
<1> QED BY <1>8, <1>9
------------------------------------------------------------------------------
(* The timers.                                                               *)

LEMMA ReplaceIs ==
  ASSUME NEW T, NEW s \in Seq(T), NEW k \in 1..Len(s), NEW x \in T
  PROVE  LET r == [s EXCEPT ![k] = x]
         IN  /\ r \in Seq(T) /\ Len(r) = Len(s) /\ r[k] = x
             /\ \A i \in 1..Len(s) : i # k => r[i] = s[i]
OBVIOUS

LEMMA TimesAre ==
  /\ Horizon \in Nat /\ 0 \in Times /\ -1 \notin Times /\ Past = -1
  /\ \A t \in Times : t \in Nat
  /\ \A d \in 0..Interval : d \in 0..Horizon /\ d \in Nat
  /\ \A d \in 0..Horizon : d + 1 \in Times /\ d + 1 > 0 /\ d + 1 # 0
  /\ Interval \in Nat
BY HorizonAssumption, TimeAssumption DEF Times, Past

LEMMA RegistrationIs ==
  ASSUME NEW reg \in Registration
  PROVE  /\ reg.id \in Int /\ (reg.id >= 0 <=> reg.id # -1) /\ reg = [id |-> reg.id, timepoint |-> reg.timepoint]
         /\ reg.timepoint = -1 \/ (reg.timepoint \in Times /\ reg.timepoint \in Nat)
<1>1. reg \in [id : {-1} \cup Nat, timepoint : (-1)..(Horizon + 1)]
  BY DEF Registration, Past
<1>2. reg.id \in {-1} \cup Nat /\ reg.timepoint \in (-1)..(Horizon + 1)
  BY <1>1
<1>3. reg = [id |-> reg.id, timepoint |-> reg.timepoint]
  BY <1>1
<1>4. reg.timepoint = -1 \/ (reg.timepoint \in 0..(Horizon + 1) /\ reg.timepoint \in Nat)
  BY <1>2, HorizonAssumption
<1> QED BY <1>2, <1>3, <1>4 DEF Times

(* Cancelling what an endpoint has registered leaves it without a timer, and *)
(* the others with theirs, unless a slot was made again.                     *)
SameSlots(c, sl, e, h) ==
  \A t \in Times :
    /\ Len(c[t]) = Len(sl[t])
    /\ \A i \in 1..Len(sl[t]) :
         /\ c[t][i].owner = sl[t][i].owner
         /\ c[t][i] = sl[t][i] \/ (c[t][i].on = FALSE /\ (sl[t][i].owner = e \/ h))
LEMMA CancelIs ==
  ASSUME NEW sl \in [Times -> Seq(Callback)], NEW e \in Endpoints, NEW reg \in Registration,
         NEW x, NEW h, Right(sl, reg, e, x, h)
  PROVE  LET c == IF reg.id >= 0 THEN Cancel(sl, reg) ELSE sl
         IN  /\ c \in [Times -> Seq(Callback)]
             /\ SameSlots(c, sl, e, h)
             /\ \A t \in Times, i \in Nat : ~IsOn(c, e, t, i)
<1> DEFINE tp == reg.timepoint
           id == reg.id
           c == IF reg.id >= 0 THEN Cancel(sl, reg) ELSE sl
<1>1. /\ id \in Int /\ (tp = -1 \/ (tp \in Times /\ tp \in Nat))
      /\ \A t \in Times : t \in Nat
  BY RegistrationIs, TimesAre
<1>2. ASSUME NEW t \in Times, NEW i \in Nat, IsOn(sl, e, t, i)
      PROVE  id = i /\ tp = t /\ id \in 1..Len(sl[tp])
  <2>1. i \in 1..Len(sl[t])
    BY <1>2 DEF IsOn
  <2>2. reg = [id |-> i, timepoint |-> t]
    BY <1>2, <2>1 DEF Right, OnIsRegistered
  <2>3. id = i /\ tp = t
    BY <2>2
  <2> QED BY <2>1, <2>3
<1>3. CASE id >= 0 /\ tp \in Times /\ id \in 1..Len(sl[tp])
  <2>1. tp # -1 /\ sl[tp] \in Seq(Callback) /\ sl[tp] # <<>> /\ sl[tp][id] \in Callback
    BY <1>1, <1>3, TimesAre
  <2> DEFINE y == [sl[tp][id] EXCEPT !.on = FALSE]
             s == [sl[tp] EXCEPT ![id] = y]
  <2>2. c = [sl EXCEPT ![tp] = s]
    BY <1>3, <2>1 DEF Cancel, Past
  <2>3. y \in Callback /\ y.owner = sl[tp][id].owner /\ y.on = FALSE
    BY <2>1 DEF Callback
  <2> HIDE DEF y
  <2>4. /\ s \in Seq(Callback) /\ Len(s) = Len(sl[tp]) /\ s[id] = y
        /\ \A i \in 1..Len(sl[tp]) : i # id => s[i] = sl[tp][i]
    BY <1>3, <2>1, <2>3, ReplaceIs
  <2> HIDE DEF s, c
  <2>5. c \in [Times -> Seq(Callback)] /\ c[tp] = s /\ \A t \in Times : t # tp => c[t] = sl[t]
    BY <1>3, <2>2, <2>4
  <2>6. sl[tp][id].owner = e \/ h
    <3> SUFFICES ASSUME ~h PROVE sl[tp][id].owner = e
      OBVIOUS
    <3>1. tp > 0 \/ (tp = 0 /\ sl[0] # <<>>)
      BY <1>1, <1>3, <2>1
    <3>2. Lives(sl, reg, x, h)
      BY <1>3, <3>1 DEF Lives
    <3> QED BY <3>2 DEF Right, NamesOwn
  <2>7. SameSlots(c, sl, e, h)
    <3> SUFFICES ASSUME NEW t \in Times
                 PROVE  /\ Len(c[t]) = Len(sl[t])
                        /\ \A i \in 1..Len(sl[t]) :
                             /\ c[t][i].owner = sl[t][i].owner
                             /\ \/ c[t][i] = sl[t][i]
                                \/ c[t][i].on = FALSE /\ (sl[t][i].owner = e \/ h)
      BY DEF SameSlots
    <3>1. CASE t # tp
      BY <2>5, <3>1
    <3>2. CASE t = tp
      <4> SUFFICES ASSUME NEW i \in 1..Len(sl[t])
                   PROVE  /\ s[i].owner = sl[tp][i].owner
                          /\ \/ s[i] = sl[tp][i]
                             \/ s[i].on = FALSE /\ (sl[tp][i].owner = e \/ h)
        BY <2>4, <2>5, <3>2
      <4>1. CASE i = id
        BY <2>3, <2>4, <2>6, <4>1
      <4>2. CASE i # id
        BY <2>4, <3>2, <4>2
      <4> QED BY <4>1, <4>2
    <3> QED BY <3>1, <3>2
  <2>8. ASSUME NEW t \in Times, NEW i \in Nat, IsOn(c, e, t, i)
        PROVE  FALSE
    <3>1. i \in 1..Len(c[t]) /\ c[t][i] = [owner |-> e, on |-> TRUE]
      BY <2>8 DEF IsOn
    <3>2. t # tp \/ i # id
      BY <2>3, <2>4, <2>5, <3>1
    <3>3. c[t][i] = sl[t][i] /\ i \in 1..Len(sl[t])
      <4>1. CASE t # tp
        BY <2>5, <3>1, <4>1
      <4>2. CASE t = tp
        BY <2>4, <2>5, <3>1, <3>2, <4>2
      <4> QED BY <4>1, <4>2
    <3>4. IsOn(sl, e, t, i)
      BY <3>1, <3>3 DEF IsOn
    <3> QED BY <1>2, <3>2, <3>4
  <2> QED BY <2>5, <2>7, <2>8 DEF c
<1>4. CASE ~(id >= 0 /\ tp \in Times /\ id \in 1..Len(sl[tp]))
  <2>1. c = sl
    <3>1. CASE id >= 0 /\ tp \in Times
      <4>1. tp # -1 /\ sl[tp] \in Seq(Callback) /\ id \notin 1..Len(sl[tp])
        BY <1>1, <1>4, <3>1, TimesAre
      <4> DEFINE s == [sl[tp] EXCEPT ![id].on = FALSE]
      <4>2. s = sl[tp]
        BY <4>1
      <4>3. c = sl \/ c = [sl EXCEPT ![tp] = s]
        BY <3>1, <4>1 DEF Cancel, Past
      <4> HIDE DEF s, c
      <4> QED BY <4>2, <4>3
    <3>2. CASE id >= 0 /\ tp = -1
      BY <3>2 DEF Cancel, Past
    <3> QED BY <1>1, <3>1, <3>2
  <2> HIDE DEF c
  <2>2. \A t \in Times, i \in Nat : ~IsOn(c, e, t, i)
    <3> SUFFICES ASSUME NEW t \in Times, NEW i \in Nat, IsOn(sl, e, t, i) PROVE FALSE
      BY <2>1
    <3> QED BY <1>1, <1>2, <1>4
  <2> QED BY <2>1, <2>2 DEF SameSlots, c
<1> QED BY <1>3, <1>4

LEMMA CancelKeepsOthers ==
  ASSUME NEW sl \in [Times -> Seq(Callback)], NEW c \in [Times -> Seq(Callback)],
         NEW e \in Endpoints, NEW x, NEW h, SameSlots(c, sl, e, h),
         NEW f \in Endpoints, f # e, NEW reg \in Registration, Right(sl, reg, f, x, h)
  PROVE  Right(c, reg, f, x, h)
<1>1. ASSUME NEW t \in Times, NEW i \in 1..Len(sl[t])
      PROVE  /\ Len(c[t]) = Len(sl[t]) /\ i \in 1..Len(c[t])
             /\ sl[t][i].owner = c[t][i].owner
             /\ c[t][i] = sl[t][i] \/ (c[t][i].on = FALSE /\ (sl[t][i].owner = e \/ h))
  BY DEF SameSlots
<1>2. ASSUME NEW t \in Times, NEW i \in 1..Len(c[t]), IsOn(c, f, t, i)
      PROVE  i \in 1..Len(sl[t]) /\ IsOn(sl, f, t, i)
  <2>1. i \in 1..Len(sl[t]) /\ c[t][i] = [owner |-> f, on |-> TRUE]
    BY <1>2 DEF SameSlots, IsOn
  <2>2. c[t][i].on = TRUE
    BY <2>1
  <2>3. c[t][i] = sl[t][i]
    BY <1>1, <2>1, <2>2
  <2> QED BY <2>1, <2>3 DEF IsOn
<1>3. OnIsRegistered(c, reg, f)
  BY <1>2 DEF OnIsRegistered, Right
<1>4. NamesOwn(c, reg, f, x, h)
  <2> SUFFICES ASSUME Lives(c, reg, x, h)
               PROVE  reg.id \in 1..Len(c[reg.timepoint]) /\ c[reg.timepoint][reg.id].owner = f
    BY DEF NamesOwn
  <2>1. reg.timepoint \in Times
    BY RegistrationIs DEF Lives
  <2>2. c[0] # <<>> => sl[0] # <<>>
    <3>1. Len(c[0]) = Len(sl[0]) /\ c[0] \in Seq(Callback) /\ sl[0] \in Seq(Callback)
      BY TimesAre DEF SameSlots
    <3> QED BY <3>1
  <2>3. Lives(sl, reg, x, h)
    BY <2>2 DEF Lives
  <2>4. reg.id \in 1..Len(sl[reg.timepoint]) /\ sl[reg.timepoint][reg.id].owner = f
    BY <2>3 DEF Right, NamesOwn
  <2> QED BY <1>1, <2>1, <2>4
<1> QED BY <1>3, <1>4 DEF Right

LEMMA CancelKeepsTimers ==
  ASSUME NEW sl, NEW c, NEW e, SameSlots(c, sl, e, FALSE), NEW f, f # e, HasTimer(sl, f)
  PROVE  HasTimer(c, f)
<1> SUFFICES ASSUME NEW t \in Times, NEW i \in 1..Len(sl[t]), IsOn(sl, f, t, i)
             PROVE  HasTimer(c, f)
  BY DEF HasTimer
<1>1. i \in 1..Len(c[t]) /\ sl[t][i] = [owner |-> f, on |-> TRUE]
  BY DEF SameSlots, IsOn
<1>2. sl[t][i].owner # e
  BY <1>1
<1>3. IsOn(c, f, t, i)
  BY <1>1, <1>2 DEF SameSlots, IsOn
<1> QED BY <1>1, <1>3 DEF HasTimer

(* Inserting a timer: one more callback, at the end of its slot.             *)
LEMMA InsertIs ==
  ASSUME NEW sl \in [Times -> Seq(Callback)], NEW e \in Endpoints, NEW d \in Times
  PROVE  LET c == Insert(sl, e, d)
             n == Len(sl[d])
         IN  /\ c \in [Times -> Seq(Callback)] /\ n \in Nat
             /\ \A t \in Times : t # d => c[t] = sl[t]
             /\ Len(c[d]) = n + 1 /\ c[d][n + 1] = [owner |-> e, on |-> TRUE]
             /\ \A i \in 1..n : c[d][i] = sl[d][i]
<1> DEFINE c == Insert(sl, e, d)
           x == [owner |-> e, on |-> TRUE]
           s == Append(sl[d], x)
<1>1. sl[d] \in Seq(Callback) /\ x \in Callback
  BY DEF Callback
<1>2. c = [sl EXCEPT ![d] = s]
  BY <1>1 DEF Insert
<1> HIDE DEF x
<1>3. /\ s \in Seq(Callback) /\ Len(s) = Len(sl[d]) + 1 /\ Len(sl[d]) \in Nat
      /\ s[Len(sl[d]) + 1] = x /\ \A i \in 1..Len(sl[d]) : s[i] = sl[d][i]
  BY <1>1, AppendIs
<1> HIDE DEF s, c
<1>4. /\ c \in [Times -> Seq(Callback)] /\ c[d] = s
      /\ \A t \in Times : t # d => c[t] = sl[t]
  BY <1>1, <1>2, <1>3
<1> QED BY <1>1, <1>3, <1>4 DEF x, c

LEMMA InsertKeepsOthers ==
  ASSUME NEW sl \in [Times -> Seq(Callback)], NEW e \in Endpoints, NEW d \in Times,
         NEW x, NEW h, d = 0 => x,
         NEW f \in Endpoints, f # e, NEW reg \in Registration, Right(sl, reg, f, x, h)
  PROVE  Right(Insert(sl, e, d), reg, f, x, h) /\ (HasTimer(sl, f) => HasTimer(Insert(sl, e, d), f))
<1> DEFINE c == Insert(sl, e, d)
           n == Len(sl[d])
<1>1. /\ c \in [Times -> Seq(Callback)] /\ n \in Nat
      /\ \A t \in Times : t # d => c[t] = sl[t]
      /\ Len(c[d]) = n + 1 /\ c[d][n + 1] = [owner |-> e, on |-> TRUE]
      /\ \A i \in 1..n : c[d][i] = sl[d][i]
  BY InsertIs
<1> HIDE DEF c
<1>3. ASSUME NEW t \in Times, NEW i \in 1..Len(sl[t])
      PROVE  i \in 1..Len(c[t]) /\ c[t][i] = sl[t][i]
  <2>1. CASE t = d
    BY <1>1, <2>1
  <2>2. CASE t # d
    BY <1>1, <2>2
  <2> QED BY <2>1, <2>2
<1>4. ASSUME NEW t \in Times, NEW i \in 1..Len(c[t]), IsOn(c, f, t, i)
      PROVE  i \in 1..Len(sl[t]) /\ IsOn(sl, f, t, i)
  <2>1. c[t][i] = [owner |-> f, on |-> TRUE]
    BY <1>4 DEF IsOn
  <2>2. CASE t = d
    <3>1. i # n + 1
      <4>1. c[t][i].owner = f
        BY <2>1
      <4>2. c[d][n + 1].owner = e
        BY <1>1
      <4> QED BY <2>2, <4>1, <4>2
    <3>2. i \in 1..n
      BY <1>1, <2>2, <3>1
    <3> QED BY <1>1, <2>1, <2>2, <3>2 DEF IsOn
  <2>3. CASE t # d
    BY <1>1, <2>1, <2>3 DEF IsOn
  <2> QED BY <2>2, <2>3
<1>5. OnIsRegistered(c, reg, f)
  BY <1>4 DEF OnIsRegistered, Right
<1>6. NamesOwn(c, reg, f, x, h)
  <2> SUFFICES ASSUME Lives(c, reg, x, h)
               PROVE  reg.id \in 1..Len(c[reg.timepoint]) /\ c[reg.timepoint][reg.id].owner = f
    BY DEF NamesOwn
  <2>1. reg.timepoint \in Times
    BY RegistrationIs DEF Lives
  <2>2. x \/ c[0] = sl[0]
    BY <1>1, TimesAre
  <2>3. Lives(sl, reg, x, h)
    BY <2>2 DEF Lives
  <2>4. reg.id \in 1..Len(sl[reg.timepoint]) /\ sl[reg.timepoint][reg.id].owner = f
    BY <2>3 DEF Right, NamesOwn
  <2> QED BY <1>3, <2>1, <2>4
<1>7. HasTimer(sl, f) => HasTimer(c, f)
  <2> SUFFICES ASSUME NEW t \in Times, NEW i \in 1..Len(sl[t]), IsOn(sl, f, t, i)
               PROVE  HasTimer(c, f)
    BY DEF HasTimer
  <2>1. i \in 1..Len(c[t]) /\ c[t][i] = sl[t][i]
    BY <1>3
  <2>2. IsOn(c, f, t, i)
    BY <2>1 DEF IsOn
  <2> QED BY <2>1, <2>2 DEF HasTimer
<1> QED BY <1>5, <1>6, <1>7 DEF Right, c

LEMMA InsertRegisters ==
  ASSUME NEW sl \in [Times -> Seq(Callback)], NEW e \in Endpoints, NEW d \in Times, NEW x, NEW h,
         \A t \in Times, i \in Nat : ~IsOn(sl, e, t, i)
  PROVE  /\ Registered(sl, d) \in Registration
         /\ Right(Insert(sl, e, d), Registered(sl, d), e, x, h) /\ HasTimer(Insert(sl, e, d), e)
<1> DEFINE c == Insert(sl, e, d)
           n == Len(sl[d])
           reg == Registered(sl, d)
<1>1. /\ c \in [Times -> Seq(Callback)] /\ n \in Nat
      /\ \A t \in Times : t # d => c[t] = sl[t]
      /\ Len(c[d]) = n + 1 /\ c[d][n + 1] = [owner |-> e, on |-> TRUE]
      /\ \A i \in 1..n : c[d][i] = sl[d][i]
  BY InsertIs
<1>2. reg = [id |-> n + 1, timepoint |-> d]
  BY DEF Registered
<1>3. reg \in Registration
  <2>1. d \in (-1)..(Horizon + 1) /\ n + 1 \in Nat
    BY <1>1, HorizonAssumption DEF Times
  <2> HIDE DEF n, reg
  <2> QED BY <1>2, <2>1 DEF Registration, Past
<1> HIDE DEF c, reg
<1>4. n + 1 \in 1..Len(c[d]) /\ IsOn(c, e, d, n + 1)
  BY <1>1 DEF IsOn
<1>5. ASSUME NEW t \in Times, NEW i \in 1..Len(c[t]), IsOn(c, e, t, i)
      PROVE  reg = [id |-> i, timepoint |-> t]
  <2>1. i \in Nat /\ c[t][i] = [owner |-> e, on |-> TRUE]
    BY <1>5 DEF IsOn
  <2>2. ~(i \in 1..Len(sl[t]) /\ sl[t][i] = [owner |-> e, on |-> TRUE])
    <3>1. ~IsOn(sl, e, t, i)
      BY <2>1
    <3> QED BY <3>1 DEF IsOn
  <2>3. t = d /\ i \notin 1..n
    BY <1>1, <2>1, <2>2
  <2>4. i = n + 1
    BY <1>1, <2>3
  <2> QED BY <1>2, <2>3, <2>4
<1>6. OnIsRegistered(c, reg, e)
  BY <1>5 DEF OnIsRegistered
<1>7. NamesOwn(c, reg, e, x, h)
  BY <1>1, <1>2, <1>4 DEF NamesOwn
<1>8. HasTimer(c, e)
  BY <1>1, <1>4 DEF HasTimer
<1> QED BY <1>3, <1>6, <1>7, <1>8 DEF Right, c, reg

(* set_timer: no timer is near, so the endpoint gets a new one and none but  *)
(* that; the others keep theirs.                                             *)
OthersKeepTimers(e) ==
  \A f \in Endpoints \ {e} :
    /\ timer_reg'[f] = timer_reg[f] /\ Right(slots', timer_reg[f], f, exact, Again)
    /\ (~Again /\ HasTimer(slots, f)) => HasTimer(slots', f)

LEMMA NothingIsNear ==
  ASSUME NEW reg \in Registration, NEW d \in 0..Horizon
  PROVE  ~(reg.timepoint >= TimePoint(d) - Near)
<1>1. reg.timepoint <= Horizon + 1 /\ reg.timepoint \in Int
  <2>1. reg.timepoint = -1 \/ reg.timepoint \in Times
    BY RegistrationIs
  <2> QED BY <2>1, HorizonAssumption DEF Times
<1> QED BY <1>1, FarAssumption, TimeAssumption, HorizonAssumption DEF TimePoint

LEMMA SetTimerIs ==
  ASSUME TimerTypes, KcpTypes, TimersRight, NEW e \in Endpoints, SetTimer(e)
  PROVE  /\ TimerTypes'
         /\ Right(slots', timer_reg'[e], e, exact, Again) /\ HasTimer(slots', e)
         /\ OthersKeepTimers(e)
<1> DEFINE reg == timer_reg[e]
           c == IF reg.id >= 0 THEN Cancel(slots, reg) ELSE slots
<1>1. slots \in [Times -> Seq(Callback)] /\ timer_reg \in [Endpoints -> Registration]
  BY DEF TimerTypes
<1>2. reg \in Registration /\ Right(slots, reg, e, exact, Again)
  BY <1>1 DEF TimersRight
<1>3. PICK delta \in Delays(e) :
        (IF /\ reg.id >= 0 /\ reg.timepoint <= TimePoint(delta) + Near
            /\ reg.timepoint >= TimePoint(delta) - Near
         THEN UNCHANGED timers
         ELSE /\ slots' = Insert(c, e, Timepoint(delta, exact))
              /\ timer_reg' = [timer_reg EXCEPT ![e] = Registered(c, Timepoint(delta, exact))])
  BY DEF SetTimer
<1> DEFINE d == Timepoint(delta, exact)
<1>4. delta \in 0..Horizon
  <2>1. flush[e] \in 0..Interval
    BY DEF KcpTypes
  <2>2. flush[e] \in 0..Horizon /\ 0 \in 0..Horizon
    BY <2>1, TimeAssumption, HorizonAssumption
  <2> QED BY <2>2 DEF Delays
<1>5. slots' = Insert(c, e, d) /\ timer_reg' = [timer_reg EXCEPT ![e] = Registered(c, d)]
  BY <1>2, <1>3, <1>4, NothingIsNear
<1>6. d \in Times /\ (d = 0 => exact)
  BY <1>4, HorizonAssumption DEF Timepoint, Times
<1>7. /\ c \in [Times -> Seq(Callback)] /\ SameSlots(c, slots, e, Again)
      /\ \A t \in Times, i \in Nat : ~IsOn(c, e, t, i)
  BY <1>1, <1>2, CancelIs
<1> HIDE DEF c, reg, d
<1>8. /\ Registered(c, d) \in Registration
      /\ Right(slots', Registered(c, d), e, exact, Again) /\ HasTimer(slots', e)
  <2>1. /\ Registered(c, d) \in Registration
        /\ Right(Insert(c, e, d), Registered(c, d), e, exact, Again) /\ HasTimer(Insert(c, e, d), e)
    BY <1>6, <1>7, InsertRegisters
  <2> QED BY <1>5, <2>1
<1>9. slots' \in [Times -> Seq(Callback)]
  BY <1>5, <1>6, <1>7, InsertIs
<1>10. timer_reg' \in [Endpoints -> Registration] /\ timer_reg'[e] = Registered(c, d)
  BY <1>1, <1>5, <1>8
<1>11. OthersKeepTimers(e)
  <2> SUFFICES ASSUME NEW f \in Endpoints \ {e}
               PROVE  /\ timer_reg'[f] = timer_reg[f] /\ Right(slots', timer_reg[f], f, exact, Again)
                      /\ (~Again /\ HasTimer(slots, f)) => HasTimer(slots', f)
    BY DEF OthersKeepTimers
  <2>1. timer_reg'[f] = timer_reg[f] /\ timer_reg[f] \in Registration
    BY <1>1, <1>5
  <2>2. Right(slots, timer_reg[f], f, exact, Again)
    BY DEF TimersRight
  <2>3. Right(c, timer_reg[f], f, exact, Again)
    BY <1>1, <1>7, <2>1, <2>2, CancelKeepsOthers
  <2>5. ASSUME ~Again, HasTimer(slots, f) PROVE HasTimer(c, f)
    <3>1. SameSlots(c, slots, e, FALSE)
      BY <1>7, <2>5 DEF SameSlots
    <3> QED BY <2>5, <3>1, CancelKeepsTimers
  <2>4. Right(slots', timer_reg[f], f, exact, Again) /\ (HasTimer(c, f) => HasTimer(slots', f))
    BY <1>5, <1>6, <1>7, <2>1, <2>3, InsertKeepsOthers
  <2> QED BY <2>1, <2>4, <2>5
<1> QED BY <1>8, <1>9, <1>10, <1>11 DEF TimerTypes

(* ikcp_release: the endpoint has no timer any more.                         *)
Cancels(e) ==
  /\ slots' = IF timer_reg[e].id >= 0 THEN Cancel(slots, timer_reg[e]) ELSE slots
  /\ timer_reg' = [timer_reg EXCEPT ![e] = NotRegistered]

LEMMA NotRegisteredIs ==
  /\ NotRegistered \in Registration
  /\ \A sl \in [Times -> Seq(Callback)], e \in Endpoints :
       (\A t \in Times, i \in Nat : ~IsOn(sl, e, t, i)) => \A x, h : Right(sl, NotRegistered, e, x, h)
<1>1. NotRegistered \in Registration
  <2>1. -1 \in (-1)..(Horizon + 1)
    BY TimesAre
  <2> QED BY <2>1 DEF NotRegistered, Registration, Past
<1>2. ASSUME NEW sl \in [Times -> Seq(Callback)], NEW e \in Endpoints, NEW x, NEW h,
             \A t \in Times, i \in Nat : ~IsOn(sl, e, t, i)
      PROVE  Right(sl, NotRegistered, e, x, h)
  <2>1. OnIsRegistered(sl, NotRegistered, e)
    <3>1. \A t \in Times : \A i \in 1..Len(sl[t]) : i \in Nat
      OBVIOUS
    <3> QED BY <1>2, <3>1 DEF OnIsRegistered
  <2>2. NamesOwn(sl, NotRegistered, e, x, h)
    BY DEF NamesOwn, Lives, NotRegistered
  <2> QED BY <2>1, <2>2 DEF Right
<1> QED BY <1>1, <1>2

LEMMA CancelsIs ==
  ASSUME TimerTypes, TimersRight, NEW e \in Endpoints, Cancels(e)
  PROVE  /\ TimerTypes'
         /\ timer_reg'[e] = NotRegistered /\ Right(slots', timer_reg'[e], e, exact, Again)
         /\ OthersKeepTimers(e)
<1>1. slots \in [Times -> Seq(Callback)] /\ timer_reg \in [Endpoints -> Registration]
  BY DEF TimerTypes
<1>2. timer_reg[e] \in Registration /\ Right(slots, timer_reg[e], e, exact, Again)
  BY <1>1 DEF TimersRight
<1>3. /\ slots' \in [Times -> Seq(Callback)] /\ SameSlots(slots', slots, e, Again)
      /\ \A t \in Times, i \in Nat : ~IsOn(slots', e, t, i)
  BY <1>1, <1>2, CancelIs DEF Cancels
<1>4. timer_reg' \in [Endpoints -> Registration] /\ timer_reg'[e] = NotRegistered
  BY <1>1, NotRegisteredIs DEF Cancels
<1>5. Right(slots', timer_reg'[e], e, exact, Again)
  BY <1>3, <1>4, NotRegisteredIs
<1>6. OthersKeepTimers(e)
  <2> SUFFICES ASSUME NEW f \in Endpoints \ {e}
               PROVE  /\ timer_reg'[f] = timer_reg[f] /\ Right(slots', timer_reg[f], f, exact, Again)
                      /\ (~Again /\ HasTimer(slots, f)) => HasTimer(slots', f)
    BY DEF OthersKeepTimers
  <2>1. timer_reg'[f] = timer_reg[f] /\ timer_reg[f] \in Registration
    BY <1>1 DEF Cancels
  <2>2. Right(slots, timer_reg[f], f, exact, Again)
    BY DEF TimersRight
  <2>3. Right(slots', timer_reg[f], f, exact, Again)
    BY <1>1, <1>3, <2>1, <2>2, CancelKeepsOthers
  <2>4. ASSUME ~Again, HasTimer(slots, f) PROVE HasTimer(slots', f)
    <3>1. SameSlots(slots', slots, e, FALSE)
      BY <1>3, <2>4 DEF SameSlots
    <3> QED BY <2>4, <3>1, CancelKeepsTimers
  <2> QED BY <2>1, <2>3, <2>4
<1> QED BY <1>3, <1>4, <1>5, <1>6 DEF TimerTypes
------------------------------------------------------------------------------
(* What one endpoint does.                                                   *)

LEMMA AcksAre ==
  ASSUME RudpTypes, Acknowledged, NEW e \in Endpoints
  PROVE  /\ Acks(e) \in Nat /\ Coming(e) \in Nat /\ Messages(e) \in Nat
         /\ unacked[e] \in 0..MaxUnacked /\ MaxUnacked \in Nat
         /\ unacked[e] - Acks(e) \in 0..MaxUnacked
<1>1. /\ recv_queue[e] \in Seq(Datagrams) /\ socket \in Seq([from : Endpoints, kind : Datagrams])
      /\ unacked[e] \in 0..MaxUnacked /\ inbox[e] \in Nat
  BY DEF RudpTypes, KcpTypes, LoopTypes
<1>2. Acks(e) \in Nat /\ Coming(e) \in Nat /\ Count(recv_queue[e], "data") \in Nat
  BY <1>1, CountIs DEF Acks, Coming
<1>3. MaxUnacked \in Nat
  BY BoundsAssumption
<1>4. Acks(e) + Coming(e) <= unacked[e]
  BY DEF Acknowledged
<1>5. unacked[e] - Acks(e) \in 0..MaxUnacked
  BY <1>1, <1>2, <1>3, <1>4
<1> QED BY <1>1, <1>2, <1>3, <1>5 DEF Messages

(* A step that changes nothing but endpoint e, as the invariant has it.      *)
OthersStay(e) ==
  \A f \in Endpoints \ {e} : /\ state'[f] = state[f] /\ co'[f] = co[f]
                             /\ recv_queue'[f] = recv_queue[f] /\ unacked'[f] = unacked[f]
TimersOf(e) ==
  /\ TimerTypes' /\ Right(slots', timer_reg'[e], e, exact, Again)
  /\ state'[e] # "open" => timer_reg'[e] = NotRegistered
  /\ co'[e] \in {"read", "close"} => HasTimer(slots', e)
  /\ OthersKeepTimers(e)
StepOf(e) ==
  /\ EndpointTypes' /\ KcpTypes' /\ OthersStay(e) /\ TimersOf(e)
  /\ state'[e] # "none"
  /\ Acks(e)' + unacked[e] <= Acks(e) + unacked'[e]

LEMMA SetTimerOf ==
  ASSUME RudpInv, NEW e \in Endpoints, SetTimer(e), state'[e] = "open"
  PROVE  TimersOf(e)
<1>1. TimerTypes /\ KcpTypes /\ TimersRight
  BY DEF RudpInv, RudpTypes
<1> QED BY <1>1, SetTimerIs DEF TimersOf

LEMMA UpdateEndpointIs ==
  ASSUME RudpInv, NEW e \in Endpoints, UpdateEndpoint(e)
  PROVE  /\ recv_queue' \in [Endpoints -> Seq(Datagrams)]
         /\ unacked' \in [Endpoints -> 0..MaxUnacked]
         /\ Acks(e)' + unacked[e] <= Acks(e) + unacked'[e]
         /\ \A f \in Endpoints \ {e} : recv_queue'[f] = recv_queue[f] /\ unacked'[f] = unacked[f]
<1>1. /\ recv_queue \in [Endpoints -> Seq(Datagrams)] /\ unacked \in [Endpoints -> 0..MaxUnacked]
      /\ RudpTypes /\ Acknowledged
  BY DEF RudpInv, RudpTypes, KcpTypes
<1>2. /\ Acks(e) \in Nat /\ unacked[e] \in 0..MaxUnacked /\ MaxUnacked \in Nat
      /\ unacked[e] - Acks(e) \in 0..MaxUnacked
  BY <1>1, AcksAre
<1>3. /\ recv_queue' = [recv_queue EXCEPT ![e] = <<>>]
      /\ unacked' = [unacked EXCEPT ![e] = unacked[e] - Acks(e)]
  BY DEF UpdateEndpoint
<1>4. recv_queue'[e] = <<>> /\ unacked'[e] = unacked[e] - Acks(e)
  BY <1>1, <1>3
<1>5. Acks(e)' = 0
  BY <1>4, CountEmpty DEF Acks
<1>6. Acks(e)' + unacked[e] <= Acks(e) + unacked'[e]
  BY <1>2, <1>4, <1>5
<1>7. recv_queue' \in [Endpoints -> Seq(Datagrams)]
  BY <1>1, <1>3
<1>8. unacked' \in [Endpoints -> 0..MaxUnacked]
  BY <1>1, <1>2, <1>3
<1>9. \A f \in Endpoints \ {e} : recv_queue'[f] = recv_queue[f] /\ unacked'[f] = unacked[f]
  BY <1>1, <1>3
<1> QED BY <1>6, <1>7, <1>8, <1>9

LEMMA EndpointTypesAre ==
  ASSUME EndpointTypes, NEW e \in Endpoints
  PROVE  /\ state[e] = "open" <=> co[e] \in {"new", "running", "read", "close"}
         /\ state[e] \in {"none", "open", "released"}
BY DEF EndpointTypes

(* In an open endpoint the coroutine goes from one place to another.         *)
LEMMA CoMoves ==
  ASSUME EndpointTypes, NEW e \in Endpoints, state[e] = "open", state' = state,
         NEW to \in {"running", "read", "close"}, co' = [co EXCEPT ![e] = to]
  PROVE  EndpointTypes' /\ state'[e] = "open" /\ co'[e] = to
         /\ \A f \in Endpoints \ {e} : state'[f] = state[f] /\ co'[f] = co[f]
BY DEF EndpointTypes

LEMMA ReadIsStep ==
  ASSUME RudpInv, NEW e \in Endpoints, state[e] = "open", ARead(e)
  PROVE  StepOf(e) /\ cur' \in {e, Nobody} /\ (cur' = e => co'[e] = "running")
<1>1. EndpointTypes /\ RudpTypes /\ Acknowledged /\ KcpTypes
  BY DEF RudpInv, RudpTypes
<1> DEFINE to == IF Messages(e) > 0 THEN "running" ELSE "read"
           left == IF Messages(e) > 0 THEN Messages(e) - 1 ELSE 0
<1>2. /\ UpdateEndpoint(e) /\ SetTimer(e) /\ state' = state /\ flush' = flush
      /\ inbox' = [inbox EXCEPT ![e] = left]
      /\ co' = [co EXCEPT ![e] = to]
      /\ cur' = IF Messages(e) > 0 THEN e ELSE Nobody
  BY DEF ARead
<1>3. left \in Nat /\ to \in {"running", "read", "close"}
  <2>1. Messages(e) \in Nat
    BY <1>1, AcksAre
  <2> QED BY <2>1
<1>4. cur' \in {e, Nobody} /\ (cur' = e => to = "running")
  <2>1. e # Nobody
    BY EndpointAssumption
  <2> QED BY <1>2, <2>1
<1> HIDE DEF to, left
<1>5. /\ EndpointTypes' /\ state'[e] = "open" /\ co'[e] = to
      /\ \A f \in Endpoints \ {e} : state'[f] = state[f] /\ co'[f] = co[f]
  BY <1>1, <1>2, <1>3, CoMoves
<1>6. /\ recv_queue' \in [Endpoints -> Seq(Datagrams)]
      /\ unacked' \in [Endpoints -> 0..MaxUnacked]
      /\ Acks(e)' + unacked[e] <= Acks(e) + unacked'[e]
      /\ \A f \in Endpoints \ {e} : recv_queue'[f] = recv_queue[f] /\ unacked'[f] = unacked[f]
  BY <1>2, UpdateEndpointIs
<1>7. KcpTypes'
  BY <1>1, <1>2, <1>3, <1>6 DEF KcpTypes
<1>8. TimersOf(e)
  BY <1>2, <1>5, SetTimerOf
<1>9. OthersStay(e)
  BY <1>5, <1>6 DEF OthersStay
<1>10. state'[e] # "none"
  BY <1>5
<1>11. StepOf(e)
  BY <1>5, <1>6, <1>7, <1>8, <1>9, <1>10 DEF StepOf
<1> QED BY <1>4, <1>5, <1>11

LEMMA WriteIsStep ==
  ASSUME RudpInv, NEW e \in Endpoints, state[e] = "open", AWrite(e), UNCHANGED co
  PROVE  StepOf(e)
<1>1. EndpointTypes /\ RudpTypes /\ Acknowledged /\ KcpTypes
  BY DEF RudpInv, RudpTypes
<1>2. /\ SetTimer(e) /\ state' = state /\ flush' = flush /\ inbox' = inbox
      /\ recv_queue' = recv_queue
      /\ unacked' = [unacked EXCEPT ![e] = unacked[e] + 1] /\ unacked[e] < MaxUnacked
  BY DEF AWrite
<1>3. /\ EndpointTypes' /\ state'[e] = "open" /\ state'[e] # "none"
      /\ \A f \in Endpoints \ {e} : state'[f] = state[f] /\ co'[f] = co[f]
  BY <1>1, <1>2 DEF EndpointTypes
<1>4. Acks(e) \in Nat /\ unacked[e] \in 0..MaxUnacked /\ MaxUnacked \in Nat
  BY <1>1, AcksAre
<1>5. unacked' \in [Endpoints -> 0..MaxUnacked] /\ unacked'[e] = unacked[e] + 1
  BY <1>1, <1>2, <1>4 DEF KcpTypes
<1>6. \A f \in Endpoints \ {e} : recv_queue'[f] = recv_queue[f] /\ unacked'[f] = unacked[f]
  BY <1>1, <1>2 DEF KcpTypes
<1>7. KcpTypes'
  BY <1>1, <1>2, <1>5 DEF KcpTypes
<1>8. Acks(e)' + unacked[e] <= Acks(e) + unacked'[e]
  <2>1. Acks(e)' = Acks(e)
    BY <1>2 DEF Acks
  <2> QED BY <1>4, <1>5, <2>1
<1>9. TimersOf(e)
  BY <1>2, <1>3, SetTimerOf
<1>10. OthersStay(e)
  BY <1>3, <1>6 DEF OthersStay
<1> QED BY <1>3, <1>7, <1>8, <1>9, <1>10 DEF StepOf

LEMMA ReleaseIsStep ==
  ASSUME RudpInv, NEW e \in Endpoints, state[e] = "open", unacked[e] = 0, Release(e)
  PROVE  StepOf(e)
<1>1. EndpointTypes /\ RudpTypes /\ Acknowledged /\ KcpTypes /\ TimerTypes /\ TimersRight
  BY DEF RudpInv, RudpTypes
<1>2. /\ state' = [state EXCEPT ![e] = "released"] /\ co' = [co EXCEPT ![e] = "done"]
      /\ recv_queue' = [recv_queue EXCEPT ![e] = <<>>]
      /\ inbox' = [f \in Endpoints |-> IF f \in {e} THEN 0 ELSE inbox[f]]
      /\ unacked' = [f \in Endpoints |-> IF f \in {e} THEN 0 ELSE unacked[f]]
      /\ flush' = [f \in Endpoints |-> IF f \in {e} THEN 0 ELSE flush[f]]
      /\ Cancels(e)
  BY DEF Release, IkcpRelease, Cancels
<1>3. /\ EndpointTypes' /\ state'[e] = "released" /\ co'[e] = "done"
      /\ \A f \in Endpoints \ {e} : state'[f] = state[f] /\ co'[f] = co[f]
  BY <1>1, <1>2 DEF EndpointTypes
<1>4. 0 \in 0..MaxUnacked /\ 0 \in 0..Interval /\ 0 \in Nat
  BY BoundsAssumption, TimesAre
<1>5. KcpTypes'
  <2>1. recv_queue' \in [Endpoints -> Seq(Datagrams)]
    BY <1>1, <1>2 DEF KcpTypes
  <2>2. /\ inbox' \in [Endpoints -> Nat] /\ unacked' \in [Endpoints -> 0..MaxUnacked]
        /\ flush' \in [Endpoints -> 0..Interval]
    BY <1>1, <1>2, <1>4 DEF KcpTypes
  <2> QED BY <2>1, <2>2 DEF KcpTypes
<1>6. /\ recv_queue'[e] = <<>> /\ unacked'[e] = 0
      /\ \A f \in Endpoints \ {e} : recv_queue'[f] = recv_queue[f] /\ unacked'[f] = unacked[f]
  BY <1>1, <1>2 DEF KcpTypes
<1>7. Acks(e)' + unacked[e] <= Acks(e) + unacked'[e]
  <2>1. Acks(e)' = 0
    BY <1>6, CountEmpty DEF Acks
  <2>2. Acks(e) \in Nat
    BY <1>1, AcksAre
  <2> QED BY <1>6, <2>1, <2>2
<1>8. TimersOf(e)
  BY <1>1, <1>2, <1>3, CancelsIs DEF TimersOf
<1>9. OthersStay(e)
  BY <1>3, <1>6 DEF OthersStay
<1>10. state'[e] # "none"
  BY <1>3
<1> QED BY <1>3, <1>5, <1>7, <1>8, <1>9, <1>10 DEF StepOf

(* A step of the coroutine and the timer only.                               *)
LEMMA QuietIsStep ==
  ASSUME RudpInv, NEW e \in Endpoints, EndpointTypes', state'[e] # "none", UNCHANGED kcp,
         TimersOf(e), \A f \in Endpoints \ {e} : state'[f] = state[f] /\ co'[f] = co[f]
  PROVE  StepOf(e)
<1>1. RudpTypes /\ Acknowledged /\ KcpTypes
  BY DEF RudpInv, RudpTypes
<1>2. KcpTypes' /\ Acks(e)' = Acks(e) /\ unacked' = unacked /\ recv_queue' = recv_queue
  BY <1>1 DEF KcpTypes, kcp, Acks
<1>3. Acks(e) \in Nat /\ unacked[e] \in 0..MaxUnacked
  BY <1>1, AcksAre
<1>4. Acks(e)' + unacked[e] <= Acks(e) + unacked'[e]
  BY <1>2, <1>3
<1> QED BY <1>2, <1>4 DEF StepOf, OthersStay

LEMMA LingerIsStep ==
  ASSUME RudpInv, NEW e \in Endpoints, state[e] = "open", Linger(e)
  PROVE  StepOf(e)
<1>1. EndpointTypes
  BY DEF RudpInv, RudpTypes
<1>2. co' = [co EXCEPT ![e] = "close"] /\ SetTimer(e) /\ state' = state /\ UNCHANGED kcp
  BY DEF Linger
<1>3. /\ EndpointTypes' /\ state'[e] = "open" /\ state'[e] # "none"
      /\ \A f \in Endpoints \ {e} : state'[f] = state[f] /\ co'[f] = co[f]
  BY <1>1, <1>2, CoMoves
<1>4. TimersOf(e)
  BY <1>2, <1>3, SetTimerOf
<1> QED BY <1>2, <1>3, <1>4, QuietIsStep

LEMMA CloseIsStep ==
  ASSUME RudpInv, NEW e \in Endpoints, state[e] = "open", AClose(e)
  PROVE  StepOf(e) /\ cur' = Nobody
<1>1. CASE unacked[e] = 0
  <2>1. Release(e)
    BY <1>1 DEF AClose
  <2> QED BY <1>1, <2>1, ReleaseIsStep DEF Release
<1>2. CASE unacked[e] # 0
  <2>1. Linger(e)
    BY <1>2 DEF AClose
  <2> QED BY <2>1, LingerIsStep DEF Linger
<1> QED BY <1>1, <1>2

LEMMA UpdateIsStep ==
  ASSUME RudpInv, NEW e \in Endpoints, state[e] = "open", UpdateJob(e)
  PROVE  StepOf(e)
<1>1. EndpointTypes /\ RudpTypes /\ Acknowledged /\ KcpTypes
  BY DEF RudpInv, RudpTypes
<1>2. /\ UpdateEndpoint(e) /\ SetTimer(e) /\ state' = state /\ co' = co
      /\ inbox' = [inbox EXCEPT ![e] = Messages(e)]
      /\ flush' = [flush EXCEPT ![e] = IF flush[e] = 0 THEN Interval ELSE flush[e]]
  BY DEF UpdateJob, GoesOn
<1>3. /\ EndpointTypes' /\ state'[e] = "open" /\ state'[e] # "none"
      /\ \A f \in Endpoints \ {e} : state'[f] = state[f] /\ co'[f] = co[f]
  BY <1>1, <1>2 DEF EndpointTypes
<1>4. /\ recv_queue' \in [Endpoints -> Seq(Datagrams)]
      /\ unacked' \in [Endpoints -> 0..MaxUnacked]
      /\ Acks(e)' + unacked[e] <= Acks(e) + unacked'[e]
      /\ \A f \in Endpoints \ {e} : recv_queue'[f] = recv_queue[f] /\ unacked'[f] = unacked[f]
  BY <1>2, UpdateEndpointIs
<1>5. KcpTypes'
  <2>1. inbox' \in [Endpoints -> Nat]
    BY <1>1, <1>2, AcksAre DEF KcpTypes
  <2>2. Interval \in 0..Interval /\ flush[e] \in 0..Interval
    BY <1>1, TimesAre DEF KcpTypes
  <2>3. flush' \in [Endpoints -> 0..Interval]
    BY <1>1, <1>2, <2>2 DEF KcpTypes
  <2> QED BY <1>4, <2>1, <2>3 DEF KcpTypes
<1>6. TimersOf(e)
  BY <1>2, <1>3, SetTimerOf
<1>7. OthersStay(e)
  BY <1>3, <1>4 DEF OthersStay
<1> QED BY <1>3, <1>4, <1>5, <1>6, <1>7 DEF StepOf

(* Such a step keeps the invariant when it is dispatched: what the           *)
(* dispatcher holds for the others stays, and nothing is added for them.     *)
QueueOf(e) ==
  /\ queue' \in Seq(Entries)
  /\ \A i \in 1..Len(queue') : queue'[i].who = e \/ \E j \in 1..Len(queue) : queue'[i] = queue[j]
  /\ \A j \in 1..Len(queue) : queue[j].who # e => \E i \in 1..Len(queue') : queue'[i] = queue[j]

LEMMA StepKeeps ==
  ASSUME RudpInv, NEW e \in Endpoints, StepOf(e), QueueOf(e), socket' = socket,
         UNCHANGED <<clock, heap>>, e \notin skipped, Dispatches, pc' = pc,
         cur' \in {e, Nobody}, cur' = e => co'[e] = "running"
  PROVE  RudpInv'
<1>1. RudpTypes /\ Acknowledged /\ TimersRight /\ EndpointTypes
  BY DEF RudpInv, RudpTypes
<1>c. exact' = exact /\ instants' = instants /\ Again' = Again /\ UNCHANGED heap
  BY DEF clock, Again
<1>2. RudpTypes'
  <2>1. LoopTypes'
    BY <1>1, <1>c DEF LoopTypes, RudpTypes, QueueOf
  <2> QED BY <2>1 DEF RudpTypes, StepOf, TimersOf
<1>3. Acknowledged'
  <2> SUFFICES ASSUME NEW f \in Endpoints PROVE Acks(f)' + Coming(f)' <= unacked'[f]
    BY DEF Acknowledged
  <2>1. Coming(f)' = Coming(f)
    BY DEF Coming
  <2>2. /\ Acks(f) + Coming(f) <= unacked[f] /\ Acks(f) \in Nat /\ Coming(f) \in Nat
        /\ unacked[f] \in 0..MaxUnacked
    BY <1>1, AcksAre DEF Acknowledged
  <2>3. CASE f # e
    <3>1. recv_queue'[f] = recv_queue[f] /\ unacked'[f] = unacked[f]
      BY <2>3 DEF StepOf, OthersStay
    <3>2. Acks(f)' = Acks(f)
      BY <3>1 DEF Acks
    <3> QED BY <2>1, <2>2, <3>1, <3>2
  <2>4. CASE f = e
    <3>1. Acks(f)' + unacked[f] <= Acks(f) + unacked'[f]
      BY <2>4 DEF StepOf
    <3>2. Acks(f)' \in Nat /\ unacked'[f] \in 0..MaxUnacked
      <4>1. recv_queue'[f] \in Seq(Datagrams) /\ unacked'[f] \in 0..MaxUnacked
        BY <1>2 DEF RudpTypes, KcpTypes
      <4> QED BY <4>1, CountIs DEF Acks
    <3> QED BY <2>1, <2>2, <3>1, <3>2
  <2> QED BY <2>3, <2>4
<1>4. Running' /\ Skipping'
  <2>1. Running'
    BY EndpointAssumption DEF Running, Dispatches
  <2>2. \A f \in Endpoints \ {e} : co'[f] = co[f]
    BY DEF StepOf, OthersStay
  <2>3. Skipping'
    BY <1>c, <2>2 DEF RudpInv, Skipping, heap
  <2> QED BY <2>1, <2>3
<1>5. QueuedAreMade'
  <2> SUFFICES ASSUME NEW i \in 1..Len(queue'), queue'[i].who \in Endpoints
               PROVE  state'[queue'[i].who] # "none"
    BY DEF QueuedAreMade
  <2>1. CASE queue'[i].who = e
    BY <2>1 DEF StepOf
  <2>2. CASE queue'[i].who # e
    <3>1. PICK j \in 1..Len(queue) : queue'[i] = queue[j]
      BY <2>2 DEF QueueOf
    <3>2. state[queue'[i].who] # "none"
      BY <3>1 DEF RudpInv, QueuedAreMade
    <3> QED BY <2>2, <3>2 DEF StepOf, OthersStay
  <2> QED BY <2>1, <2>2
<1>6. TimersRight'
  <2> SUFFICES ASSUME NEW f \in Endpoints
               PROVE  /\ Right(slots', timer_reg'[f], f, exact, Again)
                      /\ state'[f] # "open" => timer_reg'[f] = NotRegistered
    BY <1>c DEF TimersRight
  <2>1. CASE f = e
    BY <2>1 DEF StepOf, TimersOf
  <2>2. CASE f # e
    BY <1>1, <2>2 DEF StepOf, TimersOf, OthersKeepTimers, OthersStay, TimersRight
  <2> QED BY <2>1, <2>2
<1>7. Timed'
  <2> SUFFICES ASSUME ~Again, NEW f \in Endpoints, co'[f] \in {"read", "close"},
                      ~HasTimer(slots', f)
               PROVE  \E i \in 1..Len(queue') : queue'[i] = Entry(f, "update")
    BY <1>c DEF Timed
  <2>1. f # e
    BY DEF StepOf, TimersOf
  <2>2. co[f] \in {"read", "close"} /\ ~HasTimer(slots, f)
    BY <2>1 DEF StepOf, OthersStay, TimersOf, OthersKeepTimers
  <2>3. PICK j \in 1..Len(queue) : queue[j] = Entry(f, "update")
    BY <2>2 DEF RudpInv, Timed
  <2>4. queue[j].who # e
    BY <2>1, <2>3 DEF Entry
  <2> QED BY <2>3, <2>4 DEF QueueOf
<1> QED BY <1>2, <1>3, <1>4, <1>5, <1>6, <1>7 DEF RudpInv

LEMMA PopIs ==
  ASSUME queue \in Seq(Entries), queue # <<>>, NEW e, Head(queue).who = e, queue' = Tail(queue)
  PROVE  QueueOf(e)
<1>1. /\ Tail(queue) \in Seq(Entries)
      /\ \A i \in 1..Len(Tail(queue)) : i + 1 \in 1..Len(queue) /\ Tail(queue)[i] = queue[i + 1]
      /\ \A i \in 1..Len(queue) :
           i = 1 \/ (i - 1 \in 1..Len(Tail(queue)) /\ Tail(queue)[i - 1] = queue[i])
      /\ Head(queue) = queue[1]
  BY TailIs
<1>2. \A i \in 1..Len(queue') : \E j \in 1..Len(queue) : queue'[i] = queue[j]
  BY <1>1
<1>3. ASSUME NEW j \in 1..Len(queue), queue[j].who # e
      PROVE  \E i \in 1..Len(queue') : queue'[i] = queue[j]
  <2>1. j # 1
    BY <1>1, <1>3
  <2>2. j - 1 \in 1..Len(queue') /\ queue'[j - 1] = queue[j]
    BY <1>1, <2>1
  <2> QED BY <2>2
<1> QED BY <1>1, <1>2, <1>3 DEF QueueOf

LEMMA GoesOnIs ==
  ASSUME queue \in Seq(Entries), queue # <<>>, NEW e \in Endpoints, Head(queue).who = e,
         queue' = <<Entry(e, "none")>> \o Tail(queue)
  PROVE  QueueOf(e)
<1> DEFINE q == Tail(queue)
           x == Entry(e, "none")
<1>1. /\ q \in Seq(Entries)
      /\ \A i \in 1..Len(q) : i + 1 \in 1..Len(queue) /\ q[i] = queue[i + 1]
      /\ \A i \in 1..Len(queue) : i = 1 \/ (i - 1 \in 1..Len(q) /\ q[i - 1] = queue[i])
      /\ Head(queue) = queue[1]
  BY TailIs
<1>2. x \in Entries /\ x.who = e
  BY DEF Entry, Entries, Who, Jobs
<1> HIDE DEF q, x
<1>3. <<x>> \in Seq(Entries) /\ Len(<<x>>) = 1 /\ <<x>>[1] = x
  BY <1>2
<1>4. /\ queue' \in Seq(Entries)
      /\ \A i \in 1..Len(queue') : i \in 1..1 \/ (i - 1 \in 1..Len(q) /\ i = 1 + (i - 1))
      /\ \A i \in 1..1 : i \in 1..Len(queue') /\ queue'[i] = <<x>>[i]
      /\ \A i \in 1..Len(q) : 1 + i \in 1..Len(queue') /\ queue'[1 + i] = q[i]
  <2>1. queue' = <<x>> \o q
    BY DEF x, q
  <2> QED BY <1>1, <1>3, <2>1, ConcatIs
<1>5. ASSUME NEW i \in 1..Len(queue')
      PROVE  queue'[i].who = e \/ \E j \in 1..Len(queue) : queue'[i] = queue[j]
  <2>1. CASE i \in 1..1
    BY <1>2, <1>3, <1>4, <2>1
  <2>2. CASE i - 1 \in 1..Len(q) /\ i = 1 + (i - 1)
    <3>1. queue'[i] = q[i - 1]
      BY <1>4, <2>2
    <3>2. q[i - 1] = queue[(i - 1) + 1] /\ (i - 1) + 1 \in 1..Len(queue)
      BY <1>1, <2>2
    <3> QED BY <3>1, <3>2
  <2> QED BY <1>4, <2>1, <2>2
<1>6. ASSUME NEW j \in 1..Len(queue), queue[j].who # e
      PROVE  \E i \in 1..Len(queue') : queue'[i] = queue[j]
  <2>1. j # 1
    BY <1>1, <1>6
  <2>2. j - 1 \in 1..Len(q) /\ q[j - 1] = queue[j]
    BY <1>1, <2>1
  <2>3. 1 + (j - 1) \in 1..Len(queue') /\ queue'[1 + (j - 1)] = queue[j]
    BY <1>4, <2>2
  <2> QED BY <2>3
<1> QED BY <1>4, <1>5, <1>6 DEF QueueOf

LEMMA TimersStay ==
  ASSUME RudpInv, NEW e \in Endpoints, UNCHANGED timers, state'[e] = state[e],
         co'[e] \notin {"read", "close"}
  PROVE  TimersOf(e)
<1>1. TimerTypes /\ TimersRight
  BY DEF RudpInv, RudpTypes
<1>2. slots' = slots /\ timer_reg' = timer_reg
  BY DEF timers
<1>3. TimerTypes' /\ Right(slots', timer_reg'[e], e, exact, Again) /\ OthersKeepTimers(e)
  BY <1>1, <1>2 DEF TimerTypes, TimersRight, OthersKeepTimers
<1>4. state'[e] # "open" => timer_reg'[e] = NotRegistered
  BY <1>1, <1>2 DEF TimersRight
<1> QED BY <1>2, <1>3, <1>4 DEF TimersOf

(* Who is resumed has the first entry of the queue to itself.                *)
LEMMA ForIs ==
  ASSUME RudpInv, NEW e \in Endpoints, For(e)
  PROVE  Dispatches /\ cur = Nobody /\ QueueOf(e) /\ e \notin skipped
<1>1. queue \in Seq(Entries)
  BY DEF RudpInv, RudpTypes, LoopTypes
<1> QED BY <1>1, PopIs DEF For, Popped, Dispatching, Dispatches

LEMMA ResumeKeeps ==
  ASSUME RudpInv, NEW e \in Endpoints,
         ResumeDone(e) \/ ResumeNew(e) \/ ResumeRead(e) \/ ResumeClose(e)
  PROVE  RudpInv'
<1>1. EndpointTypes
  BY DEF RudpInv, RudpTypes
<1>2. Nobody # e
  BY EndpointAssumption
<1>3. CASE ResumeDone(e)
  <2>1. /\ For(e) /\ co[e] = "done" /\ state' = state /\ co' = co /\ UNCHANGED kcp
        /\ UNCHANGED timers /\ pc' = pc /\ cur' = cur /\ socket' = socket
        /\ UNCHANGED <<clock, heap>>
    BY <1>3 DEF ResumeDone
  <2>2. TimersOf(e)
    BY <2>1, TimersStay
  <2>3. EndpointTypes' /\ state'[e] # "none"
    BY <1>1, <2>1 DEF EndpointTypes
  <2>4. StepOf(e)
    BY <2>1, <2>2, <2>3, QuietIsStep
  <2> QED BY <1>2, <2>1, <2>4, ForIs, StepKeeps
<1>4. CASE ResumeNew(e)
  <2>1. /\ For(e) /\ co[e] = "new" /\ state' = state /\ co' = [co EXCEPT ![e] = "running"]
        /\ cur' = e /\ UNCHANGED kcp /\ UNCHANGED timers /\ pc' = pc /\ socket' = socket
        /\ UNCHANGED <<clock, heap>>
    BY <1>4 DEF ResumeNew
  <2>2. state[e] = "open"
    BY <1>1, <2>1, EndpointTypesAre
  <2>3. /\ EndpointTypes' /\ state'[e] = "open" /\ co'[e] = "running" /\ state'[e] # "none"
        /\ \A f \in Endpoints \ {e} : state'[f] = state[f] /\ co'[f] = co[f]
    BY <1>1, <2>1, <2>2, CoMoves
  <2>4. TimersOf(e)
    BY <2>1, <2>2, <2>3, TimersStay
  <2>5. StepOf(e)
    BY <2>1, <2>3, <2>4, QuietIsStep
  <2> QED BY <2>1, <2>3, <2>5, ForIs, StepKeeps
<1>5. CASE ResumeRead(e)
  <2>1. /\ For(e) /\ co[e] = "read" /\ ARead(e) /\ pc' = pc /\ socket' = socket
        /\ UNCHANGED <<clock, heap>>
    BY <1>5 DEF ResumeRead
  <2>2. state[e] = "open"
    BY <1>1, <2>1, EndpointTypesAre
  <2>3. StepOf(e) /\ cur' \in {e, Nobody} /\ (cur' = e => co'[e] = "running")
    BY <2>1, <2>2, ReadIsStep
  <2> QED BY <2>1, <2>3, ForIs, StepKeeps
<1>6. CASE ResumeClose(e)
  <2>1. /\ For(e) /\ co[e] = "close" /\ AClose(e) /\ pc' = pc /\ socket' = socket
        /\ UNCHANGED <<clock, heap>>
    BY <1>6 DEF ResumeClose
  <2>2. state[e] = "open"
    BY <1>1, <2>1, EndpointTypesAre
  <2>3. StepOf(e) /\ cur' = Nobody
    BY <2>1, <2>2, CloseIsStep
  <2> QED BY <1>2, <2>1, <2>3, ForIs, StepKeeps
<1> QED BY <1>3, <1>4, <1>5, <1>6

LEMMA CallsIs ==
  ASSUME RudpInv, NEW e \in Endpoints, NEW job, Calls(e, job)
  PROVE  /\ Dispatches /\ cur = Nobody /\ state[e] = "open" /\ e \notin skipped
         /\ GoesOn(e) => QueueOf(e)
<1>1. queue \in Seq(Entries) /\ EndpointTypes
  BY DEF RudpInv, RudpTypes, LoopTypes
<1>2. /\ Dispatches /\ cur = Nobody /\ queue # <<>> /\ Head(queue).who = e /\ co[e] # "done"
      /\ e \notin skipped
  BY DEF Calls, Entry, Dispatching, Dispatches
<1>3. 1 \in 1..Len(queue) /\ queue[1].who = e
  BY <1>1, <1>2, TailIs
<1>4. state[e] # "none"
  BY <1>3 DEF RudpInv, QueuedAreMade
<1>5. state[e] = "open"
  BY <1>1, <1>2, <1>4 DEF EndpointTypes
<1>6. GoesOn(e) => QueueOf(e)
  BY <1>1, <1>2, GoesOnIs DEF GoesOn
<1> QED BY <1>2, <1>5, <1>6

LEMMA JobKeeps ==
  ASSUME RudpInv, NEW e \in Endpoints, UpdateJob(e) \/ WriteJob(e)
  PROVE  RudpInv'
<1>1. Nobody # e
  BY EndpointAssumption
<1>2. CASE UpdateJob(e)
  <2>1. /\ Calls(e, "update") /\ GoesOn(e) /\ pc' = pc /\ socket' = socket
        /\ UNCHANGED <<clock, heap>>
    BY <1>2 DEF UpdateJob
  <2>2. Dispatches /\ cur' = Nobody /\ state[e] = "open" /\ QueueOf(e) /\ e \notin skipped
    BY <2>1, CallsIs DEF GoesOn
  <2>3. StepOf(e)
    BY <1>2, <2>2, UpdateIsStep
  <2> QED BY <1>1, <2>1, <2>2, <2>3, StepKeeps
<1>3. CASE WriteJob(e)
  <2>1. /\ Calls(e, "write") /\ GoesOn(e) /\ AWrite(e) /\ pc' = pc /\ socket' = socket
        /\ UNCHANGED <<clock, heap>>
    BY <1>3 DEF WriteJob
  <2>2. /\ Dispatches /\ cur' = Nobody /\ state[e] = "open" /\ QueueOf(e) /\ UNCHANGED co
        /\ e \notin skipped
    BY <2>1, CallsIs DEF GoesOn
  <2>3. StepOf(e)
    BY <2>1, <2>2, WriteIsStep
  <2> QED BY <1>1, <2>1, <2>2, <2>3, StepKeeps
<1> QED BY <1>2, <1>3

LEMMA CallKeeps ==
  ASSUME RudpInv, NEW e \in Endpoints, CallRead(e) \/ CallWrite(e) \/ Return(e)
  PROVE  RudpInv'
<1>1. EndpointTypes /\ queue \in Seq(Entries)
  BY DEF RudpInv, RudpTypes, LoopTypes
<1>2. /\ cur = e /\ Nobody # e /\ queue' = queue /\ pc' = pc /\ socket' = socket
      /\ UNCHANGED <<clock, heap>>
  BY EndpointAssumption DEF CallRead, CallWrite, Return, loop
<1>3. Dispatches /\ co[e] = "running" /\ e \notin skipped
  BY <1>2 DEF RudpInv, Running, Skipping
<1>4. state[e] = "open"
  BY <1>1, <1>3, EndpointTypesAre
<1>5. QueueOf(e)
  BY <1>1, <1>2 DEF QueueOf
<1>6. CASE CallRead(e)
  <2>1. StepOf(e) /\ cur' \in {e, Nobody} /\ (cur' = e => co'[e] = "running")
    BY <1>4, <1>6, ReadIsStep DEF CallRead
  <2> QED BY <1>2, <1>3, <1>5, <2>1, StepKeeps
<1>7. CASE CallWrite(e)
  <2>1. AWrite(e) /\ co' = co /\ cur' = cur
    BY <1>7 DEF CallWrite, loop
  <2>2. StepOf(e)
    BY <1>4, <2>1, WriteIsStep
  <2> QED BY <1>2, <1>3, <1>5, <2>1, <2>2, StepKeeps
<1>8. CASE Return(e)
  <2>1. StepOf(e) /\ cur' = Nobody
    BY <1>4, <1>8, CloseIsStep DEF Return
  <2> QED BY <1>2, <1>3, <1>5, <2>1, StepKeeps
<1> QED BY <1>6, <1>7, <1>8
------------------------------------------------------------------------------
(* The loop.                                                                 *)

(* Steps that change nothing of the endpoints: entries for the socket's      *)
(* coroutine, and for whom is skipped, come and go, and others for one that  *)
(* was made are added.                                                       *)
LEMMA LoopKeeps ==
  ASSUME RudpInv, UNCHANGED <<state, co, kcp, timers, socket, clock>>, Running', Skipping',
         pc' \in {"tick", "dispatch", "select", "event"}, cur' \in {Nobody, Server},
         NEW w \in Who, w \in Endpoints => state[w] # "none", queue' \in Seq(Entries),
         NEW gone, \A f \in gone \cap Endpoints : co[f] = "new",
         \A i \in 1..Len(queue') : queue'[i].who = w \/ \E j \in 1..Len(queue) : queue'[i] = queue[j],
         \A j \in 1..Len(queue) :
           queue[j].who \notin gone => \E i \in 1..Len(queue') : queue'[i] = queue[j]
  PROVE  RudpInv'
<1>1. RudpTypes /\ Acknowledged /\ QueuedAreMade /\ TimersRight /\ Timed
  BY DEF RudpInv
<1>2. /\ state' = state /\ co' = co /\ recv_queue' = recv_queue /\ inbox' = inbox
      /\ unacked' = unacked /\ flush' = flush /\ slots' = slots /\ timer_reg' = timer_reg
      /\ socket' = socket /\ exact' = exact /\ instants' = instants /\ Again' = Again
  BY DEF kcp, timers, clock, Again
<1>3. RudpTypes'
  <2>1. LoopTypes'
    BY <1>1, <1>2 DEF RudpTypes, LoopTypes
  <2> QED BY <1>1, <1>2, <2>1 DEF RudpTypes, EndpointTypes, KcpTypes, TimerTypes
<1>4. Acknowledged' /\ TimersRight'
  BY <1>1, <1>2 DEF Acknowledged, Acks, Coming, TimersRight
<1>5. QueuedAreMade'
  BY <1>1, <1>2 DEF QueuedAreMade
<1>6. Timed'
  <2> SUFFICES ASSUME ~Again, NEW f \in Endpoints, co[f] \in {"read", "close"},
                      ~HasTimer(slots, f)
               PROVE  \E i \in 1..Len(queue') : queue'[i] = Entry(f, "update")
    BY <1>2 DEF Timed
  <2>1. PICK j \in 1..Len(queue) : queue[j] = Entry(f, "update")
    BY <1>1 DEF Timed
  <2>2. queue[j].who \notin gone
    BY <2>1 DEF Entry
  <2> QED BY <2>1, <2>2
<1> QED BY <1>3, <1>4, <1>5, <1>6 DEF RudpInv

LEMMA ServerKeeps ==
  ASSUME RudpInv, ResumeServer \/ ReceiveNothing \/ DispatchDone
  PROVE  RudpInv'
<1>1. queue \in Seq(Entries) /\ Running /\ Server \in Who /\ Server \notin Endpoints /\ Nobody \notin Endpoints
  BY EndpointAssumption DEF RudpInv, RudpTypes, LoopTypes, Who
<1>2. UNCHANGED <<state, co, kcp, timers, socket, clock>>
  BY DEF ResumeServer, ReceiveNothing, DispatchDone, timers
<1>3. /\ Running' /\ pc' \in {"tick", "dispatch", "select", "event"} /\ cur' \in {Nobody, Server}
  <2>1. Dispatches
    BY <1>1, EndpointAssumption DEF ResumeServer, ReceiveNothing, DispatchDone, For, Popped, Running,
                                    Dispatching, Dispatches
  <2>2. /\ pc' \in {"tick", "dispatch", "select", "event"}
        /\ Dispatches' \/ cur' = Nobody
    BY <2>1 DEF ResumeServer, ReceiveNothing, DispatchDone, Dispatching, Dispatches
  <2>3. cur' \in {Nobody, Server}
    BY DEF ResumeServer, ReceiveNothing, DispatchDone, Dispatching
  <2> QED BY <1>1, <2>2, <2>3 DEF Running
<1>4. Skipping'
  BY <1>2 DEF RudpInv, Skipping, ResumeServer, ReceiveNothing, DispatchDone, heap
<1>5. QueueOf(Server)
  <2>1. CASE ResumeServer
    BY <1>1, <2>1, PopIs DEF ResumeServer, For, Popped
  <2>2. CASE queue' = queue
    BY <1>1, <2>2 DEF QueueOf
  <2> QED BY <2>1, <2>2 DEF ReceiveNothing, DispatchDone
<1> DEFINE gone == {Server}
<1>6. /\ \A f \in gone \cap Endpoints : co[f] = "new"
      /\ \A j \in 1..Len(queue) :
           queue[j].who \notin gone => \E i \in 1..Len(queue') : queue'[i] = queue[j]
  BY <1>1, <1>5 DEF QueueOf
<1> HIDE DEF gone
<1> QED BY <1>1, <1>2, <1>3, <1>4, <1>5, <1>6, LoopKeeps DEF QueueOf

(* What is skipped is the start of an endpoint.                              *)
LEMMA SkipKeeps ==
  ASSUME RudpInv, NEW e \in Endpoints, Skip(e)
  PROVE  RudpInv'
<1>1. queue \in Seq(Entries) /\ Running /\ Skipping /\ EndpointTypes /\ Nobody \notin Endpoints
  BY EndpointAssumption DEF RudpInv, RudpTypes, LoopTypes
<1>2. /\ UNCHANGED <<state, co, kcp, timers, socket, clock>> /\ pc' = pc /\ cur' = cur
      /\ UNCHANGED heap /\ Dispatches /\ cur = Nobody /\ e \in skipped
      /\ queue # <<>> /\ Head(queue).who = e /\ queue' = Tail(queue)
  BY DEF Skip, Popped, Dispatching, Dispatches
<1>3. QueueOf(e)
  BY <1>1, <1>2, PopIs
<1>4. co[e] = "new" /\ state[e] # "none" /\ e \in Who
  BY <1>1, <1>2 DEF Skipping, EndpointTypes, Who
<1>5. Running' /\ Skipping' /\ pc' \in {"tick", "dispatch", "select", "event"} /\ cur' \in {Nobody, Server}
  BY <1>1, <1>2 DEF Running, Skipping, Dispatches, heap
<1> DEFINE gone == {e}
<1>6. /\ \A f \in gone \cap Endpoints : co[f] = "new"
      /\ \A j \in 1..Len(queue) :
           queue[j].who \notin gone => \E i \in 1..Len(queue') : queue'[i] = queue[j]
  BY <1>3, <1>4 DEF QueueOf
<1> HIDE DEF gone
<1> QED BY <1>2, <1>3, <1>4, <1>5, <1>6, LoopKeeps DEF QueueOf

LEMMA AddedIs ==
  ASSUME queue \in Seq(Entries), NEW x \in Entries, queue' = Append(queue, x)
  PROVE  /\ queue' \in Seq(Entries)
         /\ \A i \in 1..Len(queue') : queue'[i] = x \/ \E j \in 1..Len(queue) : queue'[i] = queue[j]
         /\ \A j \in 1..Len(queue) : \E i \in 1..Len(queue') : queue'[i] = queue[j]
<1>1. /\ queue' \in Seq(Entries)
      /\ queue'[Len(queue) + 1] = x /\ \A i \in 1..Len(queue) : i \in 1..Len(queue') /\ queue'[i] = queue[i]
      /\ \A i \in 1..Len(queue') : i \in 1..Len(queue) \/ i = Len(queue) + 1
  BY AppendIs
<1> QED BY <1>1

LEMMA EntryIs ==
  ASSUME NEW w \in Who, NEW job \in Jobs
  PROVE  Entry(w, job) \in Entries /\ Entry(w, job).who = w
BY DEF Entry, Entries

LEMMA RunAtKeeps ==
  ASSUME RudpInv, NEW e \in Endpoints, RunAt(e)
  PROVE  RudpInv'
<1>1. queue \in Seq(Entries) /\ Running /\ e \in Who /\ "write" \in Jobs
  BY DEF RudpInv, RudpTypes, LoopTypes, Who, Jobs
<1>2. /\ UNCHANGED <<state, co, kcp, timers, socket, clock>> /\ cur' = cur /\ pc' = "event"
      /\ state[e] = "open" /\ queue' = Append(queue, Entry(e, "write")) /\ pc = "select"
      /\ UNCHANGED heap
  BY DEF RunAt, Find
<1>3. cur' = Nobody /\ Nobody \notin Endpoints
  BY <1>1, <1>2, EndpointAssumption DEF Running, Dispatches
<1>4. Running' /\ Skipping'
  BY <1>2, <1>3 DEF Running, RudpInv, Skipping, heap
<1>5. /\ queue' \in Seq(Entries)
      /\ \A i \in 1..Len(queue') : queue'[i] = Entry(e, "write") \/ \E j \in 1..Len(queue) : queue'[i] = queue[j]
      /\ \A j \in 1..Len(queue) : \E i \in 1..Len(queue') : queue'[i] = queue[j]
  BY <1>1, <1>2, EntryIs, AddedIs
<1>6. \A i \in 1..Len(queue') : queue'[i].who = e \/ \E j \in 1..Len(queue) : queue'[i] = queue[j]
  BY <1>1, <1>5, EntryIs
<1>7. \A f \in {} \cap Endpoints : co[f] = "new"
  OBVIOUS
<1> QED BY <1>1, <1>2, <1>3, <1>4, <1>5, <1>6, <1>7, LoopKeeps

LEMMA SelectAtOnceKeeps ==
  ASSUME RudpInv, SelectAtOnce
  PROVE  RudpInv'
<1>1. queue \in Seq(Entries) /\ Running /\ Server \in Who /\ "none" \in Jobs /\ Server \notin Endpoints
  BY EndpointAssumption DEF RudpInv, RudpTypes, LoopTypes, Who, Jobs
<1>2. /\ UNCHANGED <<state, co, kcp, timers, socket, clock>> /\ cur' = cur /\ pc' = "event"
      /\ pc = "select" /\ queue' = queue \o Readable /\ UNCHANGED heap
  BY DEF SelectAtOnce, Select, kcp
<1>3. cur' = Nobody /\ Nobody \notin Endpoints
  BY <1>1, <1>2, EndpointAssumption DEF Running, Dispatches
<1>4. Running' /\ Skipping'
  BY <1>2, <1>3 DEF Running, RudpInv, Skipping, heap
<1>5. Readable \in Seq(Entries) /\ \A i \in 1..Len(Readable) : Readable[i].who = Server
  <2>1. Entry(Server, "none") \in Entries /\ Entry(Server, "none").who = Server
    BY <1>1, EntryIs
  <2> QED BY <2>1 DEF Readable
<1>6. /\ queue' \in Seq(Entries)
      /\ \A i \in 1..Len(queue) : i \in 1..Len(queue') /\ queue'[i] = queue[i]
      /\ \A i \in 1..Len(Readable) : queue'[Len(queue) + i] = Readable[i]
      /\ \A i \in 1..Len(queue') :
           i \in 1..Len(queue) \/ (i - Len(queue) \in 1..Len(Readable) /\ i = Len(queue) + (i - Len(queue)))
  BY <1>1, <1>2, <1>5, ConcatIs
<1>7. \A i \in 1..Len(queue') : queue'[i].who = Server \/ \E j \in 1..Len(queue) : queue'[i] = queue[j]
  <2> SUFFICES ASSUME NEW i \in 1..Len(queue')
               PROVE  queue'[i].who = Server \/ \E j \in 1..Len(queue) : queue'[i] = queue[j]
    OBVIOUS
  <2>1. CASE i \in 1..Len(queue)
    BY <1>6, <2>1
  <2>2. CASE i - Len(queue) \in 1..Len(Readable) /\ i = Len(queue) + (i - Len(queue))
    <3>1. queue'[i] = Readable[i - Len(queue)]
      BY <1>6, <2>2
    <3> QED BY <1>5, <2>2, <3>1
  <2> QED BY <1>6, <2>1, <2>2
<1>8. \A j \in 1..Len(queue) : \E i \in 1..Len(queue') : queue'[i] = queue[j]
  BY <1>6
<1>9. (\A f \in {} \cap Endpoints : co[f] = "new") /\ queue' \in Seq(Entries)
  BY <1>6
<1>10. /\ pc' \in {"tick", "dispatch", "select", "event"} /\ cur' \in {Nobody, Server}
       /\ Server \in Who /\ (Server \in Endpoints => state[Server] # "none")
  BY <1>1, <1>2, <1>3
<1> QED BY <1>2, <1>4, <1>7, <1>8, <1>9, <1>10, LoopKeeps

(* A microsecond passes: less may be set.                                    *)
LEMMA MomentKeeps ==
  ASSUME RudpInv, Moment
  PROVE  RudpInv'
<1>1. /\ state' = state /\ co' = co /\ UNCHANGED kcp /\ UNCHANGED timers /\ UNCHANGED heap
      /\ pc' = pc /\ cur' = cur /\ queue' = queue /\ socket' = socket /\ exact /\ exact' = FALSE
      /\ instants' = instants /\ Again' = Again
  BY DEF Moment, loop, Again
<1>2. UNCHANGED <<recv_queue, inbox, unacked, flush, timer_reg, slots, freed, skipped, reused>>
  BY <1>1 DEF kcp, timers, heap
<1>3. RudpTypes'
  BY <1>1, <1>2 DEF RudpInv, RudpTypes, EndpointTypes, KcpTypes, TimerTypes, LoopTypes
<1>4. Acknowledged' /\ Running' /\ Skipping'
  BY <1>1, <1>2 DEF RudpInv, Acknowledged, Acks, Coming, Running, Dispatches, Skipping
<1>5. QueuedAreMade' /\ Timed'
  BY <1>1, <1>2 DEF RudpInv, QueuedAreMade, Timed
<1>6. TimersRight'
  <2> SUFFICES ASSUME NEW f \in Endpoints
               PROVE  /\ Right(slots, timer_reg[f], f, FALSE, Again)
                      /\ state[f] # "open" => timer_reg[f] = NotRegistered
    BY <1>1, <1>2 DEF TimersRight
  <2>1. /\ Right(slots, timer_reg[f], f, exact, Again)
        /\ state[f] # "open" => timer_reg[f] = NotRegistered
    BY DEF RudpInv, TimersRight
  <2>2. Lives(slots, timer_reg[f], FALSE, Again) => Lives(slots, timer_reg[f], exact, Again)
    BY DEF Lives
  <2> QED BY <2>1, <2>2 DEF Right, NamesOwn
<1> QED BY <1>3, <1>4, <1>5, <1>6 DEF RudpInv

(* tick: what is due is posted, and its slot is gone.                        *)
LEMMA DueIs ==
  ASSUME NEW sl \in [Times -> Seq(Callback)]
  PROVE  /\ Due(sl) \in Seq(Callback)
         /\ \A i \in 1..Len(Due(sl)) :
              \E j \in 1..Len(sl[0]) : IsOn(sl, Due(sl)[i].owner, 0, j)
         /\ \A f \in Endpoints : \A j \in 1..Len(sl[0]) :
              IsOn(sl, f, 0, j) => \E i \in 1..Len(Due(sl)) : Due(sl)[i].owner = f
<1> DEFINE S == [owner : Owners, on : {TRUE}]
<1>1. sl[0] \in Seq(Callback)
  BY TimesAre
<1>2. ASSUME NEW x \in S PROVE x = [owner |-> x.owner, on |-> TRUE]
  <2>1. x = [owner |-> x.owner, on |-> x.on] /\ x.on \in {TRUE}
    OBVIOUS
  <2> QED BY <2>1
<1>3. \A f \in Endpoints : [owner |-> f, on |-> TRUE] \in S
  BY EndpointAssumption
<1>4. Due(sl) = Only(sl[0], S)
  BY DEF Due
<1> HIDE DEF S
<1>5. IsOnly(Due(sl), sl[0], S, Callback)
  BY <1>1, <1>4, OnlyOf
<1>6. ASSUME NEW i \in 1..Len(Due(sl))
      PROVE  \E j \in 1..Len(sl[0]) : IsOn(sl, Due(sl)[i].owner, 0, j)
  <2>1. PICK j \in 1..Len(sl[0]) : Due(sl)[i] = sl[0][j]
    BY <1>5 DEF IsOnly
  <2>2. Due(sl)[i] = [owner |-> Due(sl)[i].owner, on |-> TRUE]
    BY <1>2, <1>5 DEF IsOnly
  <2>3. IsOn(sl, Due(sl)[i].owner, 0, j)
    BY <2>1, <2>2 DEF IsOn
  <2> QED BY <2>3
<1>7. ASSUME NEW f \in Endpoints, NEW j \in 1..Len(sl[0]), IsOn(sl, f, 0, j)
      PROVE  \E i \in 1..Len(Due(sl)) : Due(sl)[i].owner = f
  <2>1. sl[0][j] = [owner |-> f, on |-> TRUE]
    BY <1>7 DEF IsOn
  <2>2. sl[0][j] \in S
    BY <1>3, <2>1
  <2>3. PICK i \in 1..Len(Due(sl)) : Due(sl)[i] = sl[0][j]
    BY <1>5, <2>2 DEF IsOnly
  <2> QED BY <2>1, <2>3
<1> QED BY <1>5, <1>6, <1>7 DEF IsOnly

(* A callback that is on is of an open endpoint.                             *)
LEMMA OnIsOpen ==
  ASSUME RudpInv, NEW e \in Endpoints, NEW t \in Times, NEW i, IsOn(slots, e, t, i)
  PROVE  state[e] = "open" /\ timer_reg[e] = [id |-> i, timepoint |-> t]
<1>1. i \in 1..Len(slots[t]) /\ slots \in [Times -> Seq(Callback)]
  BY DEF IsOn, RudpInv, RudpTypes, TimerTypes
<1>2. timer_reg[e] = [id |-> i, timepoint |-> t]
  BY <1>1 DEF RudpInv, TimersRight, Right, OnIsRegistered
<1>3. timer_reg[e] # NotRegistered
  <2>1. timer_reg[e].timepoint \in Nat /\ NotRegistered.timepoint = -1
    BY <1>2, TimesAre DEF NotRegistered
  <2> QED BY <2>1
<1> QED BY <1>2, <1>3 DEF RudpInv, TimersRight

LEMMA TickKeeps ==
  ASSUME RudpInv, Tick
  PROVE  RudpInv'
<1> DEFINE due == Due(slots)
           posted == [i \in 1..Len(due) |-> Entry(due[i].owner, "update")]
<1>1. RudpTypes /\ Acknowledged /\ QueuedAreMade /\ TimersRight /\ Timed /\ Running /\ Skipping
  BY DEF RudpInv
<1>2. slots \in [Times -> Seq(Callback)] /\ queue \in Seq(Entries)
  BY <1>1 DEF RudpTypes, TimerTypes, LoopTypes
<1>3. /\ state' = state /\ co' = co /\ recv_queue' = recv_queue /\ inbox' = inbox
      /\ unacked' = unacked /\ flush' = flush /\ timer_reg' = timer_reg /\ socket' = socket
      /\ cur' = cur /\ pc = "tick" /\ pc' = "dispatch" /\ slots' = [slots EXCEPT ![0] = <<>>]
      /\ queue' = queue \o [i \in DOMAIN due |-> Entry(due[i].owner, "update")]
      /\ exact' \in BOOLEAN /\ instants' \in {instants, instants + 1} /\ UNCHANGED heap
  BY DEF Tick, AfterTick, kcp
<1>c. /\ instants' \in 0..MaxInstants
      /\ ~Again' => ~exact' /\ ~Again
  <2>1. instants \in 0..MaxInstants /\ MaxInstants \in Nat
    BY <1>1, BoundsAssumption DEF RudpTypes, LoopTypes
  <2>2. CASE exact' = FALSE /\ instants' = instants
    BY <2>1, <2>2 DEF Again
  <2>3. CASE instants < MaxInstants /\ instants' = instants + 1
    BY <2>1, <2>3 DEF Again
  <2> QED BY <2>2, <2>3 DEF Tick
<1>4. /\ due \in Seq(Callback) /\ DOMAIN due = 1..Len(due) /\ Len(due) \in Nat
      /\ \A i \in 1..Len(due) : due[i].owner \in Endpoints
  <2>1. due \in Seq(Callback)
    BY <1>2, DueIs
  <2> HIDE DEF due
  <2>2. DOMAIN due = 1..Len(due) /\ Len(due) \in Nat /\ \A i \in 1..Len(due) : due[i] \in Callback
    BY <2>1
  <2>3. \A x \in Callback : x.owner \in Endpoints
    BY DEF Callback
  <2> QED BY <2>1, <2>2, <2>3
<1>5. queue' = queue \o posted
  BY <1>3, <1>4
<1>6. \A i \in 1..Len(due) : \E j \in 1..Len(slots[0]) : IsOn(slots, due[i].owner, 0, j)
  BY <1>2, DueIs
<1>7. \A f \in Endpoints : \A j \in 1..Len(slots[0]) :
        IsOn(slots, f, 0, j) => \E i \in 1..Len(due) : due[i].owner = f
  BY <1>2, DueIs
<1> HIDE DEF due
<1>8. /\ posted \in Seq(Entries) /\ Len(posted) = Len(due)
      /\ \A i \in 1..Len(due) : posted[i] = Entry(due[i].owner, "update")
  <2>1. \A i \in 1..Len(due) : Entry(due[i].owner, "update") \in Entries
    BY <1>4 DEF Entry, Entries, Who, Jobs
  <2> QED BY <1>4, <2>1
<1> HIDE DEF posted
<1>9. queue' \in Seq(Entries)
  BY <1>2, <1>5, <1>8, ConcatIs
<1>10. \A i \in 1..Len(queue) : i \in 1..Len(queue') /\ queue'[i] = queue[i]
  BY <1>2, <1>5, <1>8, ConcatIs
<1>11. \A i \in 1..Len(due) : Len(queue) + i \in 1..Len(queue') /\ queue'[Len(queue) + i] = posted[i]
  BY <1>2, <1>5, <1>8, ConcatIs
<1>12. \A i \in 1..Len(queue') :
         i \in 1..Len(queue) \/ (i - Len(queue) \in 1..Len(due) /\ i = Len(queue) + (i - Len(queue)))
  BY <1>2, <1>5, <1>8, ConcatIs
<1>13. /\ slots' \in [Times -> Seq(Callback)] /\ slots'[0] = <<>>
       /\ \A t \in Times : t # 0 => slots'[t] = slots[t]
  BY <1>2, <1>3, TimesAre
<1>14. RudpTypes'
  <2>1. LoopTypes'
    BY <1>1, <1>3, <1>9, <1>c DEF RudpTypes, LoopTypes
  <2> QED BY <1>1, <1>3, <1>13, <2>1 DEF RudpTypes, EndpointTypes, KcpTypes, TimerTypes
<1>15. Acknowledged'
  BY <1>1, <1>3 DEF Acknowledged, Acks, Coming
<1>16. Running' /\ Skipping'
  BY <1>1, <1>3 DEF Running, Dispatches, Skipping, heap
<1>17. QueuedAreMade'
  <2> SUFFICES ASSUME NEW i \in 1..Len(queue'), queue'[i].who \in Endpoints
               PROVE  state[queue'[i].who] # "none"
    BY <1>3 DEF QueuedAreMade
  <2>1. CASE i \in 1..Len(queue)
    BY <1>1, <1>10, <2>1 DEF QueuedAreMade
  <2>2. CASE i - Len(queue) \in 1..Len(due) /\ i = Len(queue) + (i - Len(queue))
    <3> DEFINE k == i - Len(queue)
               f == due[k].owner
    <3>1. queue'[i] = Entry(f, "update") /\ f \in Endpoints
      BY <1>4, <1>8, <1>11, <2>2
    <3>2. PICK j \in 1..Len(slots[0]) : IsOn(slots, f, 0, j)
      BY <1>6, <2>2
    <3>3. state[f] = "open"
      BY <3>1, <3>2, OnIsOpen, TimesAre
    <3> QED BY <3>1, <3>3 DEF Entry
  <2> QED BY <1>12, <2>1, <2>2
<1>18. TimersRight'
  <2> SUFFICES ASSUME NEW f \in Endpoints PROVE Right(slots', timer_reg[f], f, exact', Again')
    BY <1>1, <1>3 DEF TimersRight
  <2>1. Right(slots, timer_reg[f], f, exact, Again) /\ timer_reg[f] \in Registration
    BY <1>1 DEF TimersRight, RudpTypes, TimerTypes
  <2>2. OnIsRegistered(slots', timer_reg[f], f)
    <3> SUFFICES ASSUME NEW t \in Times, NEW i \in 1..Len(slots'[t]), IsOn(slots', f, t, i)
                 PROVE  timer_reg[f] = [id |-> i, timepoint |-> t]
      BY DEF OnIsRegistered
    <3>1. t # 0
      BY <1>13
    <3>2. IsOn(slots, f, t, i) /\ i \in 1..Len(slots[t])
      BY <1>13, <3>1 DEF IsOn
    <3> QED BY <2>1, <3>2 DEF Right, OnIsRegistered
  <2>3. NamesOwn(slots', timer_reg[f], f, exact', Again')
    <3> SUFFICES ASSUME Lives(slots', timer_reg[f], exact', Again')
                 PROVE  /\ timer_reg[f].id \in 1..Len(slots'[timer_reg[f].timepoint])
                        /\ slots'[timer_reg[f].timepoint][timer_reg[f].id].owner = f
      BY DEF NamesOwn
    <3>0. ~Again' => ~exact' /\ slots'[0] = <<>>
      BY <1>13, <1>c
    <3>3. timer_reg[f].id >= 0 /\ timer_reg[f].timepoint > 0
      BY <3>0 DEF Lives
    <3>1. timer_reg[f].timepoint > 0 /\ timer_reg[f].timepoint \in Times /\ timer_reg[f].timepoint # 0
      BY <2>1, <3>3, RegistrationIs
    <3>2. Lives(slots, timer_reg[f], exact, Again)
      BY <3>3 DEF Lives
    <3> QED BY <1>13, <2>1, <3>1, <3>2 DEF Right, NamesOwn
  <2> QED BY <2>2, <2>3 DEF Right
<1>19. Timed'
  <2> SUFFICES ASSUME ~Again, NEW f \in Endpoints, co[f] \in {"read", "close"},
                      ~HasTimer(slots', f)
               PROVE  \E i \in 1..Len(queue') : queue'[i] = Entry(f, "update")
    BY <1>3, <1>c DEF Timed
  <2>1. CASE HasTimer(slots, f)
    <3>0. PICK t \in Times : \E j \in 1..Len(slots[t]) : IsOn(slots, f, t, j)
      BY <2>1 DEF HasTimer
    <3>1. PICK j \in 1..Len(slots[t]) : IsOn(slots, f, t, j)
      BY <3>0
    <3>2. t = 0
      <4> SUFFICES ASSUME t # 0 PROVE FALSE
        OBVIOUS
      <4>1. j \in 1..Len(slots'[t]) /\ IsOn(slots', f, t, j)
        BY <1>13, <3>1 DEF IsOn
      <4> QED BY <4>1 DEF HasTimer
    <3>3. PICK i \in 1..Len(due) : due[i].owner = f
      BY <1>7, <3>1, <3>2
    <3>4. Len(queue) + i \in 1..Len(queue') /\ queue'[Len(queue) + i] = Entry(f, "update")
      BY <1>8, <1>11, <3>3
    <3> QED BY <3>4
  <2>2. CASE ~HasTimer(slots, f)
    <3>1. PICK j \in 1..Len(queue) : queue[j] = Entry(f, "update")
      BY <1>1, <2>2 DEF Timed
    <3> QED BY <1>10, <3>1
  <2> QED BY <2>1, <2>2
<1> QED BY <1>14, <1>15, <1>16, <1>17, <1>18, <1>19 DEF RudpInv

(* A unit of time passes.                                                    *)
LEMMA ElapseKeeps ==
  ASSUME RudpInv, Elapse
  PROVE  RudpInv'
<1>1. RudpTypes /\ Acknowledged /\ QueuedAreMade /\ TimersRight /\ Timed /\ Running /\ Skipping
  BY DEF RudpInv
<1>2. /\ slots \in [Times -> Seq(Callback)] /\ queue \in Seq(Entries)
      /\ timer_reg \in [Endpoints -> Registration] /\ flush \in [Endpoints -> 0..Interval]
  BY <1>1 DEF RudpTypes, TimerTypes, LoopTypes, KcpTypes
<1>3. /\ state' = state /\ co' = co /\ recv_queue' = recv_queue /\ inbox' = inbox
      /\ unacked' = unacked /\ socket' = socket /\ cur' = cur
      /\ pc = "select" /\ pc' = "event" /\ queue' = queue \o Readable
      /\ slots[0] = <<>> /\ exact' \in BOOLEAN /\ instants' = instants /\ Again' = Again /\ UNCHANGED heap
      /\ slots' = Later(slots)
      /\ timer_reg' = [e \in Endpoints |-> LaterRegistration(timer_reg[e])]
      /\ flush' = [e \in Endpoints |-> IF flush[e] = 0 THEN 0 ELSE flush[e] - 1]
  BY DEF Elapse, Select, Again
<1>4. cur = Nobody /\ Nobody \notin Endpoints
  BY <1>1, <1>3, EndpointAssumption DEF Running, Dispatches
<1>5. Readable \in Seq(Entries) /\ \A i \in 1..Len(Readable) : Readable[i].who = Server
  <2>1. Entry(Server, "none") \in Entries /\ Entry(Server, "none").who = Server
    BY DEF Entry, Entries, Who, Jobs
  <2> QED BY <2>1 DEF Readable
<1>6. queue' \in Seq(Entries)
  BY <1>2, <1>3, <1>5, ConcatIs
<1>7. \A i \in 1..Len(queue) : i \in 1..Len(queue') /\ queue'[i] = queue[i]
  BY <1>2, <1>3, <1>5, ConcatIs
<1>8. \A i \in 1..Len(Readable) : queue'[Len(queue) + i] = Readable[i]
  BY <1>2, <1>3, <1>5, ConcatIs
<1>9. \A i \in 1..Len(queue') :
        i \in 1..Len(queue) \/ (i - Len(queue) \in 1..Len(Readable) /\ i = Len(queue) + (i - Len(queue)))
  BY <1>2, <1>3, <1>5, ConcatIs
<1>10. /\ slots' \in [Times -> Seq(Callback)]
       /\ \A t \in Times : t + 1 \in Times => slots'[t] = slots[t + 1]
       /\ \A t \in Times : t + 1 \notin Times => slots'[t] = <<>>
  BY <1>2, <1>3 DEF Later
<1>11. \A t \in Times : t # 0 => t - 1 \in Times /\ (t - 1) + 1 = t
  BY HorizonAssumption DEF Times
<1>12. ASSUME NEW f \in Endpoints
       PROVE  /\ timer_reg'[f] \in Registration /\ timer_reg'[f].id = timer_reg[f].id
              /\ timer_reg[f].timepoint = -1 => timer_reg'[f] = timer_reg[f]
              /\ timer_reg[f].timepoint # -1 => timer_reg'[f].timepoint = timer_reg[f].timepoint - 1
  <2> DEFINE reg == timer_reg[f]
  <2>1. reg \in Registration /\ timer_reg'[f] = LaterRegistration(reg)
    BY <1>2, <1>3
  <2>2. /\ reg = [id |-> reg.id, timepoint |-> reg.timepoint]
        /\ reg.timepoint = -1 \/ (reg.timepoint \in Times /\ reg.timepoint \in Nat)
    BY <2>1, RegistrationIs
  <2>3. reg.id \in {-1} \cup Nat
    BY <2>1 DEF Registration
  <2> HIDE DEF reg
  <2>4. timer_reg'[f] = [id |-> reg.id,
                         timepoint |-> IF reg.timepoint = -1 THEN -1 ELSE reg.timepoint - 1]
    BY <2>1, <2>2 DEF LaterRegistration, Past
  <2>5. reg.timepoint # -1 => reg.timepoint - 1 \in (-1)..(Horizon + 1)
    BY <2>2, HorizonAssumption DEF Times
  <2>6. -1 \in (-1)..(Horizon + 1)
    BY HorizonAssumption
  <2>7. timer_reg'[f] \in Registration
    BY <2>3, <2>4, <2>5, <2>6 DEF Registration, Past
  <2>8. reg.timepoint = -1 => timer_reg'[f] = reg
    BY <2>2, <2>4
  <2> QED BY <2>4, <2>7, <2>8 DEF reg
<1>13. RudpTypes'
  <2>1. LoopTypes'
    BY <1>1, <1>3, <1>6 DEF RudpTypes, LoopTypes
  <2>2. TimerTypes'
    <3>1. timer_reg' = [e \in Endpoints |-> timer_reg'[e]]
      BY <1>3
    <3> QED BY <1>10, <1>12, <3>1 DEF TimerTypes
  <2>3. KcpTypes'
    <3>1. \A n \in 0..Interval : (IF n = 0 THEN 0 ELSE n - 1) \in 0..Interval
      BY TimesAre
    <3>2. flush' \in [Endpoints -> 0..Interval]
      BY <1>2, <1>3, <3>1
    <3> QED BY <1>1, <1>3, <3>2 DEF RudpTypes, KcpTypes
  <2> QED BY <1>1, <1>3, <2>1, <2>2, <2>3 DEF RudpTypes, EndpointTypes
<1>14. Acknowledged'
  BY <1>1, <1>3 DEF Acknowledged, Acks, Coming
<1>15. Running' /\ Skipping'
  BY <1>1, <1>3, <1>4 DEF Running, Skipping, heap
<1>16. QueuedAreMade'
  <2> SUFFICES ASSUME NEW i \in 1..Len(queue'), queue'[i].who \in Endpoints
               PROVE  state[queue'[i].who] # "none"
    BY <1>3 DEF QueuedAreMade
  <2>1. CASE i \in 1..Len(queue)
    BY <1>1, <1>7, <2>1 DEF QueuedAreMade
  <2>2. CASE i - Len(queue) \in 1..Len(Readable) /\ i = Len(queue) + (i - Len(queue))
    <3>1. queue'[i].who = Server
      BY <1>5, <1>8, <2>2
    <3> QED BY <3>1, EndpointAssumption
  <2> QED BY <1>9, <2>1, <2>2
<1>17. TimersRight'
  <2> SUFFICES ASSUME NEW f \in Endpoints
               PROVE  /\ Right(slots', timer_reg'[f], f, exact', Again')
                      /\ state[f] # "open" => timer_reg'[f] = NotRegistered
    BY <1>3 DEF TimersRight
  <2> DEFINE reg == timer_reg[f]
             new == timer_reg'[f]
  <2>1. Right(slots, reg, f, exact, Again) /\ reg \in Registration
    BY <1>1, <1>2 DEF TimersRight
  <2>2. /\ new \in Registration /\ new.id = reg.id
        /\ reg.timepoint = -1 => new = reg
        /\ reg.timepoint # -1 => new.timepoint = reg.timepoint - 1
    BY <1>12
  <2>3. /\ reg.timepoint = -1 \/ (reg.timepoint \in Times /\ reg.timepoint \in Nat)
        /\ new = [id |-> new.id, timepoint |-> new.timepoint]
    BY <2>1, <2>2, RegistrationIs
  <2>4. state[f] # "open" => new = NotRegistered
    BY <1>1, <2>2 DEF TimersRight, NotRegistered, Past
  <2>5. OnIsRegistered(slots', new, f)
    <3> SUFFICES ASSUME NEW t \in Times, NEW i \in 1..Len(slots'[t]), IsOn(slots', f, t, i)
                 PROVE  new = [id |-> i, timepoint |-> t]
      BY DEF OnIsRegistered
    <3>1. t + 1 \in Times /\ slots'[t] = slots[t + 1]
      <4>1. slots'[t] # <<>>
        OBVIOUS
      <4> QED BY <1>10, <4>1
    <3>2. IsOn(slots, f, t + 1, i) /\ i \in 1..Len(slots[t + 1])
      BY <3>1 DEF IsOn
    <3>3. reg = [id |-> i, timepoint |-> t + 1]
      BY <2>1, <3>1, <3>2 DEF Right, OnIsRegistered
    <3>4. reg.id = i /\ reg.timepoint = t + 1 /\ t \in Nat
      BY <3>3, TimesAre
    <3>5. new.id = i /\ new.timepoint = t
      BY <2>2, <3>4
    <3> QED BY <2>3, <3>5
  <2>6. NamesOwn(slots', new, f, exact', Again')
    <3> SUFFICES ASSUME Lives(slots', new, exact', Again')
                 PROVE  new.id \in 1..Len(slots'[new.timepoint]) /\ slots'[new.timepoint][new.id].owner = f
      BY DEF NamesOwn
    <3>1. new.id >= 0 /\ new.timepoint \in Nat /\ new.timepoint \in Times
      BY <2>2, RegistrationIs, TimesAre DEF Lives
    <3>2. reg.timepoint # -1
      BY <2>2, <3>1, TimesAre
    <3>3. reg.timepoint \in Times /\ new.timepoint + 1 = reg.timepoint /\ reg.timepoint > 0
      BY <2>2, <2>3, <3>1, <3>2
    <3>4. slots'[new.timepoint] = slots[reg.timepoint]
      BY <1>10, <3>1, <3>3
    <3>5. Lives(slots, reg, exact, Again)
      BY <2>2, <3>1, <3>3 DEF Lives
    <3> QED BY <2>1, <2>2, <3>4, <3>5 DEF Right, NamesOwn
  <2> QED BY <2>4, <2>5, <2>6 DEF Right
<1>18. Timed'
  <2> SUFFICES ASSUME ~Again, NEW f \in Endpoints, co[f] \in {"read", "close"}
               PROVE  HasTimer(slots', f) \/ \E i \in 1..Len(queue') : queue'[i] = Entry(f, "update")
    BY <1>3 DEF Timed
  <2>1. CASE HasTimer(slots, f)
    <3>0. PICK t \in Times : \E i \in 1..Len(slots[t]) : IsOn(slots, f, t, i)
      BY <2>1 DEF HasTimer
    <3>1. PICK i \in 1..Len(slots[t]) : IsOn(slots, f, t, i)
      BY <3>0
    <3>2. t # 0
      BY <1>3, <3>1
    <3>3. t - 1 \in Times /\ slots'[t - 1] = slots[t]
      BY <1>10, <1>11, <3>2
    <3>4. IsOn(slots', f, t - 1, i) /\ i \in 1..Len(slots'[t - 1])
      BY <3>1, <3>3 DEF IsOn
    <3> QED BY <3>3, <3>4 DEF HasTimer
  <2>2. CASE ~HasTimer(slots, f)
    <3>1. PICK j \in 1..Len(queue) : queue[j] = Entry(f, "update")
      BY <1>1, <2>2 DEF Timed
    <3> QED BY <1>7, <3>1
  <2> QED BY <2>1, <2>2
<1> QED BY <1>13, <1>14, <1>15, <1>16, <1>17, <1>18 DEF RudpInv

(* What add_connection leaves in the queue.                                  *)
LEMMA WithoutIs ==
  ASSUME NEW q \in Seq(Entries), NEW gone \in SUBSET Endpoints
  PROVE  LET r == Without(gone, q)
         IN  /\ r \in Seq(Entries)
             /\ \A i \in 1..Len(r) : \E j \in 1..Len(q) : r[i] = q[j] /\ q[j].who \notin gone
             /\ \A j \in 1..Len(q) : q[j].who \notin gone => \E i \in 1..Len(r) : r[i] = q[j]
<1> DEFINE S == [who : (Endpoints \cup {Server}) \ gone, job : Jobs]
<1>1. \A x \in Entries : x \in S <=> x.who \notin gone
  BY DEF Entries, Who
<1>2. \A j \in 1..Len(q) : q[j] \in Entries
  OBVIOUS
<1>3. Without(gone, q) = Only(q, S)
  BY DEF Without
<1> HIDE DEF S
<1>4. /\ Only(q, S) \in Seq(Entries)
      /\ \A i \in 1..Len(Only(q, S)) : Only(q, S)[i] \in S /\ \E j \in 1..Len(q) : Only(q, S)[i] = q[j]
      /\ \A j \in 1..Len(q) : q[j] \in S => \E i \in 1..Len(Only(q, S)) : Only(q, S)[i] = q[j]
  <2>1. IsOnly(Only(q, S), q, S, Entries)
    BY OnlyOf
  <2> QED BY <2>1 DEF IsOnly
<1>5. \A i \in 1..Len(Only(q, S)) : \E j \in 1..Len(q) : Only(q, S)[i] = q[j] /\ q[j].who \notin gone
  <2> DEFINE r == Only(q, S)
  <2>1. \A i \in 1..Len(r) : r[i] \in S /\ \E j \in 1..Len(q) : r[i] = q[j]
    BY <1>4
  <2>2. \A j \in 1..Len(q) : q[j] \in S => q[j].who \notin gone
    BY <1>1, <1>2
  <2> HIDE DEF r
  <2>3. \A i \in 1..Len(r) : \E j \in 1..Len(q) : r[i] = q[j] /\ q[j].who \notin gone
    BY <2>1, <2>2
  <2> QED BY <2>3 DEF r
<1>6. \A j \in 1..Len(q) : q[j].who \notin gone => q[j] \in S
  BY <1>1, <1>2
<1> QED BY <1>3, <1>4, <1>5, <1>6

(* An endpoint is made, destroyed when it was swept, or stays as it is; and  *)
(* the queue has what was posted for one of them.                            *)
Grows(e, gone) ==
  \A f \in Endpoints :
    \/ state'[f] = state[f] /\ co'[f] = co[f] /\ f \notin gone
    \/ f = e /\ state'[f] = "open" /\ co'[f] = "new"
    \/ f \in gone /\ state[f] = "released" /\ state'[f] = "none" /\ co'[f] = "none"
EntriesFor(e, gone) ==
  /\ queue' \in Seq(Entries)
  /\ \A i \in 1..Len(queue') :
       \/ queue'[i].who = e /\ state'[e] # "none"
       \/ \E j \in 1..Len(queue) : queue'[i] = queue[j] /\ queue[j].who \notin gone
  /\ \A j \in 1..Len(queue) :
       queue[j].who \notin gone => \E i \in 1..Len(queue') : queue'[i] = queue[j]

LEMMA GrowKeeps ==
  ASSUME RudpInv, NEW e \in Endpoints, NEW gone, Grows(e, gone), EntriesFor(e, gone),
         state' \in [Endpoints -> {"none", "open", "released"}],
         co' \in [Endpoints -> {"none", "new", "running", "read", "close", "done"}],
         slots' = slots, timer_reg' = timer_reg, UNCHANGED clock
  PROVE  EndpointTypes' /\ TimerTypes' /\ QueuedAreMade' /\ TimersRight' /\ Timed'
<1>1. EndpointTypes /\ TimerTypes /\ QueuedAreMade /\ TimersRight /\ Timed
  BY DEF RudpInv, RudpTypes
<1>c. exact' = exact /\ Again' = Again
  BY DEF clock, Again
<1>2. EndpointTypes'
  BY <1>1 DEF EndpointTypes, Grows
<1>3. TimerTypes'
  BY <1>1 DEF TimerTypes
<1>4. QueuedAreMade'
  <2> SUFFICES ASSUME NEW i \in 1..Len(queue'), queue'[i].who \in Endpoints
               PROVE  state'[queue'[i].who] # "none"
    BY DEF QueuedAreMade
  <2>1. CASE \E j \in 1..Len(queue) : queue'[i] = queue[j] /\ queue[j].who \notin gone
    <3>1. PICK j \in 1..Len(queue) : queue'[i] = queue[j] /\ queue[j].who \notin gone
      BY <2>1
    <3>2. state[queue[j].who] # "none" /\ queue[j].who \in Endpoints
      BY <1>1, <3>1 DEF QueuedAreMade
    <3> QED BY <3>1, <3>2 DEF Grows
  <2> QED BY <2>1 DEF EntriesFor
<1>5. TimersRight'
  <2> SUFFICES ASSUME NEW f \in Endpoints
               PROVE  /\ Right(slots', timer_reg'[f], f, exact, Again)
                      /\ state'[f] # "open" => timer_reg'[f] = NotRegistered
    BY <1>c DEF TimersRight
  <2>1. /\ Right(slots, timer_reg[f], f, exact, Again)
        /\ state[f] # "open" => timer_reg[f] = NotRegistered
    BY <1>1 DEF TimersRight
  <2>2. state'[f] # "open" => state[f] # "open"
    BY DEF Grows
  <2> QED BY <2>1, <2>2
<1>6. Timed'
  <2> SUFFICES ASSUME ~Again, NEW f \in Endpoints, co'[f] \in {"read", "close"},
                      ~HasTimer(slots, f)
               PROVE  \E i \in 1..Len(queue') : queue'[i] = Entry(f, "update")
    BY <1>c DEF Timed
  <2>1. co[f] \in {"read", "close"} /\ f \notin gone
    BY DEF Grows
  <2>2. PICK j \in 1..Len(queue) : queue[j] = Entry(f, "update")
    BY <1>1, <2>1 DEF Timed
  <2>3. queue[j].who = f
    BY <2>2 DEF Entry
  <2> QED BY <2>1, <2>2, <2>3 DEF EntriesFor
<1> QED BY <1>2, <1>3, <1>4, <1>5, <1>6

LEMMA AddGrows ==
  ASSUME RudpInv, NEW e \in Endpoints, AddConnection(e)
  PROVE  /\ Skipping' /\ (reused => reused')
         /\ Grows(e, Swept) /\ state'[e] = "open" /\ timer_reg' = timer_reg /\ inbox' = inbox
         /\ unacked' = unacked /\ flush' = flush /\ Swept \in SUBSET Endpoints
         /\ state' \in [Endpoints -> {"none", "open", "released"}]
         /\ co' \in [Endpoints -> {"none", "new", "running", "read", "close", "done"}]
<1>1. EndpointTypes /\ Skipping
  BY DEF RudpInv, RudpTypes
<1>2. /\ state' = [f \in Endpoints |-> IF f = e THEN "open"
                                       ELSE IF f \in Swept THEN "none" ELSE state[f]]
      /\ co' = [f \in Endpoints |-> IF f = e THEN "new" ELSE IF f \in Swept THEN "none" ELSE co[f]]
      /\ timer_reg' = timer_reg /\ inbox' = inbox /\ unacked' = unacked /\ flush' = flush
  BY DEF AddConnection
<1>3. Swept \in SUBSET Endpoints /\ \A f \in Endpoints : f \in Swept <=> state[f] = "released"
  BY DEF Swept
<1>4. Skipping'
  <2>1. IsFiniteSet(Swept)
    BY <1>3, EndpointAssumption, FS_Subset
  <2>2. Cardinality(Swept) \in Nat
    BY <2>1, FS_CardinalityType
  <2>3. freed' \in Nat /\ skipped' \subseteq skipped \cup {e}
    BY <1>1, <2>2 DEF AddConnection, Allocate, Skipping
  <2>4. \A f \in skipped : f = e \/ (f \notin Swept /\ f \in Endpoints)
    BY <1>1, <1>3 DEF Skipping, EndpointTypes
  <2>5. \A f \in skipped' : f \in Endpoints /\ co'[f] = "new"
    BY <1>1, <1>2, <2>3, <2>4 DEF Skipping
  <2>6. reused' \in BOOLEAN /\ (~reused' => skipped' = {})
    BY <1>1, Zenon DEF AddConnection, Allocate, Skipping
  <2> QED BY <1>1, <2>3, <2>5, <2>6 DEF Skipping
<1>5. reused => reused'
  BY Zenon DEF AddConnection, Allocate
<1> QED BY <1>1, <1>2, <1>3, <1>4, <1>5 DEF Grows, EndpointTypes

(* An entry more, in the queue or in what the sweep leaves of it.            *)
LEMMA EntryAdded ==
  ASSUME NEW q \in Seq(Entries), NEW e \in Endpoints, NEW gone, state'[e] # "none",
         \A i \in 1..Len(q) :
            \/ q[i].who = e
            \/ \E j \in 1..Len(queue) : q[i] = queue[j] /\ queue[j].who \notin gone,
         \A j \in 1..Len(queue) :
            queue[j].who \notin gone => \E i \in 1..Len(q) : q[i] = queue[j],
         queue' = Append(q, Entry(e, "none"))
  PROVE  EntriesFor(e, gone) /\ \E i \in 1..Len(queue') : queue'[i].who = e
<1> DEFINE x == Entry(e, "none")
           r == Append(q, x)
<1>1. x \in Entries /\ x.who = e
  BY EntryIs DEF Who, Jobs
<1> HIDE DEF x
<1>2. /\ r \in Seq(Entries) /\ r[Len(q) + 1] = x /\ Len(r) = Len(q) + 1 /\ Len(q) \in Nat
      /\ \A i \in 1..Len(q) : i \in 1..Len(r) /\ r[i] = q[i]
      /\ \A i \in 1..Len(r) : i \in 1..Len(q) \/ i = Len(q) + 1
  BY <1>1, AppendIs
<1>3. queue' = r
  BY DEF x
<1> HIDE DEF r
<1>4. Len(q) + 1 \in 1..Len(r)
  BY <1>2
<1>5. EntriesFor(e, gone)
  BY <1>1, <1>2, <1>3 DEF EntriesFor
<1>6. queue'[Len(q) + 1].who = e /\ Len(q) + 1 \in 1..Len(queue')
  BY <1>1, <1>2, <1>3, <1>4
<1> QED BY <1>5, <1>6

LEMMA EntryPosted ==
  ASSUME queue \in Seq(Entries), NEW e \in Endpoints, state'[e] # "none",
         queue' = Append(queue, Entry(e, "none"))
  PROVE  EntriesFor(e, {}) /\ \E i \in 1..Len(queue') : queue'[i].who = e
<1> DEFINE x == Entry(e, "none")
<1>1. x \in Entries /\ x.who = e /\ queue' = Append(queue, x)
  BY EntryIs DEF Who, Jobs
<1> HIDE DEF x
<1>2. /\ queue' \in Seq(Entries)
      /\ \A i \in 1..Len(queue') : queue'[i] = x \/ \E j \in 1..Len(queue) : queue'[i] = queue[j]
      /\ \A j \in 1..Len(queue) : \E i \in 1..Len(queue') : queue'[i] = queue[j]
  BY <1>1, AddedIs
<1>3. EntriesFor(e, {})
  BY <1>1, <1>2 DEF EntriesFor
<1>4. Len(queue') \in 1..Len(queue') /\ queue'[Len(queue')] = x
  BY <1>1
<1> QED BY <1>1, <1>3, <1>4

(* A datagram goes from the kernel to its endpoint, or is discarded.         *)
LEMMA TakenIs ==
  ASSUME RudpInv, socket # <<>>, socket' = Tail(socket), unacked' = unacked,
         \/ recv_queue' = recv_queue
         \/ recv_queue' = [recv_queue EXCEPT ![Head(socket).from] = Append(@, Head(socket).kind)]
  PROVE  /\ recv_queue' \in [Endpoints -> Seq(Datagrams)]
         /\ socket' \in Seq([from : Endpoints, kind : Datagrams])
         /\ Acknowledged'
<1> DEFINE D == [from : Endpoints, kind : Datagrams]
           e == Head(socket).from
           k == Head(socket).kind
<1>1. /\ recv_queue \in [Endpoints -> Seq(Datagrams)] /\ socket \in Seq(D) /\ RudpTypes
      /\ Acknowledged
  BY DEF RudpInv, RudpTypes, KcpTypes, LoopTypes
<1>2. Tail(socket) \in Seq(D) /\ Head(socket) \in D
  <2> HIDE DEF D
  <2> QED BY <1>1, HeadIs
<1>3. e \in Endpoints /\ k \in Datagrams /\ Head(socket) = [from |-> e, kind |-> k]
  BY <1>2
<1> HIDE DEF e, k
<1>4. recv_queue' = recv_queue \/ recv_queue' = [recv_queue EXCEPT ![e] = Append(recv_queue[e], k)]
  BY DEF e, k
<1>5. recv_queue' \in [Endpoints -> Seq(Datagrams)]
  <2>1. recv_queue[e] \in Seq(Datagrams)
    BY <1>1, <1>3
  <2>2. Append(recv_queue[e], k) \in Seq(Datagrams)
    BY <1>3, <2>1
  <2> DEFINE a == Append(recv_queue[e], k)
             D1 == Seq(Datagrams)
  <2>3. recv_queue' = recv_queue \/ recv_queue' = [recv_queue EXCEPT ![e] = a]
    BY <1>4
  <2>4. a \in D1 /\ recv_queue \in [Endpoints -> D1]
    BY <1>1, <2>2
  <2> HIDE DEF a, D1
  <2>5. recv_queue' \in [Endpoints -> D1]
    BY <2>3, <2>4
  <2> QED BY <2>5 DEF D1
<1>6. ASSUME NEW f \in Endpoints PROVE Acks(f)' + Coming(f)' <= unacked[f]
  <2> DEFINE x == [from |-> f, kind |-> "ack"]
  <2>1. Acks(f) \in Nat /\ Coming(f) \in Nat /\ unacked[f] \in Int /\ Acks(f) + Coming(f) <= unacked[f]
    <3>1. RudpTypes /\ Acknowledged
      BY <1>1
    <3>2. Acks(f) \in Nat /\ Coming(f) \in Nat /\ unacked[f] \in 0..MaxUnacked
      BY <3>1, AcksAre
    <3> QED BY <3>1, <3>2 DEF Acknowledged
  <2>2. Coming(f) = Coming(f)' + (IF Head(socket) = x THEN 1 ELSE 0)
    <3>1. Count(socket, x) = Count(Tail(socket), x) + (IF Head(socket) = x THEN 1 ELSE 0)
      BY <1>1, CountTail
    <3> QED BY <3>1 DEF Coming
  <2>3. Coming(f)' \in Nat
    <3>1. Count(Tail(socket), x) \in Nat
      BY <1>2, CountIs
    <3> QED BY <3>1 DEF Coming
  <2>4. Acks(f)' \in Nat /\ (Acks(f)' = Acks(f) \/ (Acks(f)' = Acks(f) + 1 /\ Head(socket) = x))
    <3>1. CASE recv_queue'[f] = recv_queue[f]
      BY <2>1, <3>1 DEF Acks
    <3>2. CASE f = e /\ recv_queue'[f] = Append(recv_queue[f], k)
      <4>1. recv_queue[f] \in Seq(Datagrams)
        BY <1>1
      <4>2. Count(Append(recv_queue[f], k), "ack") = Count(recv_queue[f], "ack") + (IF k = "ack" THEN 1 ELSE 0)
        BY <1>3, <4>1, CountAppend
      <4> QED BY <1>3, <2>1, <3>2, <4>2 DEF Acks
    <3> QED BY <1>1, <1>3, <1>4, <3>1, <3>2
  <2> HIDE DEF x
  <2> QED BY <2>1, <2>2, <2>3, <2>4
<1> QED BY <1>2, <1>5, <1>6 DEF Acknowledged

(* What a datagram may do: it comes to an endpoint that is there, makes one, *)
(* or is discarded, and who gets it is queued.                               *)
Typed ==
  /\ state' \in [Endpoints -> {"none", "open", "released"}]
  /\ co' \in [Endpoints -> {"none", "new", "running", "read", "close", "done"}]
  /\ unacked' = unacked /\ inbox' = inbox /\ flush' = flush /\ timer_reg' = timer_reg
  /\ Skipping' /\ (reused => reused')
Delivered(e, k) ==
  \/ recv_queue' = recv_queue
  \/ recv_queue' = [recv_queue EXCEPT ![e] = Append(@, k)]
Received(e, k, gone) ==
  /\ Grows(e, gone) /\ EntriesFor(e, gone) /\ Typed /\ Delivered(e, k)
  /\ \/ \E i \in 1..Len(queue') : queue'[i].who = e
     \/ co' = co /\ recv_queue' = recv_queue /\ queue' = queue

LEMMA ReceiveGrows ==
  ASSUME RudpInv, NEW e \in Endpoints, NEW k \in Datagrams, CheckUnknown(e, k)
  PROVE  \E gone : Received(e, k, gone)
<1>1. RudpTypes /\ EndpointTypes /\ KcpTypes /\ queue \in Seq(Entries) /\ Skipping
  BY DEF RudpInv, RudpTypes, LoopTypes
<1>2. /\ \A q : Deliver(e, k, q) => Delivered(e, k) /\ queue' = Append(q, Entry(e, "none"))
      /\ state \in [Endpoints -> {"none", "open", "released"}]
      /\ co \in [Endpoints -> {"none", "new", "running", "read", "close", "done"}]
  <2>1. recv_queue \in [Endpoints -> Seq(Datagrams)]
    BY <1>1 DEF KcpTypes
  <2> QED BY <1>1, <2>1 DEF Deliver, EndpointTypes, Delivered
<1>3. CASE /\ state[e] # "none" /\ Deliver(e, k, queue)
           /\ UNCHANGED <<state, co, timer_reg, unacked, inbox, flush, heap>>
  <2>1. /\ state' = state /\ co' = co /\ queue' = Append(queue, Entry(e, "none"))
        /\ Delivered(e, k) /\ Typed
    BY <1>1, <1>2, <1>3 DEF Typed, Skipping, heap
  <2>2. Grows(e, {})
    BY <2>1 DEF Grows
  <2>3. EntriesFor(e, {}) /\ \E i \in 1..Len(queue') : queue'[i].who = e
    BY <1>1, <1>3, <2>1, EntryPosted
  <2> QED BY <2>1, <2>2, <2>3 DEF Received
<1>4. CASE AddConnection(e) /\ Deliver(e, k, Append(Without(Swept, queue), Entry(e, "none")))
  <2> DEFINE w == Without(Swept, queue)
             x == Entry(e, "none")
             q == Append(w, x)
  <2>1. Grows(e, Swept) /\ state'[e] = "open" /\ Swept \in SUBSET Endpoints /\ Typed
    BY <1>4, AddGrows DEF Typed
  <2>2. Delivered(e, k) /\ queue' = Append(q, x)
    BY <1>2, <1>4
  <2>3. /\ w \in Seq(Entries)
        /\ \A i \in 1..Len(w) : \E j \in 1..Len(queue) : w[i] = queue[j] /\ queue[j].who \notin Swept
        /\ \A j \in 1..Len(queue) : queue[j].who \notin Swept => \E i \in 1..Len(w) : w[i] = queue[j]
    BY <1>1, <2>1, WithoutIs
  <2>4. x \in Entries /\ x.who = e
    BY EntryIs DEF Who, Jobs
  <2> HIDE DEF w, x
  <2>5. /\ q \in Seq(Entries) /\ q[Len(w) + 1] = x
        /\ \A i \in 1..Len(w) : i \in 1..Len(q) /\ q[i] = w[i]
        /\ \A i \in 1..Len(q) : i \in 1..Len(w) \/ i = Len(w) + 1
    BY <2>3, <2>4, AppendIs
  <2> HIDE DEF q
  <2>6. \A i \in 1..Len(q) :
          q[i].who = e \/ \E j \in 1..Len(queue) : q[i] = queue[j] /\ queue[j].who \notin Swept
    <3> SUFFICES ASSUME NEW i \in 1..Len(q), i \in 1..Len(w)
                 PROVE  \E j \in 1..Len(queue) : q[i] = queue[j] /\ queue[j].who \notin Swept
      BY <2>4, <2>5
    <3>1. q[i] = w[i]
      BY <2>5
    <3> QED BY <2>3, <3>1
  <2>7. \A j \in 1..Len(queue) : queue[j].who \notin Swept => \E i \in 1..Len(q) : q[i] = queue[j]
    BY <2>3, <2>5
  <2>8. EntriesFor(e, Swept) /\ \E i \in 1..Len(queue') : queue'[i].who = e
    BY <2>1, <2>2, <2>5, <2>6, <2>7, EntryAdded DEF x
  <2> QED BY <2>1, <2>2, <2>8 DEF Received
<1>5. CASE /\ state[e] = "none"
           /\ UNCHANGED <<state, co, timer_reg, unacked, inbox, flush, recv_queue, queue, heap>>
  <2>1. Grows(e, {}) /\ EntriesFor(e, {}) /\ Typed /\ Delivered(e, k)
    BY <1>1, <1>2, <1>5 DEF Grows, EntriesFor, Typed, Delivered, Skipping, heap
  <2> QED BY <1>5, <2>1 DEF Received
<1> QED BY <1>3, <1>4, <1>5 DEF CheckUnknown

LEMMA ReceiveIs ==
  ASSUME RudpInv, Receive
  PROVE  /\ cur = Server /\ socket # <<>> /\ socket' = Tail(socket) /\ slots' = slots /\ pc' = pc
         /\ cur' = cur /\ UNCHANGED clock
         /\ \E gone : Received(Head(socket).from, Head(socket).kind, gone)
         /\ Head(socket).from \in Endpoints
<1>1. socket \in Seq([from : Endpoints, kind : Datagrams])
  BY DEF RudpInv, RudpTypes, LoopTypes
<1>2. /\ cur = Server /\ socket # <<>> /\ socket' = Tail(socket) /\ slots' = slots /\ pc' = pc
      /\ cur' = cur /\ UNCHANGED clock /\ CheckUnknown(Head(socket).from, Head(socket).kind)
  BY DEF Receive
<1>3. Head(socket) \in [from : Endpoints, kind : Datagrams]
  BY <1>1, <1>2, HeadIs
<1>4. Head(socket).from \in Endpoints /\ Head(socket).kind \in Datagrams
  BY <1>3
<1>5. \E gone : Received(Head(socket).from, Head(socket).kind, gone)
  BY <1>2, <1>4, ReceiveGrows
<1> QED BY <1>2, <1>4, <1>5

LEMMA ReceiveKeeps ==
  ASSUME RudpInv, Receive
  PROVE  RudpInv'
<1>1. /\ RudpTypes /\ Running /\ KcpTypes
  BY DEF RudpInv, RudpTypes
<1>2. /\ cur = Server /\ socket # <<>> /\ socket' = Tail(socket) /\ slots' = slots /\ pc' = pc
      /\ cur' = cur /\ UNCHANGED clock
  BY ReceiveIs
<1>h. PICK e \in Endpoints : e = Head(socket).from
  BY ReceiveIs
<1>3. PICK gone : Received(e, Head(socket).kind, gone)
  BY <1>h, ReceiveIs
<1>4. Grows(e, gone) /\ EntriesFor(e, gone) /\ Typed /\ Delivered(e, Head(socket).kind)
  BY <1>3 DEF Received
<1>5. EndpointTypes' /\ TimerTypes' /\ QueuedAreMade' /\ TimersRight' /\ Timed'
  BY <1>2, <1>4, GrowKeeps DEF Typed
<1>6. /\ recv_queue' \in [Endpoints -> Seq(Datagrams)] /\ Acknowledged'
      /\ socket' \in Seq([from : Endpoints, kind : Datagrams])
  BY <1>2, <1>h, <1>4, TakenIs DEF Delivered, Typed
<1>7. RudpTypes'
  <2>1. LoopTypes'
    BY <1>1, <1>2, <1>4, <1>6 DEF RudpTypes, LoopTypes, EntriesFor, clock
  <2>2. KcpTypes'
    BY <1>1, <1>4, <1>6 DEF KcpTypes, Typed
  <2> QED BY <1>5, <2>1, <2>2 DEF RudpTypes
<1>8. Running' /\ Skipping'
  BY <1>1, <1>2, <1>4, EndpointAssumption DEF Running, Dispatches, Typed
<1> QED BY <1>5, <1>6, <1>7, <1>8 DEF RudpInv

LEMMA ConnectKeeps ==
  ASSUME RudpInv, NEW e \in Endpoints, Connect(e)
  PROVE  RudpInv'
<1> DEFINE w == Without(Swept, queue)
<1>1. /\ RudpTypes /\ Running /\ Acknowledged /\ queue \in Seq(Entries)
  BY DEF RudpInv, RudpTypes, LoopTypes
<1>2. /\ pc' = (IF pc = "select" THEN "event" ELSE pc) /\ AddConnection(e) /\ recv_queue' = recv_queue
      /\ cur = Nobody /\ UNCHANGED clock /\ slots' = slots /\ cur' = cur /\ socket' = socket
      /\ queue' = Append(w, Entry(e, "none"))
  BY DEF Connect
<1>3. /\ Skipping' /\ Grows(e, Swept) /\ state'[e] = "open" /\ timer_reg' = timer_reg /\ inbox' = inbox
      /\ unacked' = unacked /\ flush' = flush /\ Swept \in SUBSET Endpoints
      /\ state' \in [Endpoints -> {"none", "open", "released"}]
      /\ co' \in [Endpoints -> {"none", "new", "running", "read", "close", "done"}]
  BY <1>2, AddGrows
<1>4. /\ w \in Seq(Entries)
      /\ \A i \in 1..Len(w) : \E j \in 1..Len(queue) : w[i] = queue[j] /\ queue[j].who \notin Swept
      /\ \A j \in 1..Len(queue) : queue[j].who \notin Swept => \E i \in 1..Len(w) : w[i] = queue[j]
  BY <1>1, <1>3, WithoutIs
<1> HIDE DEF w
<1>5. EntriesFor(e, Swept)
  BY <1>2, <1>3, <1>4, EntryAdded
<1>6. EndpointTypes' /\ TimerTypes' /\ QueuedAreMade' /\ TimersRight' /\ Timed'
  BY <1>2, <1>3, <1>5, GrowKeeps
<1>7. RudpTypes'
  <2>1. LoopTypes'
    BY <1>1, <1>2, <1>5 DEF RudpTypes, LoopTypes, EntriesFor, clock
  <2>2. KcpTypes'
    BY <1>1, <1>2, <1>3 DEF KcpTypes, RudpTypes
  <2> QED BY <1>6, <2>1, <2>2 DEF RudpTypes
<1>8. Acknowledged'
  BY <1>1, <1>2, <1>3 DEF Acknowledged, Acks, Coming
<1>9. Running'
  BY <1>1, <1>2, EndpointAssumption DEF Running
<1> QED BY <1>3, <1>6, <1>7, <1>8, <1>9 DEF RudpInv

LEMMA ArriveKeeps ==
  ASSUME RudpInv, NEW e \in Endpoints, NEW kind \in Datagrams, Arrive(e, kind)
  PROVE  RudpInv'
<1> DEFINE x == [from |-> e, kind |-> kind]
<1>1. /\ RudpTypes /\ Acknowledged /\ Running /\ Skipping /\ QueuedAreMade /\ TimersRight /\ Timed
      /\ socket \in Seq([from : Endpoints, kind : Datagrams])
  BY DEF RudpInv, RudpTypes, LoopTypes
<1>2. /\ state' = state /\ co' = co /\ recv_queue' = recv_queue /\ inbox' = inbox
      /\ unacked' = unacked /\ flush' = flush /\ slots' = slots /\ timer_reg' = timer_reg
      /\ pc' = pc /\ cur' = cur /\ queue' = queue /\ socket' = Append(socket, x)
      /\ exact' = exact /\ instants' = instants /\ Again' = Again
      /\ freed' = freed /\ skipped' = skipped /\ reused' = reused
      /\ kind = "ack" => unacked[e] > Acks(e) + Coming(e)
  BY DEF Arrive, kcp, timers, loop, heap, clock, Coming, Again
<1>3. Append(socket, x) \in Seq([from : Endpoints, kind : Datagrams])
  BY <1>1
<1>4. RudpTypes'
  <2>1. LoopTypes'
    BY <1>1, <1>2, <1>3 DEF RudpTypes, LoopTypes
  <2> QED BY <1>1, <1>2, <2>1 DEF RudpTypes, EndpointTypes, KcpTypes, TimerTypes
<1>5. Acknowledged'
  <2> SUFFICES ASSUME NEW f \in Endpoints PROVE Acks(f) + Coming(f)' <= unacked[f]
    BY <1>2 DEF Acknowledged, Acks
  <2> DEFINE y == [from |-> f, kind |-> "ack"]
  <2>1. Acks(f) \in Nat /\ Coming(f) \in Nat /\ unacked[f] \in Int /\ Acks(f) + Coming(f) <= unacked[f]
    BY <1>1, AcksAre DEF Acknowledged
  <2>2. Count(Append(socket, x), y) = Count(socket, y) + (IF x = y THEN 1 ELSE 0)
    <3> DEFINE D == [from : Endpoints, kind : Datagrams]
    <3>1. x \in D /\ socket \in Seq(D)
      BY <1>1
    <3> HIDE DEF x, y, D
    <3> QED BY <3>1, CountAppend
  <2>3. x = y => f = e /\ kind = "ack"
    OBVIOUS
  <2>4. Coming(f)' = Coming(f) + (IF x = y THEN 1 ELSE 0)
    BY <1>2, <2>2 DEF Coming
  <2> HIDE DEF x, y
  <2> QED BY <1>2, <2>1, <2>3, <2>4
<1>6. Running' /\ Skipping' /\ QueuedAreMade' /\ TimersRight' /\ Timed'
  BY <1>1, <1>2 DEF Running, Dispatches, Skipping, QueuedAreMade, TimersRight, Timed
<1> QED BY <1>4, <1>5, <1>6 DEF RudpInv

(* close: every callback that would be called is of an open endpoint, and is *)
(* switched off; nobody is left.                                             *)
LEMMA CloseTimers ==
  ASSUME RudpInv, Close
  PROVE  /\ slots' \in [Times -> Seq(Callback)]
         /\ \A e \in Endpoints, t \in Times, i \in Nat : ~IsOn(slots', e, t, i)
<1> DEFINE left == {e \in Endpoints : Find(e) /\ timer_reg[e].id >= 0}
           Off(t, i) == \E e \in left : timer_reg[e] = [id |-> i, timepoint |-> t]
           Slot(t) == [i \in DOMAIN slots[t] |->
                         IF Off(t, i) THEN [slots[t][i] EXCEPT !.on = FALSE] ELSE slots[t][i]]
<1>1. slots \in [Times -> Seq(Callback)]
  BY DEF RudpInv, RudpTypes, TimerTypes
<1>2. slots' = [t \in DOMAIN slots |-> Slot(t)]
  BY DEF Close
<1>3. ASSUME NEW t \in Times, NEW i \in 1..Len(slots[t])
      PROVE  /\ [slots[t][i] EXCEPT !.on = FALSE] \in Callback
             /\ [slots[t][i] EXCEPT !.on = FALSE].on = FALSE /\ slots[t][i] \in Callback
  <2>1. slots[t] \in Seq(Callback)
    BY <1>1
  <2>2. slots[t][i] \in Callback
    BY <2>1
  <2> QED BY <2>2 DEF Callback
<1>4. \A t \in Times : slots'[t] = Slot(t) /\ slots[t] \in Seq(Callback)
  BY <1>1, <1>2
<1> HIDE DEF Off
<1>5. ASSUME NEW t \in Times
      PROVE  /\ Slot(t) \in Seq(Callback) /\ Len(Slot(t)) = Len(slots[t])
             /\ \A i \in 1..Len(slots[t]) :
                  Slot(t)[i] = IF Off(t, i) THEN [slots[t][i] EXCEPT !.on = FALSE] ELSE slots[t][i]
  <2>1. DOMAIN slots[t] = 1..Len(slots[t]) /\ Len(slots[t]) \in Nat
    BY <1>4
  <2>2. Slot(t) = [i \in 1..Len(slots[t]) |->
                     IF Off(t, i) THEN [slots[t][i] EXCEPT !.on = FALSE] ELSE slots[t][i]]
    BY <2>1
  <2> QED BY <1>3, <2>1, <2>2
<1> HIDE DEF Slot
<1>6. slots' \in [Times -> Seq(Callback)]
  BY <1>1, <1>2, <1>5
<1>8. ASSUME NEW e \in Endpoints, NEW t \in Times, NEW i \in Nat, IsOn(slots', e, t, i)
      PROVE  FALSE
  <2>1. i \in 1..Len(slots[t]) /\ Slot(t)[i] = [owner |-> e, on |-> TRUE]
    BY <1>4, <1>5, <1>8 DEF IsOn
  <2>2. ~Off(t, i)
    <3>1. Off(t, i) => Slot(t)[i].on = FALSE
      BY <1>3, <1>5, <2>1
    <3> QED BY <2>1, <3>1
  <2>3. IsOn(slots, e, t, i)
    BY <1>5, <2>1, <2>2 DEF IsOn
  <2>4. state[e] = "open" /\ timer_reg[e] = [id |-> i, timepoint |-> t]
    BY <2>3, OnIsOpen
  <2>5. e \in left
    BY <2>4 DEF Find
  <2> QED BY <2>2, <2>4, <2>5 DEF Off
<1> QED BY <1>6, <1>8

(* Nobody is there: before the first, and after close.                       *)
Deserted ==
  /\ state = [e \in Endpoints |-> "none"] /\ co = [e \in Endpoints |-> "none"]
  /\ recv_queue = [e \in Endpoints |-> <<>>] /\ inbox = [e \in Endpoints |-> 0]
  /\ unacked = [e \in Endpoints |-> 0] /\ flush = [e \in Endpoints |-> 0]
  /\ timer_reg = [e \in Endpoints |-> NotRegistered]
  /\ slots \in [Times -> Seq(Callback)]
  /\ {exact, reused} \subseteq BOOLEAN /\ instants \in 0..MaxInstants
  /\ \A e \in Endpoints, t \in Times, i \in Nat : ~IsOn(slots, e, t, i)
  /\ pc \in {"tick", "select"} /\ cur = Nobody /\ queue = <<>> /\ socket = <<>>
  /\ freed \in Nat /\ skipped = {}

LEMMA DesertedIs == Deserted => RudpInv
<1> SUFFICES ASSUME Deserted PROVE RudpInv
  OBVIOUS
<1>1. RudpTypes
  <2>1. EndpointTypes
    BY DEF Deserted, EndpointTypes
  <2>2. KcpTypes
    <3>1. 0 \in 0..MaxUnacked /\ 0 \in 0..Interval
      BY BoundsAssumption, TimeAssumption, HorizonAssumption
    <3>2. <<>> \in Seq(Datagrams)
      OBVIOUS
    <3> QED BY <3>1, <3>2 DEF Deserted, KcpTypes
  <2>3. TimerTypes
    BY NotRegisteredIs DEF Deserted, TimerTypes
  <2>4. LoopTypes
    <3>1. <<>> \in Seq(Entries) /\ <<>> \in Seq([from : Endpoints, kind : Datagrams])
      OBVIOUS
    <3> QED BY <3>1 DEF Deserted, LoopTypes
  <2> QED BY <2>1, <2>2, <2>3, <2>4 DEF RudpTypes
<1>2. Acknowledged
  <2> SUFFICES ASSUME NEW e \in Endpoints PROVE Acks(e) + Coming(e) <= unacked[e]
    BY DEF Acknowledged
  <2>1. recv_queue[e] = <<>> /\ socket = <<>> /\ unacked[e] = 0
    BY DEF Deserted
  <2>2. Acks(e) = 0 /\ Coming(e) = 0
    BY <2>1, CountEmpty DEF Acks, Coming
  <2> QED BY <2>1, <2>2
<1>3. Running /\ Skipping
  BY EndpointAssumption DEF Deserted, Running, Skipping
<1>4. QueuedAreMade
  BY DEF Deserted, QueuedAreMade
<1>5. TimersRight
  BY NotRegisteredIs DEF Deserted, TimersRight
<1>6. Timed
  BY DEF Deserted, Timed
<1> QED BY <1>1, <1>2, <1>3, <1>4, <1>5, <1>6 DEF RudpInv

LEMMA CloseKeeps ==
  ASSUME RudpInv, Close
  PROVE  RudpInv'
<1>1. /\ pc = "select" /\ cur = Nobody /\ freed \in Nat
      /\ {exact, reused} \subseteq BOOLEAN /\ instants \in 0..MaxInstants
  BY DEF Close, RudpInv, RudpTypes, LoopTypes, Running, Dispatches, Skipping
<1>f. Cardinality(Made) \in Nat
  <2>1. Made \subseteq Endpoints
    BY DEF Made
  <2>2. IsFiniteSet(Made)
    BY <2>1, EndpointAssumption, FS_Subset
  <2> QED BY <2>2, FS_CardinalityType
<1>2. /\ slots' \in [Times -> Seq(Callback)]
      /\ \A e \in Endpoints, t \in Times, i \in Nat : ~IsOn(slots', e, t, i)
  BY <1>1, CloseTimers
<1>3. inbox' = [e \in Endpoints |-> 0] /\ unacked' = [e \in Endpoints |-> 0] /\ flush' = [e \in Endpoints |-> 0]
  BY DEF Close, IkcpRelease
<1>4. /\ state' = [e \in Endpoints |-> "none"] /\ co' = [e \in Endpoints |-> "none"]
      /\ recv_queue' = [e \in Endpoints |-> <<>>] /\ timer_reg' = [e \in Endpoints |-> NotRegistered]
      /\ pc' = pc /\ cur' = cur /\ queue' = <<>> /\ socket' = <<>>
      /\ exact' = exact /\ instants' = instants
      /\ freed' = freed + Cardinality(Made) /\ skipped' = {} /\ reused' = reused
  BY DEF Close, clock
<1>5. Deserted'
  BY <1>1, <1>f, <1>2, <1>3, <1>4 DEF Deserted
<1>6. Deserted' => RudpInv'
  BY DesertedIs, PTL
<1> QED BY <1>5, <1>6

LEMMA InitIs == Init => RudpInv
<1> SUFFICES ASSUME Init PROVE Deserted
  BY DesertedIs
<1>1. slots = [t \in Times |-> <<>>]
  BY DEF Init, NoTimers, Times
<1>2. slots \in [Times -> Seq(Callback)] /\ \A t \in Times : Len(slots[t]) = 0
  BY <1>1, TimesAre
<1>3. \A e \in Endpoints, t \in Times, i \in Nat : ~IsOn(slots, e, t, i)
  BY <1>2 DEF IsOn
<1>4. 0 \in 0..MaxInstants
  BY BoundsAssumption
<1> QED BY <1>2, <1>3, <1>4 DEF Init, Deserted
------------------------------------------------------------------------------
(* Who has something to go on with is queued, and who is to begin where the  *)
(* dispatcher skips nobody.                                                  *)

Queued(q, e) == \E i \in 1..Len(q) : q[i].who = e
Waits(e) == Ready(e) \/ (~reused /\ co[e] = "new")
ReadyAreQueued == \A e \in Endpoints : Waits(e) => Queued(queue, e)
ReadyInv == RudpInv /\ ReadyAreQueued

(* What Waits looks at.                                                      *)
Alike(f) == /\ co'[f] = co[f] /\ inbox'[f] = inbox[f]
            /\ recv_queue'[f] = recv_queue[f] /\ unacked'[f] = unacked[f]

LEMMA OnlyOneMoves ==
  ASSUME ReadyInv, NEW e \in Who, QueueOf(e), \A f \in Endpoints \ {e} : Alike(f), reused' = reused,
         e \in Endpoints => (Waits(e)' => Queued(queue', e))
  PROVE  ReadyAreQueued'
<1> SUFFICES ASSUME NEW f \in Endpoints, Waits(f)' PROVE Queued(queue', f)
  BY DEF ReadyAreQueued
<1>1. CASE f # e
  <2>1. Waits(f)
    BY <1>1 DEF Alike, Waits, Ready
  <2>2. PICK j \in 1..Len(queue) : queue[j].who = f
    BY <2>1 DEF ReadyInv, ReadyAreQueued, Queued
  <2>3. PICK i \in 1..Len(queue') : queue'[i] = queue[j]
    BY <1>1, <2>2 DEF QueueOf
  <2> QED BY <2>2, <2>3 DEF Queued
<1> QED BY <1>1

LEMMA QueueSame ==
  ASSUME RudpInv, NEW e, queue' = queue
  PROVE  QueueOf(e)
BY DEF RudpInv, RudpTypes, LoopTypes, QueueOf

LEMMA GoesOnQueues ==
  ASSUME RudpInv, NEW e \in Endpoints, queue # <<>>, Head(queue).who = e, GoesOn(e)
  PROVE  QueueOf(e) /\ Queued(queue', e)
<1>1. queue \in Seq(Entries) /\ queue' = <<Entry(e, "none")>> \o Tail(queue)
  BY DEF RudpInv, RudpTypes, LoopTypes, GoesOn
<1>2. QueueOf(e)
  BY <1>1, GoesOnIs
<1>3. Entry(e, "none") \in Entries /\ Entry(e, "none").who = e /\ Tail(queue) \in Seq(Entries)
  BY <1>1, EntryIs, TailIs DEF Who, Jobs
<1>4. 1 \in 1..Len(queue') /\ queue'[1] = Entry(e, "none")
  BY <1>1, <1>3
<1> QED BY <1>2, <1>3, <1>4 DEF Queued

LEMMA ReadSettles ==
  ASSUME RudpInv, NEW e \in Endpoints, ARead(e)
  PROVE  ~Waits(e)' /\ \A f \in Endpoints \ {e} : Alike(f)
<1> DEFINE to == IF Messages(e) > 0 THEN "running" ELSE "read"
           left == IF Messages(e) > 0 THEN Messages(e) - 1 ELSE 0
<1>1. /\ co \in [Endpoints -> {"none", "new", "running", "read", "close", "done"}]
      /\ inbox \in [Endpoints -> Nat] /\ recv_queue \in [Endpoints -> Seq(Datagrams)]
  BY DEF RudpInv, RudpTypes, EndpointTypes, KcpTypes
<1>2. /\ UpdateEndpoint(e) /\ recv_queue' = [recv_queue EXCEPT ![e] = <<>>]
      /\ inbox' = [inbox EXCEPT ![e] = left] /\ co' = [co EXCEPT ![e] = to]
  BY DEF ARead, UpdateEndpoint
<1>3. to = "running" \/ (to = "read" /\ left = 0)
  OBVIOUS
<1> HIDE DEF to, left
<1>4. ~Waits(e)'
  BY <1>1, <1>2, <1>3 DEF Waits, Ready
<1>5. \A f \in Endpoints \ {e} : unacked'[f] = unacked[f]
  BY <1>2, UpdateEndpointIs
<1> QED BY <1>1, <1>2, <1>4, <1>5 DEF Alike

LEMMA CloseSettles ==
  ASSUME RudpInv, NEW e \in Endpoints, AClose(e)
  PROVE  ~Waits(e)' /\ \A f \in Endpoints \ {e} : Alike(f)
<1>1. /\ co \in [Endpoints -> {"none", "new", "running", "read", "close", "done"}]
      /\ recv_queue \in [Endpoints -> Seq(Datagrams)]
  BY DEF RudpInv, RudpTypes, EndpointTypes, KcpTypes
<1>2. CASE unacked[e] = 0
  <2>1. Release(e)
    BY <1>2 DEF AClose
  <2>2. /\ co' = [co EXCEPT ![e] = "done"] /\ recv_queue' = [recv_queue EXCEPT ![e] = <<>>]
        /\ inbox' = [f \in Endpoints |-> IF f \in {e} THEN 0 ELSE inbox[f]]
        /\ unacked' = [f \in Endpoints |-> IF f \in {e} THEN 0 ELSE unacked[f]]
    BY <2>1 DEF Release, IkcpRelease
  <2> QED BY <1>1, <2>2 DEF Waits, Ready, Alike
<1>3. CASE unacked[e] # 0
  <2>1. Linger(e)
    BY <1>3 DEF AClose
  <2>2. co' = [co EXCEPT ![e] = "close"] /\ UNCHANGED <<recv_queue, inbox, unacked>>
    BY <2>1 DEF Linger, kcp
  <2> QED BY <1>1, <1>3, <2>2 DEF Waits, Ready, Alike
<1> QED BY <1>2, <1>3

LEMMA ResumeReady ==
  ASSUME ReadyInv, NEW e \in Endpoints,
         ResumeDone(e) \/ ResumeNew(e) \/ ResumeRead(e) \/ ResumeClose(e)
  PROVE  ReadyAreQueued'
<1>1. RudpInv /\ e \in Who
      /\ co \in [Endpoints -> {"none", "new", "running", "read", "close", "done"}]
  BY DEF ReadyInv, RudpInv, RudpTypes, EndpointTypes, Who
<1>2. For(e) /\ reused' = reused
  BY DEF ResumeDone, ResumeNew, ResumeRead, ResumeClose, heap
<1>3. QueueOf(e)
  BY <1>1, <1>2, ForIs
<1>4. ~Waits(e)' /\ \A f \in Endpoints \ {e} : Alike(f)
  <2>1. CASE ResumeDone(e)
    BY <2>1 DEF ResumeDone, Waits, Ready, Alike, kcp
  <2>2. CASE ResumeNew(e)
    <3>1. co' = [co EXCEPT ![e] = "running"] /\ UNCHANGED <<recv_queue, inbox, unacked>>
      BY <2>2 DEF ResumeNew, kcp
    <3> QED BY <1>1, <3>1 DEF Waits, Ready, Alike
  <2>3. CASE ResumeRead(e)
    BY <1>1, <2>3, ReadSettles DEF ResumeRead
  <2>4. CASE ResumeClose(e)
    BY <1>1, <2>4, CloseSettles DEF ResumeClose
  <2> QED BY <2>1, <2>2, <2>3, <2>4
<1> QED BY <1>1, <1>2, <1>3, <1>4, OnlyOneMoves

LEMMA JobReady ==
  ASSUME ReadyInv, NEW e \in Endpoints, UpdateJob(e) \/ WriteJob(e)
  PROVE  ReadyAreQueued'
<1>1. /\ RudpInv /\ e \in Who /\ inbox \in [Endpoints -> Nat]
      /\ unacked \in [Endpoints -> 0..MaxUnacked]
  BY DEF ReadyInv, RudpInv, RudpTypes, KcpTypes, Who
<1>2. queue # <<>> /\ Head(queue).who = e /\ GoesOn(e) /\ reused' = reused
  BY DEF UpdateJob, WriteJob, Calls, Entry, heap
<1>3. QueueOf(e) /\ Queued(queue', e)
  BY <1>1, <1>2, GoesOnQueues
<1>4. \A f \in Endpoints \ {e} : Alike(f)
  <2>1. co' = co
    BY <1>2 DEF GoesOn
  <2>2. CASE UpdateJob(e)
    <3>1. inbox' = [inbox EXCEPT ![e] = Messages(e)] /\ UpdateEndpoint(e)
      BY <2>2 DEF UpdateJob
    <3>2. \A f \in Endpoints \ {e} : recv_queue'[f] = recv_queue[f] /\ unacked'[f] = unacked[f]
      BY <1>1, <3>1, UpdateEndpointIs
    <3> QED BY <1>1, <2>1, <3>1, <3>2 DEF Alike
  <2>3. CASE WriteJob(e)
    <3>1. unacked' = [unacked EXCEPT ![e] = @ + 1] /\ UNCHANGED <<recv_queue, inbox>>
      BY <2>3 DEF WriteJob, AWrite
    <3> QED BY <1>1, <2>1, <3>1 DEF Alike
  <2> QED BY <2>2, <2>3
<1> QED BY <1>1, <1>2, <1>3, <1>4, OnlyOneMoves

LEMMA CallReady ==
  ASSUME ReadyInv, NEW e \in Endpoints, CallRead(e) \/ CallWrite(e) \/ Return(e)
  PROVE  ReadyAreQueued'
<1>1. RudpInv /\ e \in Who /\ unacked \in [Endpoints -> 0..MaxUnacked]
  BY DEF ReadyInv, RudpInv, RudpTypes, KcpTypes, Who
<1>2. queue' = queue /\ reused' = reused
  BY DEF CallRead, CallWrite, Return, loop, heap
<1>3. QueueOf(e)
  BY <1>1, <1>2, QueueSame
<1>4. ~Waits(e)' /\ \A f \in Endpoints \ {e} : Alike(f)
  <2>1. CASE CallRead(e)
    BY <1>1, <2>1, ReadSettles DEF CallRead
  <2>2. CASE CallWrite(e)
    <3>1. /\ unacked' = [unacked EXCEPT ![e] = @ + 1] /\ UNCHANGED <<recv_queue, inbox, co>>
          /\ cur = e
      BY <2>2 DEF CallWrite, AWrite
    <3>2. co[e] = "running"
      BY <1>1, <3>1 DEF RudpInv, Running
    <3> QED BY <1>1, <3>1, <3>2 DEF Waits, Ready, Alike
  <2>3. CASE Return(e)
    BY <1>1, <2>3, CloseSettles DEF Return
  <2> QED BY <2>1, <2>2, <2>3
<1> QED BY <1>1, <1>2, <1>3, <1>4, OnlyOneMoves

(* Nobody gets anything to go on with, and the queue only loses the socket's.*)
LEMMA NobodyMoves ==
  ASSUME ReadyInv, \A f \in Endpoints : Alike(f), reused' = reused,
         \A j \in 1..Len(queue) :
           queue[j].who # Server => \E i \in 1..Len(queue') : queue'[i] = queue[j]
  PROVE  ReadyAreQueued'
<1> SUFFICES ASSUME NEW f \in Endpoints, Waits(f)' PROVE Queued(queue', f)
  BY DEF ReadyAreQueued
<1>1. Waits(f) /\ f # Server
  BY EndpointAssumption DEF Alike, Waits, Ready
<1>2. PICK j \in 1..Len(queue) : queue[j].who = f
  BY <1>1 DEF ReadyInv, ReadyAreQueued, Queued
<1>3. PICK i \in 1..Len(queue') : queue'[i] = queue[j]
  BY <1>1, <1>2
<1> QED BY <1>2, <1>3 DEF Queued

LEMMA LoopReady ==
  ASSUME ReadyInv,
         \/ Tick \/ SelectAtOnce \/ Elapse \/ Moment
         \/ ResumeServer \/ ReceiveNothing \/ DispatchDone
         \/ \E e \in Endpoints : RunAt(e) \/ \E kind \in Datagrams : Arrive(e, kind)
         \/ UNCHANGED vars
  PROVE  ReadyAreQueued'
<1>1. RudpInv /\ queue \in Seq(Entries) /\ slots \in [Times -> Seq(Callback)]
  BY DEF ReadyInv, RudpInv, RudpTypes, LoopTypes, TimerTypes
<1>2. reused' = reused /\ \A f \in Endpoints : Alike(f)
  BY DEF Tick, SelectAtOnce, Elapse, Moment, Select, ResumeServer, ReceiveNothing, DispatchDone,
         RunAt, Arrive, vars, kcp, heap, Alike
<1>3. CASE queue' = queue
  BY <1>2, <1>3, NobodyMoves
<1>4. CASE \E more \in Seq(Entries) : queue' = queue \o more
  <2>1. PICK more \in Seq(Entries) : queue' = queue \o more
    BY <1>4
  <2>2. \A i \in 1..Len(queue) : i \in 1..Len(queue') /\ queue'[i] = queue[i]
    BY <1>1, <2>1, ConcatIs
  <2> QED BY <1>2, <2>2, NobodyMoves
<1>5. CASE ResumeServer
  <2>1. QueueOf(Server)
    BY <1>1, <1>5, PopIs DEF ResumeServer, For, Popped
  <2> QED BY <1>2, <2>1, NobodyMoves DEF QueueOf
<1>6. CASE Tick
  <2> DEFINE due == Due(slots)
             posted == [i \in DOMAIN due |-> Entry(due[i].owner, "update")]
  <2>1. queue' = queue \o posted
    BY <1>6 DEF Tick
  <2>2. due \in Seq(Callback)
    BY <1>1, DueIs
  <2> HIDE DEF due
  <2>3. DOMAIN due = 1..Len(due) /\ Len(due) \in Nat /\ \A i \in 1..Len(due) : due[i] \in Callback
    BY <2>2
  <2>4. \A i \in 1..Len(due) : Entry(due[i].owner, "update") \in Entries
    BY <2>3 DEF Callback, Entry, Entries, Who, Jobs
  <2>5. posted \in Seq(Entries)
    BY <2>3, <2>4
  <2> HIDE DEF posted
  <2> QED BY <1>4, <2>1, <2>5
<1>7. CASE SelectAtOnce \/ Elapse
  <2>1. queue' = queue \o Readable
    BY <1>7 DEF SelectAtOnce, Elapse, Select
  <2>2. Entry(Server, "none") \in Entries
    BY DEF Entry, Entries, Who, Jobs
  <2>3. Readable \in Seq(Entries)
    BY <2>2 DEF Readable
  <2> QED BY <1>4, <2>1, <2>3
<1>8. CASE \E e \in Endpoints : RunAt(e)
  <2>1. PICK e \in Endpoints : RunAt(e)
    BY <1>8
  <2>2. queue' = Append(queue, Entry(e, "write")) /\ Entry(e, "write") \in Entries
    BY <2>1, EntryIs DEF RunAt, Who, Jobs
  <2>3. \A j \in 1..Len(queue) : \E i \in 1..Len(queue') : queue'[i] = queue[j]
    BY <1>1, <2>2, AddedIs
  <2> QED BY <1>2, <2>3, NobodyMoves
<1>9. CASE Moment \/ ReceiveNothing \/ DispatchDone \/ UNCHANGED vars
  BY <1>3, <1>9 DEF Moment, ReceiveNothing, DispatchDone, vars, loop
<1>10. CASE \E e \in Endpoints : \E kind \in Datagrams : Arrive(e, kind)
  BY <1>3, <1>10 DEF Arrive, loop
<1> QED BY <1>5, <1>6, <1>7, <1>8, <1>9, <1>10

(* Whom the dispatcher skips has not begun, and is skipped for an address    *)
(* that was freed.                                                           *)
LEMMA SkipReady ==
  ASSUME ReadyInv, NEW e \in Endpoints, Skip(e)
  PROVE  ReadyAreQueued'
<1>1. RudpInv /\ e \in Who /\ queue \in Seq(Entries)
  BY DEF ReadyInv, RudpInv, RudpTypes, LoopTypes, Who
<1>2. /\ UNCHANGED <<co, inbox, recv_queue, unacked>> /\ e \in skipped
      /\ queue # <<>> /\ Head(queue).who = e /\ queue' = Tail(queue) /\ reused' = reused
  BY DEF Skip, Popped, kcp, heap
<1>3. co[e] = "new" /\ reused
  BY <1>1, <1>2 DEF RudpInv, Skipping
<1>4. QueueOf(e)
  BY <1>1, <1>2, PopIs
<1>5. ~Waits(e)' /\ \A f \in Endpoints \ {e} : Alike(f)
  BY <1>2, <1>3 DEF Waits, Ready, Alike
<1> QED BY <1>1, <1>2, <1>4, <1>5, OnlyOneMoves

LEMMA GrowReady ==
  ASSUME ReadyInv, NEW e \in Endpoints, NEW gone, Grows(e, gone), EntriesFor(e, gone),
         reused => reused',
         \A f \in Endpoints \ {e} :
           inbox'[f] = inbox[f] /\ recv_queue'[f] = recv_queue[f] /\ unacked'[f] = unacked[f],
         Waits(e)' => Queued(queue', e)
  PROVE  ReadyAreQueued'
<1> SUFFICES ASSUME NEW f \in Endpoints, Waits(f)', f # e PROVE Queued(queue', f)
  BY DEF ReadyAreQueued
<1>1. co'[f] # "none"
  BY DEF Waits, Ready
<1>2. co'[f] = co[f] /\ f \notin gone
  BY <1>1 DEF Grows
<1>3. Waits(f)
  BY <1>2 DEF Waits, Ready
<1>4. PICK j \in 1..Len(queue) : queue[j].who = f
  BY <1>3 DEF ReadyInv, ReadyAreQueued, Queued
<1>5. PICK i \in 1..Len(queue') : queue'[i] = queue[j]
  BY <1>2, <1>4 DEF EntriesFor
<1> QED BY <1>4, <1>5 DEF Queued

LEMMA ReceiveReady ==
  ASSUME ReadyInv, Receive
  PROVE  ReadyAreQueued'
<1>1. RudpInv /\ recv_queue \in [Endpoints -> Seq(Datagrams)]
  BY DEF ReadyInv, RudpInv, RudpTypes, KcpTypes
<1>h. PICK e \in Endpoints : e = Head(socket).from
  BY <1>1, ReceiveIs
<1>2. PICK gone : Received(e, Head(socket).kind, gone)
  BY <1>1, <1>h, ReceiveIs
<1>3. Grows(e, gone) /\ EntriesFor(e, gone) /\ Typed /\ Delivered(e, Head(socket).kind)
  BY <1>2 DEF Received
<1>4. \A f \in Endpoints \ {e} :
        inbox'[f] = inbox[f] /\ recv_queue'[f] = recv_queue[f] /\ unacked'[f] = unacked[f]
  BY <1>1, <1>3 DEF Typed, Delivered
<1>5. Waits(e)' => Queued(queue', e)
  <2>1. CASE \E i \in 1..Len(queue') : queue'[i].who = e
    BY <2>1 DEF Queued
  <2>2. CASE co' = co /\ recv_queue' = recv_queue /\ queue' = queue
    <3>1. Waits(e)' => Waits(e)
      BY <1>3, <2>2 DEF Waits, Ready, Typed
    <3> QED BY <2>2, <3>1 DEF ReadyInv, ReadyAreQueued, Queued
  <2> QED BY <1>2, <2>1, <2>2 DEF Received
<1>6. reused => reused'
  BY <1>3 DEF Typed
<1> QED BY <1>3, <1>4, <1>5, <1>6, GrowReady

LEMMA ConnectReady ==
  ASSUME ReadyInv, NEW e \in Endpoints, Connect(e)
  PROVE  ReadyAreQueued'
<1>1. RudpInv /\ queue \in Seq(Entries)
  BY DEF ReadyInv, RudpInv, RudpTypes, LoopTypes
<1>2. /\ AddConnection(e) /\ recv_queue' = recv_queue
      /\ queue' = Append(Without(Swept, queue), Entry(e, "none"))
  BY DEF Connect
<1>3. /\ Grows(e, Swept) /\ (reused => reused')
      /\ state'[e] = "open" /\ inbox' = inbox /\ unacked' = unacked
      /\ Swept \in SUBSET Endpoints
  BY <1>1, <1>2, AddGrows
<1> DEFINE w == Without(Swept, queue)
<1>4. /\ w \in Seq(Entries)
      /\ \A i \in 1..Len(w) : \E j \in 1..Len(queue) : w[i] = queue[j] /\ queue[j].who \notin Swept
      /\ \A j \in 1..Len(queue) : queue[j].who \notin Swept => \E i \in 1..Len(w) : w[i] = queue[j]
  BY <1>1, <1>3, WithoutIs
<1>5. queue' = Append(w, Entry(e, "none"))
  BY <1>2
<1> HIDE DEF w
<1>6. EntriesFor(e, Swept) /\ Queued(queue', e)
  BY <1>3, <1>4, <1>5, EntryAdded DEF Queued
<1> QED BY <1>2, <1>3, <1>6, GrowReady

------------------------------------------------------------------------------
(* The theorems.                                                             *)

(* RudpInductive: what the timers, the endpoints and the queue are to each   *)
(* other holds at the start and after every step, of the loop, of the        *)
(* application or of the others (all of rudp.cc and time_manager_t).         *)
THEOREM RudpInductive == Spec => []RudpInv
<1>1. Init => RudpInv
  BY InitIs
<1>2. RudpInv /\ [Next]_vars => RudpInv'
  <2> SUFFICES ASSUME RudpInv, [Next]_vars PROVE RudpInv'
    OBVIOUS
  <2>1. CASE Tick
    BY <2>1, TickKeeps
  <2>2. CASE SelectAtOnce
    BY <2>2, SelectAtOnceKeeps
  <2>3. CASE Elapse
    BY <2>3, ElapseKeeps
  <2>4. ASSUME NEW e \in Endpoints,
               \/ ResumeDone(e) \/ ResumeNew(e) \/ ResumeRead(e) \/ ResumeClose(e)
        PROVE  RudpInv'
    BY <2>4, ResumeKeeps
  <2>5. ASSUME NEW e \in Endpoints, UpdateJob(e) \/ WriteJob(e)
        PROVE  RudpInv'
    BY <2>5, JobKeeps
  <2>6. ASSUME NEW e \in Endpoints, CallRead(e) \/ CallWrite(e) \/ Return(e)
        PROVE  RudpInv'
    BY <2>6, CallKeeps
  <2>7. CASE ResumeServer \/ ReceiveNothing \/ DispatchDone
    BY <2>7, ServerKeeps
  <2>8. CASE Receive
    BY <2>8, ReceiveKeeps
  <2>9. ASSUME NEW e \in Endpoints, Connect(e)
        PROVE  RudpInv'
    BY <2>9, ConnectKeeps
  <2>10. ASSUME NEW e \in Endpoints, RunAt(e)
         PROVE  RudpInv'
    BY <2>10, RunAtKeeps
  <2>11. ASSUME NEW e \in Endpoints, NEW kind \in Datagrams, Arrive(e, kind)
         PROVE  RudpInv'
    BY <2>11, ArriveKeeps
  <2>12. CASE Close
    BY <2>12, CloseKeeps
  <2>13. CASE UNCHANGED vars
    <3>1. /\ state' = state /\ co' = co /\ UNCHANGED kcp /\ UNCHANGED timers
          /\ pc' = pc /\ cur' = cur /\ queue' = queue /\ socket' = socket /\ exact' = exact
          /\ instants' = instants /\ Again' = Again /\ UNCHANGED heap
      BY <2>13 DEF vars, loop, clock, Again
    <3>2. UNCHANGED <<recv_queue, inbox, unacked, flush, timer_reg, slots, freed, skipped, reused>>
      BY <3>1 DEF kcp, timers, heap
    <3>3. RudpTypes'
      BY <3>1, <3>2 DEF RudpInv, RudpTypes, EndpointTypes, KcpTypes, TimerTypes, LoopTypes
    <3>4. Acknowledged' /\ TimersRight'
      BY <3>1, <3>2 DEF RudpInv, Acknowledged, Acks, Coming, TimersRight
    <3>5. Running' /\ Skipping' /\ QueuedAreMade' /\ Timed'
      BY <3>1, <3>2 DEF RudpInv, Running, Dispatches, Skipping, QueuedAreMade, Timed
    <3> QED BY <3>3, <3>4, <3>5 DEF RudpInv
  <2>14. CASE Moment
    BY <2>14, MomentKeeps
  <2>15. ASSUME NEW e \in Endpoints, Skip(e)
         PROVE  RudpInv'
    BY <2>15, SkipKeeps
  <2> QED BY <2>1, <2>2, <2>3, <2>4, <2>5, <2>6, <2>7, <2>8, <2>9, <2>10, <2>11, <2>12, <2>13,
             <2>14, <2>15
          DEF Next, Loop, Dispatch
<1> QED BY <1>1, <1>2, PTL DEF Spec

LEMMA TypesHold == RudpInv => TypeOK
<1> SUFFICES ASSUME RudpInv PROVE TypeOK
  OBVIOUS
<1>1. RudpTypes /\ EndpointTypes /\ KcpTypes /\ TimerTypes /\ LoopTypes /\ Acknowledged
  BY DEF RudpInv, RudpTypes
<1>2. ASSUME NEW e \in Endpoints
      PROVE  /\ state[e] \in {"none", "open", "released"}
             /\ state[e] = "none" => co[e] = "none"
             /\ state[e] = "open" => co[e] \in {"new", "running", "read", "close"}
             /\ state[e] = "released" => co[e] = "done"
  BY <1>1 DEF EndpointTypes
<1>3. ASSUME NEW e \in Endpoints
      PROVE  co[e] \in CASE state[e] = "none" -> {"none"}
                         [] state[e] = "open" -> {"new", "running", "read", "close"}
                         [] state[e] = "released" -> {"done"}
  BY <1>2
<1>4. ASSUME NEW e \in Endpoints
      PROVE  /\ inbox[e] \in Nat /\ unacked[e] \in 0..MaxUnacked /\ flush[e] \in 0..Interval
             /\ timer_reg[e] \in Registration /\ recv_queue[e] \in Seq(Datagrams)
  BY <1>1 DEF KcpTypes, TimerTypes
<1>5. ASSUME NEW e \in Endpoints PROVE Acks(e) <= unacked[e]
  <2>1. Acks(e) \in Nat /\ Coming(e) \in Nat /\ unacked[e] \in 0..MaxUnacked
    BY <1>1, AcksAre
  <2>2. Acks(e) + Coming(e) <= unacked[e]
    BY <1>1 DEF Acknowledged
  <2> QED BY <2>1, <2>2
<1>6. /\ pc \in {"tick", "dispatch", "select", "event"} /\ cur \in Endpoints \cup {Nobody, Server}
      /\ exact \in BOOLEAN /\ instants \in 0..MaxInstants
  BY <1>1 DEF LoopTypes
<1>7. reused \in BOOLEAN /\ freed \in Nat /\ skipped \subseteq Endpoints /\ \A e \in skipped : co[e] = "new"
  BY DEF RudpInv, Skipping
<1> QED BY <1>2, <1>3, <1>4, <1>5, <1>6, <1>7 DEF TypeOK

LEMMA ArmedIs ==
  ASSUME RudpInv, NEW e \in Endpoints
  PROVE  /\ \A p \in Armed(slots, e) : p = <<timer_reg[e].timepoint, timer_reg[e].id>> /\ state[e] = "open"
         /\ HasTimer(slots, e) => Armed(slots, e) # {}
<1>1. slots \in [Times -> Seq(Callback)] /\ DOMAIN slots = Times
      /\ \A t \in Times : DOMAIN slots[t] = 1..Len(slots[t])
  BY DEF RudpInv, RudpTypes, TimerTypes
<1>2. ASSUME NEW p \in Armed(slots, e)
      PROVE  p = <<timer_reg[e].timepoint, timer_reg[e].id>> /\ state[e] = "open"
  <2>1. p \in UNION {{t} \X DOMAIN slots[t] : t \in DOMAIN slots}
    BY DEF Armed, Places
  <2>2. PICK t \in Times : p \in {t} \X DOMAIN slots[t]
    BY <1>1, <2>1
  <2>3. PICK i \in 1..Len(slots[t]) : p = <<t, i>>
    BY <1>1, <2>2
  <2>4. slots[p[1]][p[2]] = [owner |-> e, on |-> TRUE]
    BY DEF Armed
  <2>5. IsOn(slots, e, t, i)
    BY <2>3, <2>4 DEF IsOn
  <2>6. state[e] = "open" /\ timer_reg[e] = [id |-> i, timepoint |-> t]
    BY <2>5, OnIsOpen
  <2>7. timer_reg[e].id = i /\ timer_reg[e].timepoint = t
    BY <2>6
  <2> QED BY <2>3, <2>6, <2>7
<1>3. ASSUME HasTimer(slots, e) PROVE Armed(slots, e) # {}
  <2>0. PICK t \in Times : \E i \in 1..Len(slots[t]) : IsOn(slots, e, t, i)
    BY <1>3 DEF HasTimer
  <2>1. PICK i \in 1..Len(slots[t]) : IsOn(slots, e, t, i)
    BY <2>0
  <2>2. <<t, i>> \in {t} \X DOMAIN slots[t] /\ t \in DOMAIN slots
    BY <1>1
  <2>3. <<t, i>> \in Places(slots)
    BY <2>2 DEF Places
  <2>4. <<t, i>> \in Armed(slots, e)
    BY <2>1, <2>3 DEF Armed, IsOn
  <2> QED BY <2>4
<1> QED BY <1>2, <1>3

LEMMA OneTimerHolds == RudpInv => OneTimer
<1> SUFFICES ASSUME RudpInv, NEW e \in Endpoints
             PROVE  /\ Armed(slots, e) \subseteq IF state[e] = "open"
                                                THEN {<<timer_reg[e].timepoint, timer_reg[e].id>>}
                                                ELSE {}
                    /\ (timer_reg[e].id >= 0 /\ timer_reg[e].timepoint > 0) =>
                          /\ timer_reg[e].id \in DOMAIN slots[timer_reg[e].timepoint]
                          /\ slots[timer_reg[e].timepoint][timer_reg[e].id].owner = e
  BY DEF OneTimer
<1> DEFINE reg == timer_reg[e]
<1>1. Armed(slots, e) \subseteq IF state[e] = "open" THEN {<<reg.timepoint, reg.id>>} ELSE {}
  BY ArmedIs
<1>2. ASSUME reg.id >= 0, reg.timepoint > 0
      PROVE  /\ reg.id \in DOMAIN slots[reg.timepoint]
             /\ slots[reg.timepoint][reg.id].owner = e
  <2>1. /\ slots \in [Times -> Seq(Callback)] /\ reg \in Registration
        /\ Right(slots, reg, e, exact, Again)
    BY DEF RudpInv, RudpTypes, TimerTypes, TimersRight
  <2>2. reg.timepoint \in Times
    BY <1>2, <2>1, RegistrationIs, TimesAre
  <2>3. reg.id \in 1..Len(slots[reg.timepoint]) /\ slots[reg.timepoint][reg.id].owner = e
    BY <1>2, <2>1 DEF Right, NamesOwn, Lives
  <2>4. DOMAIN slots[reg.timepoint] = 1..Len(slots[reg.timepoint])
    BY <2>1, <2>2
  <2> QED BY <2>3, <2>4
<1> QED BY <1>1, <1>2

(* The rest of it: nobody is forgotten.                                      *)
THEOREM ReadyInductive == Spec => []ReadyInv
<1>1. Init => ReadyAreQueued
  BY DEF Init, ReadyAreQueued, Waits, Ready
<1>2. RudpInv /\ ReadyAreQueued /\ [Next]_vars => ReadyAreQueued'
  <2> SUFFICES ASSUME ReadyInv, [Next]_vars PROVE ReadyAreQueued'
    BY DEF ReadyInv
  <2>1. ASSUME NEW e \in Endpoints,
               \/ ResumeDone(e) \/ ResumeNew(e) \/ ResumeRead(e) \/ ResumeClose(e)
        PROVE  ReadyAreQueued'
    BY <2>1, ResumeReady
  <2>2. ASSUME NEW e \in Endpoints, UpdateJob(e) \/ WriteJob(e)
        PROVE  ReadyAreQueued'
    BY <2>2, JobReady
  <2>3. ASSUME NEW e \in Endpoints, CallRead(e) \/ CallWrite(e) \/ Return(e)
        PROVE  ReadyAreQueued'
    BY <2>3, CallReady
  <2>4. CASE Receive
    BY <2>4, ReceiveReady
  <2>5. ASSUME NEW e \in Endpoints, Connect(e)
        PROVE  ReadyAreQueued'
    BY <2>5, ConnectReady
  <2>6. CASE Close
    BY <2>6 DEF Close, ReadyAreQueued, Waits, Ready
  <2>7. CASE \/ Tick \/ SelectAtOnce \/ Elapse \/ Moment
             \/ ResumeServer \/ ReceiveNothing \/ DispatchDone
             \/ \E e \in Endpoints : RunAt(e) \/ \E kind \in Datagrams : Arrive(e, kind)
             \/ UNCHANGED vars
    BY <2>7, LoopReady
  <2>8. ASSUME NEW e \in Endpoints, Skip(e)
        PROVE  ReadyAreQueued'
    BY <2>8, SkipReady
  <2> QED BY <2>1, <2>2, <2>3, <2>4, <2>5, <2>6, <2>7, <2>8 DEF Next, Loop, Dispatch
<1>3. RudpInv /\ ReadyAreQueued <=> ReadyInv
  BY DEF ReadyInv
<1> QED BY <1>1, <1>2, <1>3, RudpInductive, PTL DEF Spec

LEMMA ReadyIsQueuedHolds == ReadyInv => ReadyIsQueued
<1> SUFFICES ASSUME ReadyInv, NEW e \in Endpoints, Ready(e)
             PROVE  \E i \in DOMAIN queue : queue[i].who = e
  BY DEF ReadyIsQueued
<1>1. DOMAIN queue = 1..Len(queue)
  BY DEF ReadyInv, RudpInv, RudpTypes, LoopTypes
<1> QED BY <1>1 DEF ReadyInv, ReadyAreQueued, Waits, Queued

LEMMA NeverStrandedHolds == ReadyInv => NeverStranded
<1> SUFFICES ASSUME ReadyInv, NEW e \in Endpoints
             PROVE  /\ (co[e] \in {"read", "close"} /\ instants = 0) =>
                         \/ Armed(slots, e) # {}
                         \/ Entry(e, "update") \in {queue[i] : i \in DOMAIN queue}
                    /\ (co[e] = "new" /\ ~reused) => \E i \in DOMAIN queue : queue[i].who = e
  BY DEF NeverStranded
<1>1. RudpInv /\ Timed /\ DOMAIN queue = 1..Len(queue)
  BY DEF ReadyInv, RudpInv, RudpTypes, LoopTypes
<1>2. ASSUME co[e] \in {"read", "close"}, instants = 0, Armed(slots, e) = {}
      PROVE  Entry(e, "update") \in {queue[i] : i \in DOMAIN queue}
  <2>1. ~HasTimer(slots, e)
    BY <1>1, <1>2, ArmedIs
  <2>2. PICK i \in 1..Len(queue) : queue[i] = Entry(e, "update")
    BY <1>1, <1>2, <2>1 DEF Timed, Again
  <2> QED BY <1>1, <2>2
<1>3. ASSUME co[e] = "new", ~reused PROVE \E i \in DOMAIN queue : queue[i].who = e
  BY <1>1, <1>3 DEF ReadyInv, ReadyAreQueued, Waits, Queued
<1> QED BY <1>2, <1>3

(* TypeCorrect: the variables stay in their types: a coroutine waits or runs *)
(* only in an open endpoint, and an open endpoint never has more             *)
(* acknowledgements to read than pieces it sent, so that ikcp_waitsnd does   *)
(* not go below zero (add_connection, aclose_connection, update_endpoint).   *)
THEOREM TypeCorrect == Spec => []TypeOK
BY RudpInductive, TypesHold, PTL

(* OneTimerEach: a callback that will be called is the one its endpoint has  *)
(* registered, one at most, and none of a closed endpoint, so that the loop  *)
(* calls nothing of one that is destroyed; and what an endpoint has          *)
(* registered for later is its own, though set_timer keeps the registrations *)
(* of timers that fired and a slot may be made again in the microsecond of   *)
(* its tick, and then cancel another's callback (set_timer,                  *)
(* aclose_connection, close_all_peer, time_manager_t::tick and cancel).      *)
THEOREM OneTimerEach == Spec => []OneTimer
BY RudpInductive, OneTimerHolds, PTL

(* NoneStranded: a coroutine that waits is never without its next update, a  *)
(* timer or the function the timer has posted, unless a tick at a multiple   *)
(* of the precision was over within its microsecond; and one that has not    *)
(* begun is never without its start in the queue, unless an endpoint was     *)
(* allocated where another was destroyed in the same dispatch (set_timer,    *)
(* cancel, add_connection, dispatch). Neither exception can be left out.     *)
THEOREM NoneStranded == Spec => []NeverStranded
BY ReadyInductive, NeverStrandedHolds, PTL

(* NobodyForgotten: a message or a datagram is never left to a coroutine     *)
(* that sleeps in aread and that nothing will resume, and a close does not   *)
(* wait for what was acknowledged, however datagrams, posted functions,      *)
(* timers and sweeps come, and wherever endpoints are allocated: whom the    *)
(* dispatcher skips by its address has not begun (rudp_server_main, aread,   *)
(* the timer's function, aclose_connection, dispatch).                       *)
THEOREM NobodyForgotten == Spec => []ReadyIsQueued
BY ReadyInductive, ReadyIsQueuedHolds, PTL
===============================================================================
