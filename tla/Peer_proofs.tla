------------------------------ MODULE Peer_proofs ------------------------------
(***************************************************************************)
(* Two peers with any channels, sessions, operations and pieces to a       *)
(* fragment. Two inductive invariants: one of the handshake, one of what   *)
(* each stream of packages holds.                                          *)
(***************************************************************************)
EXTENDS Peer, FiniteSetTheorems, TLAPS

Package == [type : MsgTypes, item : Nat]

(* The package that an item of a kind is given to the handler with.        *)
Carrier(k) == IF k = "frag_send" THEN "frag_rsp" ELSE k

(* The packages of type t in stream s carry the items g+1 to q, in order.  *)
InOrder(s, t, g, q) ==
  /\ g <= q
  /\ \A i \in 1..Len(s) : s[i].type = t => g < s[i].item /\ s[i].item <= q
  /\ \A i, j \in 1..Len(s) : i < j /\ s[i].type = t /\ s[j].type = t => s[i].item < s[j].item
  /\ \A v \in Nat : g < v /\ v <= q => \E i \in 1..Len(s) : s[i].type = t /\ s[i].item = v

(* Stream s begins with off further pieces of a fragment; then every first *)
(* piece is followed by all the others, and these follow a first piece.    *)
Pieces(s, off) ==
  /\ off <= Len(s) /\ \A i \in 1..off : s[i].type = "frag_rest"
  /\ \A i \in 1..Len(s) : s[i].type = "frag_rsp" =>
       /\ i + FragmentPieces - 1 <= Len(s)
       /\ \A j \in 1..Len(s) : i < j /\ j < i + FragmentPieces => s[j].type = "frag_rest"
  /\ \A i \in 1..Len(s) : s[i].type = "frag_rest" =>
       \/ i <= off
       \/ \E j \in 1..Len(s) : j < i /\ i < j + FragmentPieces /\ s[j].type = "frag_rsp"
------------------------------------------------------------------------------
(* Streams                                                                 *)

LEMMA ItemIsNat ==
  ASSUME NEW s \in Seq(Package), NEW i \in 1..Len(s)
  PROVE  s[i] \in Package /\ s[i].item \in Nat /\ s[i].type \in MsgTypes
<1>1. s[i] \in Package
  OBVIOUS
<1> QED BY <1>1 DEF Package

LEMMA TailOf ==
  ASSUME NEW s \in Seq(Package), s # <<>>
  PROVE  /\ Tail(s) \in Seq(Package) /\ Len(s) \in Nat \ {0} /\ Len(Tail(s)) = Len(s) - 1
         /\ \A i \in 1..Len(Tail(s)) : i + 1 \in 1..Len(s) /\ Tail(s)[i] = s[i + 1]
         /\ \A i \in 1..Len(s) : i # 1 => i - 1 \in 1..Len(Tail(s)) /\ s[i] = Tail(s)[i - 1]
         /\ Head(s) = s[1] /\ s[1] \in Package /\ 1 \in 1..Len(s)
OBVIOUS

LEMMA ConcatOf ==
  ASSUME NEW s \in Seq(Package), NEW x \in Seq(Package)
  PROVE  /\ s \o x \in Seq(Package) /\ Len(s \o x) = Len(s) + Len(x)
         /\ Len(s) \in Nat /\ Len(x) \in Nat
         /\ \A i \in 1..Len(s) : i \in 1..Len(s \o x) /\ (s \o x)[i] = s[i]
         /\ \A i \in 1..Len(x) : Len(s) + i \in 1..Len(s \o x) /\ (s \o x)[Len(s) + i] = x[i]
         /\ \A i \in 1..Len(s \o x) : i \in 1..Len(s) \/ i - Len(s) \in 1..Len(x)
OBVIOUS

LEMMA AppendIs ==
  ASSUME NEW s \in Seq(Package), NEW m \in Package
  PROVE  Append(s, m) = s \o <<m>>
OBVIOUS

(* The head of a stream that has a package of type t first is the next     *)
(* item; without it the stream is in order still.                          *)
LEMMA OrderTail ==
  ASSUME NEW s \in Seq(Package), s # <<>>, NEW t, NEW g \in Nat, NEW q \in Nat,
         InOrder(s, t, g, q)
  PROVE  /\ Head(s).type = t => /\ Head(s).item = g + 1 /\ g + 1 <= q
                                /\ InOrder(Tail(s), t, g + 1, q)
         /\ Head(s).type # t => InOrder(Tail(s), t, g, q)
<1> DEFINE r == Tail(s)
<1>1. /\ Len(s) \in Nat \ {0} /\ Len(r) = Len(s) - 1
      /\ \A i \in 1..Len(r) : i + 1 \in 1..Len(s) /\ r[i] = s[i + 1]
      /\ \A i \in 1..Len(s) : i # 1 => i - 1 \in 1..Len(r) /\ s[i] = r[i - 1]
      /\ Head(s) = s[1] /\ 1 \in 1..Len(s)
  BY TailOf
<1>2. \A i \in 1..Len(s) : s[i].item \in Nat
  BY ItemIsNat
<1>3. \A i \in 1..Len(r) : r[i].item \in Nat
  BY <1>1, <1>2
<1> HIDE DEF r
<1>4. \A i, j \in 1..Len(r) : i < j /\ r[i].type = t /\ r[j].type = t => r[i].item < r[j].item
  <2> SUFFICES ASSUME NEW i \in 1..Len(r), NEW j \in 1..Len(r), i < j, r[i].type = t, r[j].type = t
               PROVE  r[i].item < r[j].item
    OBVIOUS
  <2>1. i + 1 \in 1..Len(s) /\ j + 1 \in 1..Len(s) /\ i + 1 < j + 1 /\ r[i] = s[i + 1] /\ r[j] = s[j + 1]
    BY <1>1
  <2> QED BY <2>1 DEF InOrder
<1>5. ASSUME s[1].type = t
      PROVE  s[1].item = g + 1 /\ g + 1 <= q /\ InOrder(r, t, g + 1, q)
  <2>1. g < s[1].item /\ s[1].item <= q
    BY <1>1, <1>5 DEF InOrder
  <2>2. PICK i \in 1..Len(s) : s[i].type = t /\ s[i].item = g + 1
    <3>1. g + 1 \in Nat /\ g < g + 1 /\ g + 1 <= q
      BY <1>1, <1>2, <2>1
    <3> QED BY <3>1 DEF InOrder
  <2>3. s[1].item = g + 1
    <3>1. i # 1 => s[1].item < s[i].item
      BY <1>1, <1>5, <2>2 DEF InOrder
    <3> QED BY <1>1, <1>2, <2>1, <2>2, <3>1
  <2>4. \A j \in 1..Len(r) : r[j].type = t => g + 1 < r[j].item /\ r[j].item <= q
    <3> SUFFICES ASSUME NEW j \in 1..Len(r), r[j].type = t
                 PROVE  g + 1 < r[j].item /\ r[j].item <= q
      OBVIOUS
    <3>1. j + 1 \in 1..Len(s) /\ r[j] = s[j + 1] /\ 1 < j + 1
      BY <1>1
    <3> QED BY <1>1, <1>5, <2>3, <3>1 DEF InOrder
  <2>5. ASSUME NEW v \in Nat, g + 1 < v, v <= q
        PROVE  \E j \in 1..Len(r) : r[j].type = t /\ r[j].item = v
    <3>1. PICK j \in 1..Len(s) : s[j].type = t /\ s[j].item = v
      BY <2>5 DEF InOrder
    <3>2. j # 1
      BY <2>3, <2>5, <3>1
    <3> QED BY <1>1, <3>1, <3>2
  <2> QED BY <1>1, <1>2, <1>4, <2>1, <2>3, <2>4, <2>5 DEF InOrder
<1>6. ASSUME s[1].type # t
      PROVE  InOrder(r, t, g, q)
  <2>1. ASSUME NEW v \in Nat, g < v, v <= q
        PROVE  \E j \in 1..Len(r) : r[j].type = t /\ r[j].item = v
    <3>1. PICK j \in 1..Len(s) : s[j].type = t /\ s[j].item = v
      BY <2>1 DEF InOrder
    <3> QED BY <1>1, <1>6, <3>1
  <2>2. \A j \in 1..Len(r) : r[j].type = t => g < r[j].item /\ r[j].item <= q
    BY <1>1 DEF InOrder
  <2> QED BY <1>4, <2>1, <2>2 DEF InOrder
<1> QED BY <1>1, <1>5, <1>6 DEF r

LEMMA OrderConcat ==
  ASSUME NEW s \in Seq(Package), NEW x \in Seq(Package), NEW t,
         NEW g \in Nat, NEW q \in Nat, NEW r \in Nat,
         InOrder(s, t, g, q), InOrder(x, t, q, r)
  PROVE  InOrder(s \o x, t, g, r)
<1> DEFINE z == s \o x
<1>1. /\ Len(s) \in Nat /\ Len(x) \in Nat
      /\ \A i \in 1..Len(s) : i \in 1..Len(z) /\ z[i] = s[i]
      /\ \A i \in 1..Len(x) : Len(s) + i \in 1..Len(z) /\ z[Len(s) + i] = x[i]
      /\ \A i \in 1..Len(z) : i \in 1..Len(s) \/ i - Len(s) \in 1..Len(x)
  BY ConcatOf
<1>2. /\ \A i \in 1..Len(s) : s[i].item \in Nat
      /\ \A i \in 1..Len(x) : x[i].item \in Nat
  BY ItemIsNat
<1> HIDE DEF z
<1>3. \A i \in 1..Len(z) : z[i].type = t => g < z[i].item /\ z[i].item <= r
  <2> SUFFICES ASSUME NEW i \in 1..Len(z), z[i].type = t PROVE g < z[i].item /\ z[i].item <= r
    OBVIOUS
  <2>1. CASE i \in 1..Len(s)
    <3>1. g < s[i].item /\ s[i].item <= q /\ z[i] = s[i]
      BY <1>1, <2>1 DEF InOrder
    <3> QED BY <1>2, <2>1, <3>1 DEF InOrder
  <2>2. CASE i - Len(s) \in 1..Len(x)
    <3> DEFINE k == i - Len(s)
    <3>1. z[i] = x[k] /\ k \in 1..Len(x)
      BY <1>1, <2>2
    <3> HIDE DEF k
    <3>2. q < x[k].item /\ x[k].item <= r
      BY <3>1 DEF InOrder
    <3> QED BY <1>2, <3>1, <3>2 DEF InOrder
  <2> QED BY <1>1, <2>1, <2>2
<1>4. \A i, j \in 1..Len(z) : i < j /\ z[i].type = t /\ z[j].type = t => z[i].item < z[j].item
  <2> SUFFICES ASSUME NEW i \in 1..Len(z), NEW j \in 1..Len(z), i < j, z[i].type = t, z[j].type = t
               PROVE  z[i].item < z[j].item
    OBVIOUS
  <2>1. CASE i \in 1..Len(s) /\ j \in 1..Len(s)
    BY <1>1, <2>1 DEF InOrder
  <2>2. CASE i \in 1..Len(s) /\ j - Len(s) \in 1..Len(x)
    <3> DEFINE k == j - Len(s)
    <3>1. z[i] = s[i] /\ z[j] = x[k] /\ k \in 1..Len(x)
      BY <1>1, <2>2
    <3> HIDE DEF k
    <3>2. s[i].item <= q /\ q < x[k].item
      BY <2>2, <3>1 DEF InOrder
    <3> QED BY SMTT(30), <1>2, <2>2, <3>1, <3>2
  <2>3. CASE i - Len(s) \in 1..Len(x) /\ j - Len(s) \in 1..Len(x)
    <3> DEFINE k == j - Len(s)  l == i - Len(s)
    <3>1. k \in 1..Len(x) /\ l \in 1..Len(x) /\ l < k /\ i = Len(s) + l /\ j = Len(s) + k
      BY <1>1, <2>3
    <3> HIDE DEF k, l
    <3>2. z[i] = x[l] /\ z[j] = x[k]
      BY <1>1, <3>1
    <3> QED BY <3>1, <3>2 DEF InOrder
  <2> QED BY <1>1, <2>1, <2>2, <2>3
<1>5. ASSUME NEW v \in Nat, g < v, v <= r
      PROVE  \E i \in 1..Len(z) : z[i].type = t /\ z[i].item = v
  <2>1. CASE v <= q
    <3>1. PICK i \in 1..Len(s) : s[i].type = t /\ s[i].item = v
      BY <1>5, <2>1 DEF InOrder
    <3> QED BY <1>1, <3>1
  <2>2. CASE q < v
    <3>1. PICK i \in 1..Len(x) : x[i].type = t /\ x[i].item = v
      BY <1>5, <2>2 DEF InOrder
    <3> QED BY <1>1, <3>1
  <2> QED BY <2>1, <2>2
<1>6. g <= r
  BY DEF InOrder
<1> QED BY <1>3, <1>4, <1>5, <1>6 DEF InOrder, z

LEMMA OrderNone ==
  ASSUME NEW x \in Seq(Package), NEW t, NEW q \in Nat, \A i \in 1..Len(x) : x[i].type # t
  PROVE  InOrder(x, t, q, q)
BY DEF InOrder

(* Where package p of a job that sends fragments belongs: piece d of the   *)
(* fragment e + 1.                                                         *)
LEMMA Division ==
  ASSUME NEW n \in Nat
  PROVE  /\ n \div FragmentPieces \in Nat /\ n % FragmentPieces \in 0..FragmentPieces - 1
         /\ n = (n \div FragmentPieces) * FragmentPieces + (n % FragmentPieces)
BY DataAssumption, SMT

LEMMA Multiples ==
  ASSUME NEW a \in Nat, NEW e \in Nat, e < a
  PROVE  /\ a * FragmentPieces \in Nat /\ e * FragmentPieces \in Nat
         /\ e * FragmentPieces + FragmentPieces <= a * FragmentPieces
<1>1. PICK k \in Nat : a = e + 1 + k
  <2>1. a - e - 1 \in Nat /\ a = e + 1 + (a - e - 1)
    OBVIOUS
  <2> QED BY <2>1
<1>2. a * FragmentPieces = e * FragmentPieces + FragmentPieces + k * FragmentPieces
  BY <1>1, DataAssumption, SMT
<1>3. k * FragmentPieces \in Nat /\ e * FragmentPieces \in Nat /\ a * FragmentPieces \in Nat
  BY DataAssumption, SMT
<1> QED BY <1>2, <1>3, DataAssumption

LEMMA DivisionOf ==
  ASSUME NEW e \in Nat, NEW d \in 0..FragmentPieces - 1
  PROVE  /\ (e * FragmentPieces + d) \div FragmentPieces = e
         /\ (e * FragmentPieces + d) % FragmentPieces = d
<1> DEFINE n == e * FragmentPieces + d
           a == n \div FragmentPieces
           r == n % FragmentPieces
<1>1. FragmentPieces \in Nat \ {0} /\ e * FragmentPieces \in Nat /\ n \in Nat
  BY DataAssumption, SMT
<1>2. a \in Nat /\ r \in 0..FragmentPieces - 1 /\ n = a * FragmentPieces + r
  BY <1>1, Division
<1>3. n = e * FragmentPieces + d
  OBVIOUS
<1> HIDE DEF n, a, r
<1>4. a * FragmentPieces \in Nat
  BY <1>1, <1>2, SMT
<1>5. ~(e < a)
  BY <1>1, <1>2, <1>3, <1>4, Multiples
<1>6. ~(a < e)
  BY <1>1, <1>2, <1>3, <1>4, Multiples
<1>7. a = e
  BY <1>2, <1>5, <1>6
<1>8. r = d
  BY <1>1, <1>2, <1>3, <1>7
<1> QED BY <1>7, <1>8 DEF n, a, r

(* What send_fragments writes: piece d of fragment e is package eP+d.      *)
Piece(items, p) ==
  IF (p - 1) % FragmentPieces = 0
  THEN Msg("frag_rsp", items[((p - 1) \div FragmentPieces) + 1])
  ELSE Msg("frag_rest", 0)

LEMMA PieceOf ==
  ASSUME NEW items \in Seq(Nat), NEW e \in 0..Len(items) - 1, NEW d \in 0..FragmentPieces - 1
  PROVE  /\ e * FragmentPieces + d + 1 \in 1..(Len(items) * FragmentPieces)
         /\ Piece(items, e * FragmentPieces + d + 1) =
              IF d = 0 THEN Msg("frag_rsp", items[e + 1]) ELSE Msg("frag_rest", 0)
<1>1. FragmentPieces \in Nat \ {0} /\ Len(items) \in Nat /\ e \in Nat /\ e < Len(items)
  BY DataAssumption
<1>2. /\ Len(items) * FragmentPieces \in Nat /\ e * FragmentPieces \in Nat
      /\ e * FragmentPieces + FragmentPieces <= Len(items) * FragmentPieces
  BY <1>1, Multiples
<1>3. /\ (e * FragmentPieces + d) \div FragmentPieces = e
      /\ (e * FragmentPieces + d) % FragmentPieces = d
  BY <1>1, DivisionOf, Zenon
<1> DEFINE n == e * FragmentPieces
           m == Len(items) * FragmentPieces
           p == n + d + 1
<1>4. n \in Nat /\ n + FragmentPieces <= m /\ m \in Nat
  BY <1>2
<1> HIDE DEF n, m
<1>5. p \in 1..m /\ p - 1 = n + d
  BY <1>1, <1>4
<1>6. (p - 1) \div FragmentPieces = e /\ (p - 1) % FragmentPieces = d
  BY <1>3, <1>5, Zenon DEF n
<1> HIDE DEF p
<1>7. Piece(items, p) = IF d = 0 THEN Msg("frag_rsp", items[e + 1]) ELSE Msg("frag_rest", 0)
  BY <1>6, Zenon DEF Piece
<1> QED BY <1>5, <1>7 DEF n, m, p

LEMMA EveryPiece ==
  ASSUME NEW items \in Seq(Nat), NEW p \in 1..(Len(items) * FragmentPieces)
  PROVE  \E e \in 0..Len(items) - 1, d \in 0..FragmentPieces - 1 : p = e * FragmentPieces + d + 1
<1> DEFINE e == (p - 1) \div FragmentPieces
           d == (p - 1) % FragmentPieces
           m == Len(items) * FragmentPieces
           n == e * FragmentPieces
<1>1. FragmentPieces \in Nat \ {0} /\ Len(items) \in Nat /\ m \in Nat
  BY DataAssumption, SMT
<1>2. p \in 1..m
  OBVIOUS
<1>3. p - 1 \in Nat
  <2> HIDE DEF m
  <2> QED BY <1>1, <1>2
<1>4. e \in Nat /\ d \in 0..FragmentPieces - 1 /\ p - 1 = n + d
  BY <1>3, Division, Zenon
<1>5. Len(items) < e => m + FragmentPieces <= n
  BY <1>1, <1>4, Multiples
<1>6. Len(items) = e => m = n
  OBVIOUS
<1> HIDE DEF e, d, m
<1>7. n \in Nat
  BY <1>1, <1>4, SMT
<1> HIDE DEF n
<1>8. e \in 0..Len(items) - 1 /\ p = n + d + 1
  BY <1>1, <1>2, <1>4, <1>5, <1>6, <1>7
<1> QED BY <1>4, <1>8 DEF n

LEMMA FragmentPackages ==
  ASSUME NEW items \in Seq(Nat)
  PROVE  LET s == Packages("frag_send", items) IN
         /\ s \in Seq(Package) /\ Len(s) = Len(items) * FragmentPieces /\ Len(s) \in Nat
         /\ \A p \in 1..Len(s) : s[p] = Piece(items, p)
<1> DEFINE s == Packages("frag_send", items)
           m == Len(items) * FragmentPieces
<1>1. s = [p \in 1..m |-> Piece(items, p)]
  BY DEF Packages, Piece
<1>2. ASSUME NEW p \in 1..m PROVE Piece(items, p) \in Package
  <2>1. PICK e \in 0..Len(items) - 1, d \in 0..FragmentPieces - 1 : p = e * FragmentPieces + d + 1
    BY EveryPiece
  <2>2. Piece(items, p) = IF d = 0 THEN Msg("frag_rsp", items[e + 1]) ELSE Msg("frag_rest", 0)
    BY <2>1, PieceOf
  <2>3. items[e + 1] \in Nat
    OBVIOUS
  <2> QED BY <2>2, <2>3 DEF Msg, Package, MsgTypes
<1>3. m \in Nat
  BY DataAssumption, SMT
<1>4. s \in Seq(Package) /\ Len(s) = m /\ \A p \in 1..m : s[p] = Piece(items, p)
  <2> HIDE DEF m
  <2> QED BY <1>1, <1>2, <1>3
<1> QED BY <1>3, <1>4

LEMMA OtherPackages ==
  ASSUME NEW items \in Seq(Nat), NEW k \in Kinds \ {"frag_send"}
  PROVE  LET s == Packages(k, items) IN
         /\ s \in Seq(Package) /\ Len(s) = Len(items)
         /\ \A p \in 1..Len(s) : s[p] = Msg(k, items[p])
<1> DEFINE s == Packages(k, items)
<1>1. s = [i \in 1..Len(items) |-> Msg(k, items[i])]
  BY DEF Packages
<1>2. \A i \in 1..Len(items) : Msg(k, items[i]) \in Package
  BY DEF Msg, Package, MsgTypes
<1> QED BY <1>1, <1>2

(* A job's fragments follow on in order, each with all its pieces.         *)
LEMMA FragmentsInOrder ==
  ASSUME NEW items \in Seq(Nat), NEW q \in Nat, \A i \in 1..Len(items) : items[i] = q + i
  PROVE  LET s == Packages("frag_send", items) IN
         /\ InOrder(s, "frag_rsp", q, q + Len(items)) /\ Pieces(s, 0)
         /\ \A i \in 1..Len(s) : s[i].type \in {"frag_rsp", "frag_rest"}
<1> DEFINE s == Packages("frag_send", items)
           F == FragmentPieces
           Start0(e) == e * F
<1>1. /\ s \in Seq(Package) /\ Len(s) = Len(items) * F /\ Len(s) \in Nat
      /\ \A p \in 1..Len(s) : s[p] = Piece(items, p)
  BY FragmentPackages
<1>2. F \in Nat \ {0} /\ Len(items) \in Nat
  BY DataAssumption
<1>3. ASSUME NEW e \in 0..Len(items) - 1
      PROVE  Start0(e) \in Nat /\ Start0(e) + F <= Len(s)
  <2>1. e \in Nat /\ e < Len(items)
    BY <1>2
  <2>2. e * FragmentPieces \in Nat
        /\ e * FragmentPieces + FragmentPieces <= Len(items) * FragmentPieces
    BY <1>2, <2>1, Multiples
  <2> QED BY <1>1, <2>2
<1>4. \A e, f \in 0..Len(items) - 1 : e < f => Start0(e) + F <= Start0(f)
  BY <1>1, <1>2, Multiples
<1>5. ASSUME NEW e \in 0..Len(items) - 1, NEW d \in 0..F - 1
      PROVE  /\ Start0(e) + d + 1 \in 1..Len(s)
             /\ s[Start0(e) + d + 1].type = IF d = 0 THEN "frag_rsp" ELSE "frag_rest"
             /\ d = 0 => s[Start0(e) + d + 1].item = q + e + 1
  <2>1. /\ Start0(e) + d + 1 \in 1..Len(s)
        /\ s[Start0(e) + d + 1] = IF d = 0 THEN Msg("frag_rsp", items[e + 1]) ELSE Msg("frag_rest", 0)
    BY <1>1, PieceOf
  <2>2. items[e + 1] = q + e + 1
    BY <1>2
  <2> QED BY <2>1, <2>2 DEF Msg
<1>6. ASSUME NEW p \in 1..Len(s)
      PROVE  \E e \in 0..Len(items) - 1, d \in 0..F - 1 : p = Start0(e) + d + 1
  BY <1>1, EveryPiece
<1> HIDE DEF s, F, Start0
<1>7. ASSUME NEW p \in 1..Len(s), s[p].type = "frag_rsp"
      PROVE  \E e \in 0..Len(items) - 1 : p = Start0(e) + 1 /\ s[p].item = q + e + 1
  <2>1. PICK e \in 0..Len(items) - 1, d \in 0..F - 1 : p = Start0(e) + d + 1
    BY <1>6
  <2>2. d = 0
    BY <1>5, <1>7, <2>1
  <2>3. p = Start0(e) + 1 /\ s[p].item = q + e + 1
    BY <1>3, <1>5, <2>1, <2>2
  <2> QED BY <2>3
<1>8. InOrder(s, "frag_rsp", q, q + Len(items))
  <2>1. \A i \in 1..Len(s) : s[i].type = "frag_rsp" => q < s[i].item /\ s[i].item <= q + Len(items)
    BY <1>2, <1>7
  <2>2. ASSUME NEW i \in 1..Len(s), NEW j \in 1..Len(s), i < j,
               s[i].type = "frag_rsp", s[j].type = "frag_rsp"
        PROVE  s[i].item < s[j].item
    <3>1. PICK e \in 0..Len(items) - 1 : i = Start0(e) + 1 /\ s[i].item = q + e + 1
      BY <1>7, <2>2
    <3>2. PICK f \in 0..Len(items) - 1 : j = Start0(f) + 1 /\ s[j].item = q + f + 1
      BY <1>7, <2>2
    <3>3. Start0(e) < Start0(f)
      BY <1>3, <2>2, <3>1, <3>2
    <3>4. f # e
      BY <1>3, <3>3
    <3>5. ~(f < e)
      BY SMTT(30), <1>2, <1>3, <1>4, <3>3
    <3> QED BY <1>2, <3>1, <3>2, <3>4, <3>5
  <2>3. ASSUME NEW v \in Nat, q < v, v <= q + Len(items)
        PROVE  \E i \in 1..Len(s) : s[i].type = "frag_rsp" /\ s[i].item = v
    <3>1. PICK e \in 0..Len(items) - 1 : v = q + e + 1
      <4>1. v - q - 1 \in 0..Len(items) - 1 /\ v = q + (v - q - 1) + 1
        BY <1>2, <2>3
      <4> QED BY <4>1
    <3>2. /\ Start0(e) + 0 + 1 \in 1..Len(s) /\ s[Start0(e) + 0 + 1].type = "frag_rsp"
          /\ s[Start0(e) + 0 + 1].item = q + e + 1
      BY <1>2, <1>5
    <3> QED BY <3>1, <3>2
  <2> QED BY <1>2, <2>1, <2>2, <2>3 DEF InOrder
<1>9. Pieces(s, 0)
  <2>1. ASSUME NEW i \in 1..Len(s), s[i].type = "frag_rsp"
        PROVE  /\ i + F - 1 <= Len(s)
               /\ \A j \in 1..Len(s) : i < j /\ j < i + F => s[j].type = "frag_rest"
    <3>1. PICK e \in 0..Len(items) - 1 : i = Start0(e) + 1
      BY <1>7, <2>1
    <3>2. i + F - 1 <= Len(s)
      BY <1>1, <1>2, <1>3, <3>1
    <3>3. ASSUME NEW j \in 1..Len(s), i < j, j < i + F PROVE s[j].type = "frag_rest"
      <4>1. Start0(e) \in Nat
        BY <1>3
      <4>2. PICK d \in 0..F - 1 : d # 0 /\ j = Start0(e) + d + 1
        <5>1. j - i \in 0..F - 1 /\ j - i # 0 /\ j = i + (j - i)
          BY <1>2, <3>3
        <5>2. j = Start0(e) + (j - i) + 1
          BY SMTT(30), <3>1, <4>1
        <5> QED BY <5>1, <5>2
      <4> QED BY <1>5, <4>2
    <3> QED BY <3>2, <3>3
  <2>2. ASSUME NEW i \in 1..Len(s), s[i].type = "frag_rest"
        PROVE  \E j \in 1..Len(s) : j < i /\ i < j + F /\ s[j].type = "frag_rsp"
    <3>1. PICK e \in 0..Len(items) - 1, d \in 0..F - 1 : i = Start0(e) + d + 1
      BY <1>6
    <3>2. d # 0
      BY <1>5, <2>2, <3>1
    <3>3. /\ Start0(e) + 0 + 1 \in 1..Len(s) /\ s[Start0(e) + 0 + 1].type = "frag_rsp"
      BY <1>2, <1>5
    <3>4. Start0(e) + 0 + 1 < i /\ i < Start0(e) + 0 + 1 + F
      BY <1>2, <1>3, <3>1, <3>2
    <3> QED BY <3>3, <3>4
  <2> QED BY <1>1, <2>1, <2>2 DEF Pieces, F
<1>10. \A i \in 1..Len(s) : s[i].type \in {"frag_rsp", "frag_rest"}
  BY <1>5, <1>6
<1> QED BY <1>8, <1>9, <1>10 DEF s

LEMMA OthersInOrder ==
  ASSUME NEW items \in Seq(Nat), NEW q \in Nat, \A i \in 1..Len(items) : items[i] = q + i,
         NEW k \in Kinds \ {"frag_send"}
  PROVE  LET s == Packages(k, items) IN
         /\ InOrder(s, k, q, q + Len(items))
         /\ \A i \in 1..Len(s) : s[i].type = k
<1> DEFINE s == Packages(k, items)
<1>1. Len(items) \in Nat /\ Len(s) = Len(items) /\ \A p \in 1..Len(s) : s[p] = Msg(k, items[p])
  BY OtherPackages
<1> HIDE DEF s
<1>2. ASSUME NEW p \in 1..Len(s) PROVE s[p].type = k /\ s[p].item = q + p
  <2>1. s[p] = [type |-> k, item |-> items[p]]
    BY <1>1 DEF Msg
  <2>2. items[p] = q + p
    BY <1>1
  <2> QED BY <2>1, <2>2
<1>3. ASSUME NEW v \in Nat, q < v, v <= q + Len(items)
      PROVE  \E i \in 1..Len(s) : s[i].type = k /\ s[i].item = v
  <2>1. v - q \in 1..Len(s) /\ q + (v - q) = v
    BY <1>1, <1>3
  <2> QED BY <1>2, <2>1
<1>4. \A i \in 1..Len(s) : q < s[i].item /\ s[i].item <= q + Len(items)
  BY <1>1, <1>2
<1>5. \A i, j \in 1..Len(s) : i < j => s[i].item < s[j].item
  BY <1>1, <1>2
<1>6. InOrder(s, k, q, q + Len(items))
  BY <1>1, <1>3, <1>4, <1>5 DEF InOrder
<1> QED BY <1>2, <1>6 DEF s

LEMMA PiecesTail ==
  ASSUME NEW s \in Seq(Package), s # <<>>, NEW off \in Nat, Pieces(s, off)
  PROVE  /\ Head(s).type = "frag_rest" => off > 0 /\ Pieces(Tail(s), off - 1)
         /\ Head(s).type # "frag_rest" => off = 0
         /\ Head(s).type = "frag_rsp" => Pieces(Tail(s), FragmentPieces - 1)
         /\ Head(s).type \notin {"frag_rest", "frag_rsp"} => Pieces(Tail(s), 0)
<1> DEFINE r == Tail(s)
<1>1. /\ Len(s) \in Nat \ {0} /\ Len(r) = Len(s) - 1
      /\ \A i \in 1..Len(r) : i + 1 \in 1..Len(s) /\ r[i] = s[i + 1]
      /\ \A i \in 1..Len(s) : i # 1 => i - 1 \in 1..Len(r) /\ s[i] = r[i - 1]
      /\ Head(s) = s[1] /\ 1 \in 1..Len(s)
  BY TailOf
<1>2. FragmentPieces \in Nat \ {0}
  BY DataAssumption
<1> HIDE DEF r
<1>3. ASSUME NEW i \in 1..Len(r), r[i].type = "frag_rsp"
      PROVE  /\ i + FragmentPieces - 1 <= Len(r)
             /\ \A j \in 1..Len(r) : i < j /\ j < i + FragmentPieces => r[j].type = "frag_rest"
  <2>1. i + 1 \in 1..Len(s) /\ s[i + 1].type = "frag_rsp"
    BY <1>1, <1>3
  <2>2. i + 1 + FragmentPieces - 1 <= Len(s)
    BY <2>1 DEF Pieces
  <2>3. ASSUME NEW j \in 1..Len(r), i < j, j < i + FragmentPieces PROVE r[j].type = "frag_rest"
    <3>1. j + 1 \in 1..Len(s) /\ i + 1 < j + 1 /\ j + 1 < i + 1 + FragmentPieces /\ r[j] = s[j + 1]
      BY <1>1, <1>2, <2>3
    <3> QED BY <2>1, <3>1 DEF Pieces
  <2> QED BY <1>1, <1>2, <2>2, <2>3
(* A later piece follows a first piece that is still there, or it belongs  *)
(* to the fragment whose beginning has been read.                          *)
<1>4. ASSUME NEW i \in 1..Len(r), r[i].type = "frag_rest"
      PROVE  \/ i + 1 <= off
             \/ s[1].type = "frag_rsp" /\ i <= FragmentPieces - 1
             \/ \E j \in 1..Len(r) : j < i /\ i < j + FragmentPieces /\ r[j].type = "frag_rsp"
  <2>1. i + 1 \in 1..Len(s) /\ s[i + 1].type = "frag_rest"
    BY <1>1, <1>4
  <2>2. ASSUME NEW j \in 1..Len(s), j < i + 1, i + 1 < j + FragmentPieces, s[j].type = "frag_rsp", j # 1
        PROVE  \E l \in 1..Len(r) : l < i /\ i < l + FragmentPieces /\ r[l].type = "frag_rsp"
    <3>1. /\ j - 1 \in 1..Len(r) /\ s[j] = r[j - 1]
          /\ j - 1 < i /\ i < j - 1 + FragmentPieces
      BY <1>1, <1>2, <2>2
    <3> QED BY <2>2, <3>1
  <2>3. \/ i + 1 <= off
        \/ \E j \in 1..Len(s) : j < i + 1 /\ i + 1 < j + FragmentPieces /\ s[j].type = "frag_rsp"
    BY <2>1 DEF Pieces
  <2>4. ASSUME NEW j \in 1..Len(s), j < i + 1, i + 1 < j + FragmentPieces, s[j].type = "frag_rsp", j = 1
        PROVE  s[1].type = "frag_rsp" /\ i <= FragmentPieces - 1
    BY <1>2, <2>4
  <2> QED BY <2>2, <2>3, <2>4
<1>5. off <= Len(s) /\ \A i \in 1..off : s[i].type = "frag_rest"
  BY DEF Pieces
<1>6. s[1].type = "frag_rest" => off > 0
  <2>1. ~\E j \in 1..Len(s) : j < 1
    OBVIOUS
  <2> QED BY <1>1, <2>1 DEF Pieces
<1>7. s[1].type # "frag_rest" => off = 0
  BY <1>5
<1>8. ASSUME s[1].type = "frag_rest" PROVE Pieces(r, off - 1)
  <2>1. \A i \in 1..off - 1 : r[i].type = "frag_rest" /\ i \in 1..Len(r)
    BY <1>1, <1>5
  <2>2. off - 1 <= Len(r)
    BY <1>1, <1>5
  <2>3. \A i \in 1..Len(r) : i + 1 <= off => i <= off - 1
    OBVIOUS
  <2> QED BY <1>3, <1>4, <1>8, <2>1, <2>2, <2>3 DEF Pieces
<1>9. ASSUME s[1].type = "frag_rsp" PROVE Pieces(r, FragmentPieces - 1)
  <2>1. 1 + FragmentPieces - 1 <= Len(s)
    BY <1>1, <1>9 DEF Pieces
  <2>2. ASSUME NEW i \in 1..FragmentPieces - 1 PROVE r[i].type = "frag_rest"
    <3>1. i + 1 \in 1..Len(s) /\ 1 < i + 1 /\ i + 1 < 1 + FragmentPieces /\ r[i] = s[i + 1]
      BY <1>1, <1>2, <2>1
    <3> QED BY <1>1, <1>9, <3>1 DEF Pieces
  <2>3. FragmentPieces - 1 <= Len(r)
    BY <1>1, <1>2, <2>1
  <2>4. \A i \in 1..Len(r) : ~(i + 1 <= off)
    BY <1>7, <1>9
  <2> QED BY <1>3, <1>4, <2>2, <2>3, <2>4 DEF Pieces
<1>10. ASSUME s[1].type \notin {"frag_rest", "frag_rsp"} PROVE Pieces(r, 0)
  <2>1. \A i \in 1..Len(r) : ~(i + 1 <= off)
    BY <1>7, <1>10
  <2> QED BY <1>1, <1>3, <1>4, <1>10, <2>1 DEF Pieces
<1> QED BY <1>1, <1>6, <1>7, <1>8, <1>9, <1>10 DEF r

LEMMA PiecesConcat ==
  ASSUME NEW s \in Seq(Package), NEW x \in Seq(Package), NEW off \in Nat,
         Pieces(s, off), Pieces(x, 0)
  PROVE  Pieces(s \o x, off)
<1> DEFINE z == s \o x
<1>1. /\ Len(s) \in Nat /\ Len(x) \in Nat /\ Len(z) = Len(s) + Len(x)
      /\ \A i \in 1..Len(s) : i \in 1..Len(z) /\ z[i] = s[i]
      /\ \A i \in 1..Len(x) : Len(s) + i \in 1..Len(z) /\ z[Len(s) + i] = x[i]
      /\ \A i \in 1..Len(z) : i \in 1..Len(s) \/ i - Len(s) \in 1..Len(x)
  BY ConcatOf
<1>2. FragmentPieces \in Nat \ {0}
  BY DataAssumption
<1> HIDE DEF z
<1>3. off <= Len(z) /\ \A i \in 1..off : z[i].type = "frag_rest"
  BY <1>1 DEF Pieces
<1>4. ASSUME NEW i \in 1..Len(z), z[i].type = "frag_rsp"
      PROVE  /\ i + FragmentPieces - 1 <= Len(z)
             /\ \A j \in 1..Len(z) : i < j /\ j < i + FragmentPieces => z[j].type = "frag_rest"
  <2>1. CASE i \in 1..Len(s)
    <3>1. s[i].type = "frag_rsp"
      BY <1>1, <1>4, <2>1
    <3>2. i + FragmentPieces - 1 <= Len(s)
      BY <2>1, <3>1 DEF Pieces
    <3>3. ASSUME NEW j \in 1..Len(z), i < j, j < i + FragmentPieces PROVE z[j].type = "frag_rest"
      <4>1. j \in 1..Len(s)
        BY <1>1, <1>2, <3>2, <3>3
      <4>2. \A l \in 1..Len(s) : i < l /\ l < i + FragmentPieces => s[l].type = "frag_rest"
        BY <2>1, <3>1 DEF Pieces
      <4> QED BY <1>1, <3>3, <4>1, <4>2
    <3> QED BY <1>1, <1>2, <3>2, <3>3
  <2>2. CASE i - Len(s) \in 1..Len(x)
    <3> DEFINE k == i - Len(s)
    <3>1. k \in 1..Len(x) /\ i = Len(s) + k
      BY <1>1, <2>2
    <3> HIDE DEF k
    <3>2. x[k].type = "frag_rsp"
      BY <1>1, <1>4, <3>1
    <3>3. k + FragmentPieces - 1 <= Len(x)
      BY <3>1, <3>2 DEF Pieces
    <3>4. ASSUME NEW j \in 1..Len(z), i < j, j < i + FragmentPieces PROVE z[j].type = "frag_rest"
      <4> DEFINE l == j - Len(s)
      <4>1. l \in 1..Len(x) /\ j = Len(s) + l /\ k < l /\ l < k + FragmentPieces
        BY <1>1, <1>2, <3>1, <3>4
      <4> HIDE DEF l
      <4>2. x[l].type = "frag_rest"
        BY <3>1, <3>2, <4>1 DEF Pieces
      <4> QED BY <1>1, <4>1, <4>2
    <3> QED BY <1>1, <1>2, <3>1, <3>3, <3>4
  <2> QED BY <1>1, <2>1, <2>2
<1>5. ASSUME NEW i \in 1..Len(z), z[i].type = "frag_rest"
      PROVE  \/ i <= off
             \/ \E j \in 1..Len(z) : j < i /\ i < j + FragmentPieces /\ z[j].type = "frag_rsp"
  <2>1. CASE i \in 1..Len(s)
    <3>1. s[i].type = "frag_rest"
      BY <1>1, <1>5, <2>1
    <3>2. \/ i <= off
          \/ \E j \in 1..Len(s) : j < i /\ i < j + FragmentPieces /\ s[j].type = "frag_rsp"
      BY <2>1, <3>1 DEF Pieces
    <3> QED BY <1>1, <3>2
  <2>2. CASE i - Len(s) \in 1..Len(x)
    <3> DEFINE k == i - Len(s)
    <3>1. k \in 1..Len(x) /\ i = Len(s) + k
      BY <1>1, <2>2
    <3> HIDE DEF k
    <3>2. x[k].type = "frag_rest" /\ ~(k <= 0)
      BY <1>1, <1>5, <3>1
    <3>3. PICK j \in 1..Len(x) : j < k /\ k < j + FragmentPieces /\ x[j].type = "frag_rsp"
      BY <3>1, <3>2 DEF Pieces
    <3>4. /\ Len(s) + j \in 1..Len(z) /\ z[Len(s) + j] = x[j]
          /\ Len(s) + j < i /\ i < Len(s) + j + FragmentPieces
      BY <1>1, <1>2, <3>1, <3>3
    <3> QED BY <3>3, <3>4
  <2> QED BY <1>1, <2>1, <2>2
<1> QED BY <1>3, <1>4, <1>5 DEF Pieces, z

LEMMA PiecesNone ==
  ASSUME NEW x \in Seq(Package), \A i \in 1..Len(x) : x[i].type \notin {"frag_rsp", "frag_rest"}
  PROVE  Pieces(x, 0)
BY DEF Pieces
------------------------------------------------------------------------------
(* What each stream holds                                                  *)

Buffer == [id : Nat, left : Nat, some : BOOLEAN]

(* How many further pieces buffer b waits for, and how many items of a     *)
(* kind have left the stream when the handlers were given g.               *)
Waiting(b)     == IF b.some THEN b.left ELSE 0
Taken(k, b, g) == IF k = "frag_send" /\ b.some THEN Len(g[k]) + 1 ELSE Len(g[k])

(* The items of each kind, numbered as they were queued: the handlers were *)
(* given the first, then come the one in the buffer, those in the stream   *)
(* and those still queued.                                                 *)
ItemsInOrder(k, s, b, que, push, g) ==
  /\ \A i \in 1..Len(g[k]) : g[k][i] = i
  /\ InOrder(s, Carrier(k), Taken(k, b, g), push[k] - Len(que[k]))
  /\ Len(que[k]) <= push[k] /\ \A i \in 1..Len(que[k]) : que[k][i] = push[k] - Len(que[k]) + i

BufferInOrder(b, push, g) ==
  /\ b \in Buffer /\ b.left < FragmentPieces /\ b.id <= push["frag_send"]
  /\ b.some => b.left > 0 /\ b.id = Len(g["frag_send"]) + 1

StreamType(s, que, push, g) ==
  s \in Seq(Package) /\ que \in [Kinds -> Seq(Nat)] /\ push \in [Kinds -> Nat] /\ g \in [Kinds -> Seq(Nat)]

StreamInOrder(s, b, que, push, g) ==
  /\ StreamType(s, que, push, g) /\ BufferInOrder(b, push, g) /\ Pieces(s, Waiting(b))
  /\ \A k \in Kinds : ItemsInOrder(k, s, b, que, push, g)

(* A node's packages are read by the other one, into its buffer.           *)
StreamAt(n, c) == StreamInOrder(net[n][c], cache[Other(n)][c], queue[n][c], pushed[n][c], got[n][c])

DeliveryType == /\ sid \in [Nodes -> Nat]
                /\ net \in [Nodes -> [Channels -> Seq(Package)]]
                /\ cache \in [Nodes -> [Channels -> Buffer]]
                /\ queue \in [Nodes -> [Channels -> [Kinds -> Seq(Nat)]]]
                /\ pushed \in [Nodes -> [Channels -> [Kinds -> Nat]]]
                /\ got \in [Nodes -> [Channels -> [Kinds -> Seq(Nat)]]]

DeliveryInv == DeliveryType /\ \A n \in Nodes, c \in Channels : StreamAt(n, c)
------------------------------------------------------------------------------
(* The handshake, and the bounds                                           *)

HandshakeType == /\ known \subseteq Nodes /\ called \subseteq Nodes
                 /\ has \in [Nodes -> BOOLEAN] /\ calls \in [Nodes -> Nat]
                 /\ ep \in [Nodes -> [Channels -> {"none", "new", "open"}]]
                 /\ jobs \in [Nodes -> [Channels -> Nat]]

(* Requests carry the sender's session; who answers one runs its channel 0 *)
(* and has compared the sessions.                                          *)
Honest(e, n, c, m) ==
  /\ m.type = "init_req" => c = 0 /\ m.item = sid[n]
  /\ m.type = "init_rsp" => c = 0 /\ e[n][0] = "open" /\ OneSession

Handshakes ==
  \A n \in Nodes, c \in Channels : \A i \in 1..Len(net[n][c]) : Honest(ep, n, c, net[n][c][i])

OpenIsKnown == \A n \in Nodes, c \in Channels : ep[n][c] # "none" => n \in known

HandshakeInv == HandshakeType /\ Handshakes /\ OpenIsKnown /\ ConnectedIsKnown /\ SessionsMatch

OpsInBounds == \A n \in Nodes, c \in Channels, k \in Kinds : pushed[n][c][k] <= MaxOps
------------------------------------------------------------------------------
(* What an operation, a job and a package read do to a stream              *)

LEMMA KindsAre == Kinds = {"frag_req", "frag_send", "meta_req", "meta_send"}
BY DEF Kinds, KindOrder

LEMMA StreamNumbers ==
  ASSUME NEW s, NEW b, NEW que, NEW push, NEW g, NEW k \in Kinds, StreamInOrder(s, b, que, push, g)
  PROVE  /\ s \in Seq(Package) /\ que[k] \in Seq(Nat) /\ push[k] \in Nat /\ g[k] \in Seq(Nat)
         /\ Len(que[k]) \in Nat /\ Len(g[k]) \in Nat /\ Taken(k, b, g) \in Nat
         /\ push[k] - Len(que[k]) \in Nat /\ Waiting(b) \in Nat
         /\ b \in Buffer /\ ItemsInOrder(k, s, b, que, push, g)
<1>1. que[k] \in Seq(Nat) /\ push[k] \in Nat /\ g[k] \in Seq(Nat) /\ s \in Seq(Package)
  BY DEF StreamInOrder, StreamType
<1>2. ItemsInOrder(k, s, b, que, push, g) /\ b \in Buffer
  BY DEF StreamInOrder, BufferInOrder
<1>3. Len(que[k]) \in Nat /\ Len(g[k]) \in Nat
  BY <1>1
<1>4. push[k] - Len(que[k]) \in Nat
  BY <1>1, <1>2, <1>3 DEF ItemsInOrder
<1>5. Taken(k, b, g) \in Nat /\ Waiting(b) \in Nat
  BY <1>2, <1>3 DEF Taken, Waiting, Buffer
<1> QED BY <1>1, <1>2, <1>3, <1>4, <1>5

(* Packages of the handshake are no items.                                 *)
InitTypes == {"init_req", "init_rsp"}

LEMMA InitIsNoItem ==
  ASSUME NEW k \in Kinds
  PROVE  Carrier(k) \notin InitTypes /\ Carrier(k) # "frag_rest"
BY KindsAre DEF Carrier, InitTypes

(* A package of the handshake is written.                                  *)
LEMMA WriteInit ==
  ASSUME NEW s, NEW b, NEW que, NEW push, NEW g, StreamInOrder(s, b, que, push, g),
         NEW x \in Seq(Package), \A i \in 1..Len(x) : x[i].type \in InitTypes
  PROVE  StreamInOrder(s \o x, b, que, push, g)
<1>1. ASSUME NEW k \in Kinds PROVE ItemsInOrder(k, s \o x, b, que, push, g)
  <2> DEFINE q == push[k] - Len(que[k])
  <2>1. q \in Nat /\ Taken(k, b, g) \in Nat /\ s \in Seq(Package) /\ ItemsInOrder(k, s, b, que, push, g)
    BY StreamNumbers
  <2>2. InOrder(x, Carrier(k), q, q)
    BY <2>1, InitIsNoItem, OrderNone
  <2>3. InOrder(s, Carrier(k), Taken(k, b, g), q)
    BY <2>1 DEF ItemsInOrder
  <2>4. InOrder(s \o x, Carrier(k), Taken(k, b, g), q)
    BY <2>1, <2>2, <2>3, OrderConcat
  <2> QED BY <2>1, <2>4 DEF ItemsInOrder
<1>2. s \in Seq(Package) /\ Waiting(b) \in Nat
  BY StreamNumbers, KindsAre
<1>3. Pieces(x, 0)
  BY PiecesNone DEF InitTypes
<1>4. Pieces(s \o x, Waiting(b))
  BY <1>2, <1>3, PiecesConcat DEF StreamInOrder
<1>5. s \o x \in Seq(Package)
  BY <1>2
<1> QED BY <1>1, <1>4, <1>5 DEF StreamInOrder, StreamType

(* An item is queued.                                                      *)
LEMMA Queue ==
  ASSUME NEW s, NEW b, NEW que, NEW push, NEW g, NEW k \in Kinds, StreamInOrder(s, b, que, push, g)
  PROVE  StreamInOrder(s, b, [que EXCEPT ![k] = Append(@, push[k] + 1)],
                             [push EXCEPT ![k] = @ + 1], g)
<1> DEFINE que2 == [que EXCEPT ![k] = Append(@, push[k] + 1)]
           push2 == [push EXCEPT ![k] = @ + 1]
<1>1. que \in [Kinds -> Seq(Nat)] /\ push \in [Kinds -> Nat]
  BY DEF StreamInOrder, StreamType
<1>2. que[k] \in Seq(Nat) /\ push[k] \in Nat /\ Len(que[k]) \in Nat /\ ItemsInOrder(k, s, b, que, push, g)
  BY StreamNumbers
<1>3. que2[k] = Append(que[k], push[k] + 1) /\ push2[k] = push[k] + 1
  BY <1>1
<1>4. \A l \in Kinds \ {k} : que2[l] = que[l] /\ push2[l] = push[l]
  BY <1>1
<1>5. /\ Len(que2[k]) = Len(que[k]) + 1 /\ que2[k][Len(que[k]) + 1] = push[k] + 1
      /\ \A i \in 1..Len(que[k]) : que2[k][i] = que[k][i]
      /\ que2[k] \in Seq(Nat)
  BY <1>2, <1>3
<1>6. que2 \in [Kinds -> Seq(Nat)] /\ push2 \in [Kinds -> Nat]
  BY <1>1, <1>2, <1>5
<1> HIDE DEF que2, push2
<1>7. ItemsInOrder(k, s, b, que2, push2, g)
  <2>1. push2[k] - Len(que2[k]) = push[k] - Len(que[k]) /\ Len(que2[k]) <= push2[k]
    BY <1>2, <1>3, <1>5 DEF ItemsInOrder
  <2>2. ASSUME NEW i \in 1..Len(que2[k]) PROVE que2[k][i] = push2[k] - Len(que2[k]) + i
    <3>1. CASE i = Len(que[k]) + 1
      BY <1>2, <1>3, <1>5, <3>1
    <3>2. CASE i \in 1..Len(que[k])
      <4>1. que[k][i] = push[k] - Len(que[k]) + i
        BY <1>2, <3>2 DEF ItemsInOrder
      <4> QED BY <1>5, <2>1, <3>2, <4>1
    <3> QED BY <1>2, <1>5, <3>1, <3>2
  <2> QED BY <1>2, <2>1, <2>2 DEF ItemsInOrder
<1>8. \A l \in Kinds \ {k} : ItemsInOrder(l, s, b, que2, push2, g)
  BY <1>4 DEF StreamInOrder, ItemsInOrder
<1>9. BufferInOrder(b, push2, g)
  <2>1. push["frag_send"] \in Nat /\ push["frag_send"] <= push2["frag_send"]
    BY <1>1, <1>3, <1>4, KindsAre
  <2>2. push2["frag_send"] \in Nat
    BY <1>6, KindsAre
  <2> QED BY <2>1, <2>2 DEF StreamInOrder, BufferInOrder, Buffer
<1>10. StreamInOrder(s, b, que2, push2, g)
  BY <1>6, <1>7, <1>8, <1>9 DEF StreamInOrder, StreamType
<1> QED BY <1>10 DEF que2, push2

(* A job writes what is queued of one kind, after a request to connect.    *)
LEMMA WriteQueue ==
  ASSUME NEW s, NEW b, NEW que, NEW push, NEW g, NEW k \in Kinds, StreamInOrder(s, b, que, push, g)
  PROVE  /\ StreamInOrder(s \o Packages(k, que[k]), b, [que EXCEPT ![k] = <<>>], push, g)
         /\ Packages(k, que[k]) \in Seq(Package)
         /\ \A i \in 1..Len(Packages(k, que[k])) : Packages(k, que[k])[i].type \notin InitTypes
<1> DEFINE que2 == [que EXCEPT ![k] = <<>>]
           x == Packages(k, que[k])
           q(l) == push[l] - Len(que[l])
<1>1. que \in [Kinds -> Seq(Nat)] /\ push \in [Kinds -> Nat] /\ s \in Seq(Package)
  BY DEF StreamInOrder, StreamType
<1>2. /\ que[k] \in Seq(Nat) /\ push[k] \in Nat /\ Len(que[k]) \in Nat
      /\ q(k) \in Nat /\ q(k) + Len(que[k]) = push[k]
      /\ ItemsInOrder(k, s, b, que, push, g) /\ Waiting(b) \in Nat
  <2>1. /\ que[k] \in Seq(Nat) /\ push[k] \in Nat /\ Len(que[k]) \in Nat /\ q(k) \in Nat
        /\ ItemsInOrder(k, s, b, que, push, g) /\ Waiting(b) \in Nat
    BY StreamNumbers
  <2> QED BY <2>1
<1>3. \A i \in 1..Len(que[k]) : que[k][i] = q(k) + i
  BY <1>2 DEF ItemsInOrder
<1>4. que2[k] = <<>> /\ \A l \in Kinds \ {k} : que2[l] = que[l]
  BY <1>1
<1>5. que2 \in [Kinds -> Seq(Nat)]
  BY <1>1
<1>6. x \in Seq(Package)
  BY <1>2, FragmentPackages, OtherPackages
<1>7. InOrder(x, Carrier(k), q(k), push[k])
  BY SMTT(30), <1>2, <1>3, FragmentsInOrder, OthersInOrder DEF Carrier
<1>8. Pieces(x, 0)
  <2>1. CASE k = "frag_send"
    BY <1>2, <1>3, <2>1, FragmentsInOrder
  <2>2. CASE k # "frag_send"
    <3>1. \A i \in 1..Len(x) : x[i].type = k
      BY <1>2, <1>3, <2>2, OthersInOrder
    <3>2. k \notin {"frag_rsp", "frag_rest"}
      BY KindsAre
    <3> QED BY <1>6, <3>1, <3>2, PiecesNone
  <2> QED BY <2>1, <2>2
<1>9. \A i \in 1..Len(x) : /\ x[i].type \notin InitTypes
                           /\ \A l \in Kinds \ {k} : x[i].type # Carrier(l)
  <2>1. CASE k = "frag_send"
    <3>1. \A i \in 1..Len(x) : x[i].type \in {"frag_rsp", "frag_rest"}
      BY <1>2, <1>3, <2>1, FragmentsInOrder
    <3> QED BY <2>1, <3>1, KindsAre DEF Carrier, InitTypes
  <2>2. CASE k # "frag_send"
    <3>1. \A i \in 1..Len(x) : x[i].type = k
      BY <1>2, <1>3, <2>2, OthersInOrder
    <3> QED BY <2>2, <3>1, KindsAre DEF Carrier, InitTypes
  <2> QED BY <2>1, <2>2
<1> HIDE DEF x, que2
<1>10. ItemsInOrder(k, s \o x, b, que2, push, g)
  <2>1. InOrder(s, Carrier(k), Taken(k, b, g), q(k)) /\ Taken(k, b, g) \in Nat
    BY <1>2, StreamNumbers DEF ItemsInOrder
  <2>2. InOrder(s \o x, Carrier(k), Taken(k, b, g), push[k])
    BY <1>1, <1>2, <1>6, <1>7, <2>1, OrderConcat
  <2>3. Len(que2[k]) = 0 /\ push[k] - Len(que2[k]) = push[k]
    BY <1>2, <1>4
  <2> QED BY <1>2, <2>2, <2>3 DEF ItemsInOrder
<1>11. ASSUME NEW l \in Kinds \ {k} PROVE ItemsInOrder(l, s \o x, b, que2, push, g)
  <2>1. ItemsInOrder(l, s, b, que, push, g) /\ Taken(l, b, g) \in Nat /\ q(l) \in Nat
    BY StreamNumbers
  <2>2. InOrder(x, Carrier(l), q(l), q(l))
    BY <1>6, <1>9, <2>1, OrderNone
  <2>3. InOrder(s, Carrier(l), Taken(l, b, g), q(l))
    BY <2>1 DEF ItemsInOrder
  <2>4. InOrder(s \o x, Carrier(l), Taken(l, b, g), q(l))
    BY <1>1, <1>6, <2>1, <2>2, <2>3, OrderConcat
  <2> QED BY <1>4, <2>1, <2>4 DEF ItemsInOrder
<1>12. Pieces(s \o x, Waiting(b))
  BY <1>1, <1>2, <1>6, <1>8, PiecesConcat DEF StreamInOrder
<1>13. s \o x \in Seq(Package)
  BY <1>1, <1>6
<1>14. StreamInOrder(s \o x, b, que2, push, g)
  BY <1>5, <1>10, <1>11, <1>12, <1>13 DEF StreamInOrder, StreamType
<1> QED BY <1>6, <1>9, <1>14 DEF x, que2

(* A package is read that is no piece of a fragment: an item goes to the   *)
(* handler, one of the handshake does not.                                 *)
LEMMA ReadInit ==
  ASSUME NEW s, NEW b, NEW que, NEW push, NEW g, StreamInOrder(s, b, que, push, g),
         s # <<>>, Head(s).type \in InitTypes
  PROVE  StreamInOrder(Tail(s), b, que, push, g)
<1>1. s \in Seq(Package) /\ Waiting(b) \in Nat
  BY StreamNumbers, KindsAre
<1>2. ASSUME NEW k \in Kinds PROVE ItemsInOrder(k, Tail(s), b, que, push, g)
  <2>1. /\ Taken(k, b, g) \in Nat /\ push[k] - Len(que[k]) \in Nat
        /\ ItemsInOrder(k, s, b, que, push, g)
    BY StreamNumbers
  <2>2. Head(s).type # Carrier(k)
    BY InitIsNoItem
  <2>3. InOrder(Tail(s), Carrier(k), Taken(k, b, g), push[k] - Len(que[k]))
    BY <1>1, <2>1, <2>2, OrderTail DEF ItemsInOrder
  <2> QED BY <2>1, <2>3 DEF ItemsInOrder
<1>3. Pieces(Tail(s), Waiting(b))
  <2>1. Head(s).type \notin {"frag_rest", "frag_rsp"}
    BY DEF InitTypes
  <2>2. Pieces(s, Waiting(b))
    BY DEF StreamInOrder
  <2>3. Waiting(b) = 0 /\ Pieces(Tail(s), 0)
    BY <1>1, <2>1, <2>2, PiecesTail
  <2> QED BY <2>3
<1>4. Tail(s) \in Seq(Package)
  BY <1>1, TailOf
<1> QED BY <1>2, <1>3, <1>4 DEF StreamInOrder, StreamType

(* What holds of the items of a kind after their next one was handed over. *)
LEMMA HandOver ==
  ASSUME NEW k \in Kinds, NEW gk \in Seq(Nat), \A i \in 1..Len(gk) : gk[i] = i,
         NEW v, v = Len(gk) + 1
  PROVE  /\ Append(gk, v) \in Seq(Nat) /\ Len(Append(gk, v)) = Len(gk) + 1
         /\ \A i \in 1..Len(Append(gk, v)) : Append(gk, v)[i] = i
<1>1. Len(gk) \in Nat /\ v \in Nat
  OBVIOUS
<1> QED BY <1>1

LEMMA ReadItem ==
  ASSUME NEW s, NEW b, NEW que, NEW push, NEW g, StreamInOrder(s, b, que, push, g),
         NEW k \in Kinds \ {"frag_send"}, s # <<>>, Head(s).type = k
  PROVE  StreamInOrder(Tail(s), b, que, push, [g EXCEPT ![k] = Append(@, Head(s).item)])
<1> DEFINE g2 == [g EXCEPT ![k] = Append(@, Head(s).item)]
<1>1. s \in Seq(Package) /\ Waiting(b) \in Nat /\ g \in [Kinds -> Seq(Nat)]
  BY StreamNumbers, KindsAre DEF StreamInOrder, StreamType
<1>2. /\ g[k] \in Seq(Nat) /\ Len(g[k]) \in Nat /\ push[k] - Len(que[k]) \in Nat
      /\ ItemsInOrder(k, s, b, que, push, g) /\ Taken(k, b, g) = Len(g[k]) /\ Carrier(k) = k
  BY StreamNumbers DEF Taken, Carrier
<1>3. /\ Head(s).item = Len(g[k]) + 1
      /\ InOrder(Tail(s), k, Len(g[k]) + 1, push[k] - Len(que[k]))
  BY <1>1, <1>2, OrderTail DEF ItemsInOrder
<1>4. g2[k] = Append(g[k], Head(s).item) /\ \A l \in Kinds \ {k} : g2[l] = g[l]
  BY <1>1
<1>5. g2[k] \in Seq(Nat) /\ Len(g2[k]) = Len(g[k]) + 1 /\ \A i \in 1..Len(g2[k]) : g2[k][i] = i
  BY <1>2, <1>3, <1>4, HandOver DEF ItemsInOrder
<1>6. g2 \in [Kinds -> Seq(Nat)]
  BY <1>1, <1>4, <1>5
<1> HIDE DEF g2
<1>7. ItemsInOrder(k, Tail(s), b, que, push, g2)
  BY <1>2, <1>3, <1>5 DEF ItemsInOrder, Taken
<1>8. ASSUME NEW l \in Kinds \ {k} PROVE ItemsInOrder(l, Tail(s), b, que, push, g2)
  <2>1. /\ Taken(l, b, g) \in Nat /\ push[l] - Len(que[l]) \in Nat
        /\ ItemsInOrder(l, s, b, que, push, g)
    BY StreamNumbers
  <2>2. Head(s).type # Carrier(l)
    BY KindsAre DEF Carrier
  <2>3. InOrder(Tail(s), Carrier(l), Taken(l, b, g), push[l] - Len(que[l]))
    BY <1>1, <2>1, <2>2, OrderTail DEF ItemsInOrder
  <2>4. Taken(l, b, g2) = Taken(l, b, g)
    BY <1>4 DEF Taken
  <2> QED BY <1>4, <2>1, <2>3, <2>4 DEF ItemsInOrder
<1>9. Pieces(Tail(s), Waiting(b))
  <2>1. Head(s).type \notin {"frag_rest", "frag_rsp"}
    BY KindsAre
  <2>2. Pieces(s, Waiting(b))
    BY DEF StreamInOrder
  <2>3. Waiting(b) = 0 /\ Pieces(Tail(s), 0)
    BY <1>1, <2>1, <2>2, PiecesTail
  <2> QED BY <2>3
<1>10. BufferInOrder(b, push, g2)
  BY <1>4, KindsAre DEF StreamInOrder, BufferInOrder
<1>11. Tail(s) \in Seq(Package)
  BY <1>1, TailOf
<1>12. StreamInOrder(Tail(s), b, que, push, g2)
  BY <1>6, <1>7, <1>8, <1>9, <1>10, <1>11 DEF StreamInOrder, StreamType
<1> QED BY <1>12 DEF g2

(* The buffer after a piece, and what the handlers were given: as in       *)
(* Complete.                                                               *)
Handed(b, g)  == IF b.left = 0 THEN [g EXCEPT !["frag_send"] = Append(@, b.id)] ELSE g
Emptied(b)    == IF b.left = 0 THEN [b EXCEPT !.some = FALSE] ELSE b

(* A piece is read; before it the stream b2 waits for is in order for the  *)
(* fragment of the buffer, with the piece taken.                           *)
LEMMA ReadPiece ==
  ASSUME NEW s, NEW b, NEW que, NEW push, NEW g, StreamInOrder(s, b, que, push, g),
         s # <<>>, Head(s).type \in {"frag_rsp", "frag_rest"},
         NEW b2 \in Buffer, b2.some, b2.left < FragmentPieces,
         b2.id = Len(g["frag_send"]) + 1, Pieces(Tail(s), b2.left),
         InOrder(Tail(s), "frag_rsp", Len(g["frag_send"]) + 1,
                 push["frag_send"] - Len(que["frag_send"]))
  PROVE  StreamInOrder(Tail(s), Emptied(b2), que, push, Handed(b2, g))
<1> DEFINE f == "frag_send"
           g2 == Handed(b2, g)
           e2 == Emptied(b2)
<1>1. s \in Seq(Package) /\ g \in [Kinds -> Seq(Nat)] /\ push \in [Kinds -> Nat] /\ f \in Kinds
  BY KindsAre DEF StreamInOrder, StreamType
<1>2. /\ g[f] \in Seq(Nat) /\ Len(g[f]) \in Nat /\ push[f] - Len(que[f]) \in Nat /\ push[f] \in Nat
      /\ Len(que[f]) \in Nat /\ ItemsInOrder(f, s, b, que, push, g)
  BY <1>1, StreamNumbers
<1>3. /\ e2 \in Buffer /\ e2.left = b2.left /\ e2.id = b2.id
      /\ b2.left # 0 => e2 = b2
      /\ b2.left = 0 => ~e2.some
  BY DEF Emptied, Buffer
<1>4. Len(g[f]) + 1 <= push[f]
  BY <1>2 DEF InOrder
<1>5. /\ g2 \in [Kinds -> Seq(Nat)] /\ \A l \in Kinds \ {f} : g2[l] = g[l]
      /\ \A i \in 1..Len(g2[f]) : g2[f][i] = i
      /\ b2.left = 0 => Len(g2[f]) = Len(g[f]) + 1
      /\ b2.left # 0 => g2 = g
  <2>1. CASE b2.left # 0
    BY <1>1, <1>2, <2>1 DEF Handed, ItemsInOrder
  <2>2. CASE b2.left = 0
    <3>1. g2 = [g EXCEPT ![f] = Append(@, b2.id)]
      BY <2>2 DEF Handed
    <3>2. g2[f] = Append(g[f], b2.id) /\ \A l \in Kinds \ {f} : g2[l] = g[l]
      BY <1>1, <3>1
    <3>3. g2[f] \in Seq(Nat) /\ Len(g2[f]) = Len(g[f]) + 1 /\ \A i \in 1..Len(g2[f]) : g2[f][i] = i
      BY <1>1, <1>2, <3>2, HandOver DEF ItemsInOrder
    <3>4. g2 \in [Kinds -> Seq(Nat)]
      BY <1>1, <3>1, <3>2, <3>3
    <3> QED BY <2>2, <3>2, <3>3, <3>4
  <2> QED BY <2>1, <2>2
<1> HIDE DEF g2, e2
<1>6. Taken(f, e2, g2) = Len(g[f]) + 1
  BY <1>3, <1>5 DEF Taken
<1>7. ItemsInOrder(f, Tail(s), e2, que, push, g2)
  BY <1>2, <1>5, <1>6 DEF ItemsInOrder, Carrier
<1>8. ASSUME NEW l \in Kinds \ {f} PROVE ItemsInOrder(l, Tail(s), e2, que, push, g2)
  <2>1. /\ Taken(l, b, g) \in Nat /\ push[l] - Len(que[l]) \in Nat
        /\ ItemsInOrder(l, s, b, que, push, g)
    BY StreamNumbers
  <2>2. Head(s).type # Carrier(l)
    BY KindsAre DEF Carrier
  <2>3. InOrder(Tail(s), Carrier(l), Taken(l, b, g), push[l] - Len(que[l]))
    BY <1>1, <2>1, <2>2, OrderTail DEF ItemsInOrder
  <2>4. Taken(l, e2, g2) = Taken(l, b, g)
    BY <1>5 DEF Taken
  <2> QED BY <1>5, <2>1, <2>3, <2>4 DEF ItemsInOrder
<1>9. Waiting(e2) = b2.left
  BY <1>3 DEF Waiting
<1>10. BufferInOrder(e2, push, g2)
  BY <1>1, <1>2, <1>3, <1>4, <1>5 DEF BufferInOrder, Buffer
<1>11. Tail(s) \in Seq(Package)
  BY <1>1, TailOf
<1>12. StreamInOrder(Tail(s), e2, que, push, g2)
  BY <1>5, <1>7, <1>8, <1>9, <1>10, <1>11 DEF StreamInOrder, StreamType
<1> QED BY <1>12 DEF g2, e2

(* The first piece comes to an empty buffer, a further one to one that     *)
(* waits for it.                                                           *)
LEMMA ReadPieces ==
  ASSUME NEW s, NEW b, NEW que, NEW push, NEW g, StreamInOrder(s, b, que, push, g), s # <<>>
  PROVE  /\ Head(s).type = "frag_rsp" =>
              LET b2 == [id |-> Head(s).item, left |-> FragmentPieces - 1, some |-> TRUE] IN
              ~b.some /\ StreamInOrder(Tail(s), Emptied(b2), que, push, Handed(b2, g))
         /\ Head(s).type = "frag_rest" =>
              LET b2 == [b EXCEPT !.left = @ - 1] IN
              b.some /\ StreamInOrder(Tail(s), Emptied(b2), que, push, Handed(b2, g))
<1> DEFINE f == "frag_send"
           q == push[f] - Len(que[f])
<1>1. /\ s \in Seq(Package) /\ f \in Kinds /\ b \in Buffer /\ Waiting(b) \in Nat /\ q \in Nat
      /\ Taken(f, b, g) \in Nat /\ Len(g[f]) \in Nat
      /\ ItemsInOrder(f, s, b, que, push, g)
  BY KindsAre, StreamNumbers
<1>2. Pieces(s, Waiting(b)) /\ InOrder(s, "frag_rsp", Taken(f, b, g), q) /\ BufferInOrder(b, push, g)
  BY <1>1 DEF StreamInOrder, ItemsInOrder, Carrier
<1>3. FragmentPieces - 1 \in Nat
  BY DataAssumption
<1>4. ASSUME Head(s).type = "frag_rsp"
      PROVE  LET b2 == [id |-> Head(s).item, left |-> FragmentPieces - 1, some |-> TRUE] IN
             ~b.some /\ StreamInOrder(Tail(s), Emptied(b2), que, push, Handed(b2, g))
  <2> DEFINE b2 == [id |-> Head(s).item, left |-> FragmentPieces - 1, some |-> TRUE]
  <2>1. Waiting(b) = 0 /\ Pieces(Tail(s), FragmentPieces - 1)
    BY <1>1, <1>2, <1>4, PiecesTail
  <2>2. ~b.some
    BY <1>1, <1>2, <2>1 DEF Waiting, BufferInOrder
  <2>3. Taken(f, b, g) = Len(g[f])
    BY <2>2 DEF Taken
  <2>4. Head(s).item = Len(g[f]) + 1 /\ InOrder(Tail(s), "frag_rsp", Len(g[f]) + 1, q)
    BY <1>1, <1>2, <1>4, <2>3, OrderTail
  <2>5. b2 \in Buffer /\ b2.some /\ b2.left = FragmentPieces - 1 /\ b2.id = Len(g[f]) + 1
    BY <1>1, <1>3, <2>4 DEF Buffer
  <2>6. b2.left < FragmentPieces /\ Pieces(Tail(s), b2.left)
    BY <1>3, <2>1, <2>5, DataAssumption
  <2> HIDE DEF b2
  <2>7. StreamInOrder(Tail(s), Emptied(b2), que, push, Handed(b2, g))
    BY <1>4, <2>4, <2>5, <2>6, ReadPiece
  <2> QED BY <2>2, <2>7 DEF b2
<1>5. ASSUME Head(s).type = "frag_rest"
      PROVE  LET b2 == [b EXCEPT !.left = @ - 1] IN
             b.some /\ StreamInOrder(Tail(s), Emptied(b2), que, push, Handed(b2, g))
  <2> DEFINE b2 == [b EXCEPT !.left = @ - 1]
  <2>1. Waiting(b) > 0 /\ Pieces(Tail(s), Waiting(b) - 1)
    BY <1>1, <1>2, <1>5, PiecesTail
  <2>2. b.some /\ Waiting(b) = b.left
    BY <2>1 DEF Waiting
  <2>3. Taken(f, b, g) = Len(g[f]) + 1
    BY <2>2 DEF Taken
  <2>4. InOrder(Tail(s), "frag_rsp", Len(g[f]) + 1, q)
    BY <1>1, <1>2, <1>5, <2>3, OrderTail
  <2>5. /\ b2 \in Buffer /\ b2.some /\ b2.left = b.left - 1 /\ b2.id = b.id
        /\ b.left \in Nat /\ b.id = Len(g[f]) + 1 /\ b.left < FragmentPieces
    BY SMTT(30), <1>1, <1>2, <2>1, <2>2 DEF Buffer, BufferInOrder
  <2>6. b2.left < FragmentPieces /\ Pieces(Tail(s), b2.left)
    <3>1. b2.left = Waiting(b) - 1
      BY <2>2, <2>5
    <3>2. b2.left < FragmentPieces
      BY <2>5, DataAssumption
    <3> QED BY <2>1, <3>1, <3>2
  <2> HIDE DEF b2
  <2>7. StreamInOrder(Tail(s), Emptied(b2), que, push, Handed(b2, g))
    BY <1>5, <2>4, <2>5, <2>6, ReadPiece
  <2> QED BY <2>2, <2>7 DEF b2
<1> QED BY <1>4, <1>5
------------------------------------------------------------------------------
(* The two nodes, and what an action changes                               *)

LEMMA TwoNodes ==
  ASSUME NEW n \in Nodes
  PROVE  /\ Other(n) \in Nodes /\ Other(n) # n /\ Nodes = {n, Other(n)}
         /\ Other(Other(n)) = n
<1>1. IsFiniteSet(Nodes) /\ Cardinality(Nodes) = 2
  BY NodesAssumption
<1>2. IsFiniteSet({n}) /\ Cardinality({n}) = 1
  BY FS_Singleton, Zenon
<1>3. PICK m \in Nodes : m # n
  <2>1. Nodes # {n}
    BY <1>1, <1>2
  <2> QED BY <2>1
<1>4. Nodes = {n, m}
  <2> DEFINE T == {n} \cup {m}
  <2>1. IsFiniteSet(T) /\ Cardinality(T) = IF m \in {n} THEN Cardinality({n}) ELSE Cardinality({n}) + 1
    BY <1>2, FS_AddElement, Zenon
  <2>2. T \in SUBSET Nodes /\ T = {n, m}
    OBVIOUS
  <2>3. Cardinality(Nodes) = Cardinality(T)
    BY <1>1, <1>2, <1>3, <2>1
  <2> HIDE DEF T
  <2>4. Cardinality(Nodes) = Cardinality(T) => Nodes = T
    BY <1>1, <2>2, FS_Subset, Zenon
  <2> QED BY <2>2, <2>3, <2>4
<1>5. Other(n) = m /\ Other(m) = n
  BY <1>3, <1>4 DEF Other
<1> QED BY <1>3, <1>4, <1>5

LEMMA Update ==
  ASSUME NEW S, NEW f \in [Nodes -> [Channels -> S]], NEW n \in Nodes, NEW c \in Channels,
         NEW v \in S
  PROVE  /\ [f EXCEPT ![n][c] = v] \in [Nodes -> [Channels -> S]]
         /\ \A m \in Nodes, d \in Channels :
              [f EXCEPT ![n][c] = v][m][d] = IF m = n /\ d = c THEN v ELSE f[m][d]
OBVIOUS

LEMMA Unchanged ==
  ASSUME NEW S, NEW f \in [Nodes -> [Channels -> S]], NEW n \in Nodes, NEW c \in Channels
  PROVE  f = [f EXCEPT ![n][c] = f[n][c]]
OBVIOUS

LEMMA StreamTypes ==
  ASSUME NEW s, NEW b, NEW que, NEW push, NEW g, StreamInOrder(s, b, que, push, g)
  PROVE  /\ s \in Seq(Package) /\ b \in Buffer /\ que \in [Kinds -> Seq(Nat)]
         /\ push \in [Kinds -> Nat] /\ g \in [Kinds -> Seq(Nat)]
BY DEF StreamInOrder, StreamType, BufferInOrder

(* A step that changes the stream from n on channel c and what belongs to  *)
(* it, and leaves it in order.                                             *)
LEMMA OneStream ==
  ASSUME DeliveryInv, NEW n \in Nodes, NEW c \in Channels,
         NEW s, NEW b, NEW que, NEW push, NEW g, StreamInOrder(s, b, que, push, g),
         sid' = sid, net' = [net EXCEPT ![n][c] = s], cache' = [cache EXCEPT ![Other(n)][c] = b],
         queue' = [queue EXCEPT ![n][c] = que], pushed' = [pushed EXCEPT ![n][c] = push],
         got' = [got EXCEPT ![n][c] = g]
  PROVE  DeliveryInv'
<1>1. /\ s \in Seq(Package) /\ b \in Buffer /\ que \in [Kinds -> Seq(Nat)]
      /\ push \in [Kinds -> Nat] /\ g \in [Kinds -> Seq(Nat)]
  BY StreamTypes
<1>2. Other(n) \in Nodes
  BY TwoNodes
<1>3. DeliveryType
  BY DEF DeliveryInv
<1>4. /\ net' \in [Nodes -> [Channels -> Seq(Package)]]
      /\ \A m \in Nodes, d \in Channels : net'[m][d] = IF m = n /\ d = c THEN s ELSE net[m][d]
  BY <1>1, <1>3, Update DEF DeliveryType
<1>5. /\ cache' \in [Nodes -> [Channels -> Buffer]]
      /\ \A m \in Nodes, d \in Channels :
            cache'[m][d] = IF m = Other(n) /\ d = c THEN b ELSE cache[m][d]
  BY <1>1, <1>2, <1>3, Update DEF DeliveryType
<1>6. /\ queue' \in [Nodes -> [Channels -> [Kinds -> Seq(Nat)]]]
      /\ \A m \in Nodes, d \in Channels : queue'[m][d] = IF m = n /\ d = c THEN que ELSE queue[m][d]
  BY <1>1, <1>3, Update DEF DeliveryType
<1>7. /\ pushed' \in [Nodes -> [Channels -> [Kinds -> Nat]]]
      /\ \A m \in Nodes, d \in Channels : pushed'[m][d] = IF m = n /\ d = c THEN push ELSE pushed[m][d]
  BY <1>1, <1>3, Update DEF DeliveryType
<1>8. /\ got' \in [Nodes -> [Channels -> [Kinds -> Seq(Nat)]]]
      /\ \A m \in Nodes, d \in Channels : got'[m][d] = IF m = n /\ d = c THEN g ELSE got[m][d]
  BY <1>1, <1>3, Update DEF DeliveryType
<1>9. ASSUME NEW m \in Nodes, NEW d \in Channels PROVE StreamAt(m, d)'
  <2>1. Other(m) \in Nodes /\ (Other(m) = Other(n) <=> m = n)
    BY TwoNodes
  <2>2. CASE m = n /\ d = c
    <3>1. /\ net'[m][d] = s /\ cache'[Other(m)][d] = b /\ queue'[m][d] = que
          /\ pushed'[m][d] = push /\ got'[m][d] = g
      BY <1>4, <1>5, <1>6, <1>7, <1>8, <2>1, <2>2
    <3> QED BY <3>1 DEF StreamAt
  <2>3. CASE ~(m = n /\ d = c)
    <3>1. /\ net'[m][d] = net[m][d] /\ cache'[Other(m)][d] = cache[Other(m)][d]
          /\ queue'[m][d] = queue[m][d] /\ pushed'[m][d] = pushed[m][d] /\ got'[m][d] = got[m][d]
      BY <1>4, <1>5, <1>6, <1>7, <1>8, <2>1, <2>3
    <3>2. StreamAt(m, d)
      BY DEF DeliveryInv
    <3> QED BY <3>1, <3>2 DEF StreamAt
  <2> QED BY <2>2, <2>3
<1> QED BY <1>3, <1>4, <1>5, <1>6, <1>7, <1>8, <1>9 DEF DeliveryInv, DeliveryType

(* In every step the parts that an action leaves alone are as they were.   *)
LEMMA Parts ==
  ASSUME DeliveryInv, NEW n \in Nodes, NEW c \in Channels
  PROVE  /\ StreamAt(n, c) /\ Other(n) \in Nodes
         /\ net = [net EXCEPT ![n][c] = net[n][c]]
         /\ cache = [cache EXCEPT ![Other(n)][c] = cache[Other(n)][c]]
         /\ queue = [queue EXCEPT ![n][c] = queue[n][c]]
         /\ pushed = [pushed EXCEPT ![n][c] = pushed[n][c]]
         /\ got = [got EXCEPT ![n][c] = got[n][c]]
<1>1. StreamAt(n, c) /\ DeliveryType /\ Other(n) \in Nodes
  BY TwoNodes DEF DeliveryInv
<1>2. net = [net EXCEPT ![n][c] = net[n][c]]
  BY <1>1, Unchanged DEF DeliveryType
<1>3. cache = [cache EXCEPT ![Other(n)][c] = cache[Other(n)][c]]
  BY <1>1, Unchanged DEF DeliveryType
<1>4. queue = [queue EXCEPT ![n][c] = queue[n][c]]
  BY <1>1, Unchanged DEF DeliveryType
<1>5. pushed = [pushed EXCEPT ![n][c] = pushed[n][c]]
  BY <1>1, Unchanged DEF DeliveryType
<1>6. got = [got EXCEPT ![n][c] = got[n][c]]
  BY <1>1, Unchanged DEF DeliveryType
<1> QED BY <1>1, <1>2, <1>3, <1>4, <1>5, <1>6

LEMMA OperationDelivers ==
  ASSUME DeliveryInv, NEW n \in Nodes, NEW c \in Channels, NEW k \in Kinds, Operation(n, c, k)
  PROVE  DeliveryInv'
<1> DEFINE que == [queue[n][c] EXCEPT ![k] = Append(@, pushed[n][c][k] + 1)]
           push == [pushed[n][c] EXCEPT ![k] = @ + 1]
<1>1. StreamInOrder(net[n][c], cache[Other(n)][c], que, push, got[n][c])
  BY Parts, Queue DEF StreamAt
<1>2. sid' = sid /\ queue' = [queue EXCEPT ![n][c] = que] /\ pushed' = [pushed EXCEPT ![n][c] = push]
  BY DEF Operation, links
<1>3. /\ net' = [net EXCEPT ![n][c] = net[n][c]]
      /\ cache' = [cache EXCEPT ![Other(n)][c] = cache[Other(n)][c]]
      /\ got' = [got EXCEPT ![n][c] = got[n][c]]
  BY Parts DEF Operation, links
<1> HIDE DEF que, push
<1> QED BY <1>1, <1>2, <1>3, OneStream, Zenon

LEMMA RunJobDelivers ==
  ASSUME DeliveryInv, NEW n \in Nodes, NEW c \in Channels, RunJob(n, c)
  PROVE  /\ DeliveryInv'
         /\ \E x \in Seq(Package) :
              /\ net' = [net EXCEPT ![n][c] = net[n][c] \o (InitReq(n, c) \o x)]
              /\ \A i \in 1..Len(x) : x[i].type \notin InitTypes
         /\ InitReq(n, c) \in Seq(Package)
<1> DEFINE s == net[n][c]
           b == cache[Other(n)][c]
           x0 == InitReq(n, c)
<1>1. /\ sid' = sid /\ cache' = [cache EXCEPT ![Other(n)][c] = b]
      /\ pushed' = [pushed EXCEPT ![n][c] = pushed[n][c]] /\ got' = [got EXCEPT ![n][c] = got[n][c]]
  BY Parts DEF RunJob, links, history
<1>2. x0 \in Seq(Package) /\ \A i \in 1..Len(x0) : x0[i].type \in InitTypes
  <2>1. CASE x0 = <<>>
    BY <2>1
  <2>2. CASE x0 = <<Msg("init_req", sid[n])>>
    <3>1. Msg("init_req", sid[n]) \in Package /\ Msg("init_req", sid[n]).type \in InitTypes
      BY DEF Msg, Package, MsgTypes, InitTypes, DeliveryInv, DeliveryType
    <3> HIDE DEF x0
    <3>2. Len(x0) = 1 /\ x0[1] = Msg("init_req", sid[n])
      BY <2>2
    <3> QED BY <2>2, <3>1, <3>2
  <2> QED BY <2>1, <2>2 DEF InitReq
<1>3. StreamInOrder(s, b, queue[n][c], pushed[n][c], got[n][c]) /\ s \in Seq(Package)
  BY Parts, StreamTypes DEF StreamAt
<1>4. StreamInOrder(s \o x0, b, queue[n][c], pushed[n][c], got[n][c])
  BY <1>2, <1>3, WriteInit
<1> HIDE DEF s, b, x0
<1>5. CASE net' = [net EXCEPT ![n][c] = s \o x0] /\ UNCHANGED queue
  <2>1. queue' = [queue EXCEPT ![n][c] = queue[n][c]]
    BY <1>5, Parts
  <2>2. net' = [net EXCEPT ![n][c] = s \o x0]
    BY <1>5
  <2>4. DeliveryInv'
    BY <1>1, <1>4, <2>1, <2>2, OneStream, Zenon DEF b
  <2>3. net' = [net EXCEPT ![n][c] = s \o (x0 \o <<>>)] /\ <<>> \in Seq(Package)
    <3>1. x0 \o <<>> = x0
      BY <1>2
    <3> QED BY <1>5, <3>1
  <2>5. \A i \in 1..Len(<<>>) : <<>>[i].type \notin InitTypes
    OBVIOUS
  <2>6. \E x \in Seq(Package) :
           /\ net' = [net EXCEPT ![n][c] = s \o (x0 \o x)]
           /\ \A i \in 1..Len(x) : x[i].type \notin InitTypes
    BY <2>3, <2>5, Zenon
  <2> QED BY <1>2, <2>4, <2>6 DEF s, x0
<1>6. ASSUME NEW k \in Kinds,
             net' = [net EXCEPT ![n][c] = s \o (x0 \o Packages(k, queue[n][c][k]))],
             queue' = [queue EXCEPT ![n][c] = [queue[n][c] EXCEPT ![k] = <<>>]]
      PROVE  /\ DeliveryInv'
             /\ \E x \in Seq(Package) :
                  /\ net' = [net EXCEPT ![n][c] = s \o (x0 \o x)]
                  /\ \A i \in 1..Len(x) : x[i].type \notin InitTypes
  <2> DEFINE x == Packages(k, queue[n][c][k])
             que == [queue[n][c] EXCEPT ![k] = <<>>]
  <2>1. /\ StreamInOrder((s \o x0) \o x, b, que, pushed[n][c], got[n][c])
        /\ x \in Seq(Package) /\ \A i \in 1..Len(x) : x[i].type \notin InitTypes
    BY <1>4, WriteQueue
  <2>2. net' = [net EXCEPT ![n][c] = s \o (x0 \o x)] /\ queue' = [queue EXCEPT ![n][c] = que]
    BY <1>6
  <2> HIDE DEF x, que
  <2>3. (s \o x0) \o x = s \o (x0 \o x)
    BY <1>2, <1>3, <2>1
  <2>4. StreamInOrder(s \o (x0 \o x), b, que, pushed[n][c], got[n][c])
    BY <2>1, <2>3
  <2>5. DeliveryInv'
    BY <1>1, <2>2, <2>4, OneStream DEF b
  <2> QED BY <2>1, <2>2, <2>5
<1>7. \/ net' = [net EXCEPT ![n][c] = s \o x0] /\ UNCHANGED queue
      \/ \E k \in Kinds :
           /\ net' = [net EXCEPT ![n][c] = s \o (x0 \o Packages(k, queue[n][c][k]))]
           /\ queue' = [queue EXCEPT ![n][c] = [queue[n][c] EXCEPT ![k] = <<>>]]
  <2>1. \A i \in Nonempty(n, c) : KindOrder[i] \in Kinds
    BY DEF Nonempty, Kinds
  <2> QED BY <2>1 DEF RunJob, Send, s, x0
<1> QED BY <1>2, <1>5, <1>6, <1>7 DEF s, x0

(* What n reads is the stream of the other.                                *)
LEMMA Reads ==
  ASSUME DeliveryInv, NEW n \in Nodes, NEW c \in Channels
  PROVE  LET o == Other(n) IN
         /\ o \in Nodes /\ o # n /\ Other(o) = n /\ net[o][c] \in Seq(Package)
         /\ StreamInOrder(net[o][c], cache[n][c], queue[o][c], pushed[o][c], got[o][c])
<1> DEFINE o == Other(n)
<1>1. o \in Nodes /\ o # n /\ Other(o) = n
  BY TwoNodes
<1> HIDE DEF o
<1>2. StreamAt(o, c)
  BY <1>1 DEF DeliveryInv
<1>3. StreamInOrder(net[o][c], cache[n][c], queue[o][c], pushed[o][c], got[o][c])
  BY <1>1, <1>2 DEF StreamAt
<1>4. net[o][c] \in Seq(Package)
  BY <1>3, StreamTypes
<1> QED BY <1>1, <1>3, <1>4 DEF o

LEMMA RecvSimpleDelivers ==
  ASSUME DeliveryInv, NEW n \in Nodes, NEW c \in Channels, NEW k \in Kinds \ {"frag_send"},
         RecvSimple(n, c, k)
  PROVE  DeliveryInv'
<1> DEFINE o == Other(n)
           s == net[o][c]
           g == [got[o][c] EXCEPT ![k] = Append(@, Head(s).item)]
<1>1. /\ o \in Nodes /\ Other(o) = n
      /\ StreamInOrder(s, cache[n][c], queue[o][c], pushed[o][c], got[o][c])
  BY Reads
<1>2. s # <<>> /\ Head(s).type = k
  BY DEF RecvSimple, Arrived
<1>3. StreamInOrder(Tail(s), cache[Other(o)][c], queue[o][c], pushed[o][c], g)
  BY <1>1, <1>2, ReadItem
<1>4. sid' = sid /\ net' = [net EXCEPT ![o][c] = Tail(s)] /\ got' = [got EXCEPT ![o][c] = g]
  BY DEF RecvSimple, Consume, Item, links
<1>5. /\ cache' = [cache EXCEPT ![Other(o)][c] = cache[Other(o)][c]]
      /\ queue' = [queue EXCEPT ![o][c] = queue[o][c]]
      /\ pushed' = [pushed EXCEPT ![o][c] = pushed[o][c]]
  <2> HIDE DEF o
  <2> QED BY <1>1, Parts DEF RecvSimple, links
<1> HIDE DEF o, s, g
<1> QED BY <1>1, <1>3, <1>4, <1>5, OneStream, Zenon

ItemsKept == UNCHANGED <<sid, cache, queue, pushed, got>>

LEMMA ConsumeDelivers ==
  ASSUME DeliveryInv, NEW n \in Nodes, NEW c \in Channels, ItemsKept,
         Arrived(n, c, "init_rsp") \/ Arrived(n, c, "init_req"), Consume(n, c)
  PROVE  DeliveryInv'
<1> DEFINE o == Other(n)
           s == net[o][c]
<1>1. /\ o \in Nodes /\ Other(o) = n
      /\ StreamInOrder(s, cache[n][c], queue[o][c], pushed[o][c], got[o][c])
  BY Reads
<1>2. s # <<>> /\ Head(s).type \in InitTypes
  BY DEF Arrived, InitTypes
<1>3. StreamInOrder(Tail(s), cache[Other(o)][c], queue[o][c], pushed[o][c], got[o][c])
  BY <1>1, <1>2, ReadInit
<1>4. sid' = sid /\ net' = [net EXCEPT ![o][c] = Tail(s)]
  BY DEF Consume, ItemsKept
<1>5. /\ cache' = [cache EXCEPT ![Other(o)][c] = cache[Other(o)][c]]
      /\ queue' = [queue EXCEPT ![o][c] = queue[o][c]]
      /\ pushed' = [pushed EXCEPT ![o][c] = pushed[o][c]]
      /\ got' = [got EXCEPT ![o][c] = got[o][c]]
  <2> HIDE DEF o
  <2> QED BY <1>1, Parts DEF ItemsKept
<1> HIDE DEF o, s
<1> QED BY <1>1, <1>3, <1>4, <1>5, OneStream, Zenon

(* A request is answered: the streams of both change.                      *)
LEMMA ReplyDelivers ==
  ASSUME DeliveryInv, NEW n \in Nodes, NEW c \in Channels, ItemsKept,
         Arrived(n, c, "init_req"), Reply(n, c, Msg("init_rsp", 0))
  PROVE  /\ DeliveryInv'
         /\ \A m \in Nodes, d \in Channels :
              net'[m][d] = IF m = n /\ d = c THEN net[n][c] \o <<Msg("init_rsp", 0)>>
                           ELSE IF d = c THEN Tail(net[m][d]) ELSE net[m][d]
<1> DEFINE o == Other(n)
           s == net[o][c]
           x == <<Msg("init_rsp", 0)>>
<1>1. /\ o \in Nodes /\ Other(o) = n /\ o # n /\ s \in Seq(Package) /\ Nodes = {n, o}
      /\ StreamInOrder(s, cache[n][c], queue[o][c], pushed[o][c], got[o][c])
  BY Reads, TwoNodes
<1>2. s # <<>> /\ Head(s).type \in InitTypes
  BY DEF Arrived, InitTypes
<1>3. StreamInOrder(Tail(s), cache[n][c], queue[o][c], pushed[o][c], got[o][c])
  BY <1>1, <1>2, ReadInit
<1>4. StreamInOrder(net[n][c], cache[o][c], queue[n][c], pushed[n][c], got[n][c])
  BY DEF DeliveryInv, StreamAt
<1>5. x \in Seq(Package) /\ \A i \in 1..Len(x) : x[i].type \in InitTypes
  <2>1. Msg("init_rsp", 0) \in Package /\ Msg("init_rsp", 0).type \in InitTypes
    BY DEF Msg, Package, MsgTypes, InitTypes
  <2> HIDE DEF x
  <2>2. x = <<Msg("init_rsp", 0)>> /\ Len(x) = 1 /\ x[1] = Msg("init_rsp", 0)
    BY DEF x
  <2> QED BY <2>1, <2>2
<1>6. StreamInOrder(net[n][c] \o x, cache[o][c], queue[n][c], pushed[n][c], got[n][c])
  BY <1>4, <1>5, WriteInit
<1>7. net[n][c] \in Seq(Package) /\ Tail(s) \in Seq(Package) /\ net[n][c] \o x \in Seq(Package)
  BY <1>3, <1>4, <1>6, StreamTypes
<1>8. net \in [Nodes -> [Channels -> Seq(Package)]] /\ DeliveryType
  BY DEF DeliveryInv, DeliveryType
<1>9. PICK mid : mid = [net EXCEPT ![o][c] = Tail(s)]
  OBVIOUS
<1> HIDE DEF s
<1>10. /\ mid \in [Nodes -> [Channels -> Seq(Package)]]
       /\ \A m \in Nodes, d \in Channels : mid[m][d] = IF m = o /\ d = c THEN Tail(s) ELSE net[m][d]
  <2> HIDE DEF o
  <2> QED BY SMTT(30), <1>1, <1>7, <1>8, <1>9, Update
<1>11. net' = [mid EXCEPT ![n][c] = net[n][c] \o x]
  <2>1. net' = [net EXCEPT ![o][c] = Tail(s), ![n][c] = Append(net[n][c], Msg("init_rsp", 0))]
    BY Zenon DEF Reply, s
  <2>2. Msg("init_rsp", 0) \in Package
    BY DEF Msg, Package, MsgTypes
  <2>3. Append(net[n][c], Msg("init_rsp", 0)) = net[n][c] \o x
    BY <1>7, <2>2, AppendIs
  <2> HIDE DEF x
  <2>4. net' = [net EXCEPT ![o][c] = Tail(s), ![n][c] = net[n][c] \o x]
    BY <2>1, <2>3
  <2> QED BY <1>9, <2>4
<1> HIDE DEF x
<1>12. /\ net' \in [Nodes -> [Channels -> Seq(Package)]]
       /\ \A m \in Nodes, d \in Channels :
            net'[m][d] = IF m = n /\ d = c THEN net[n][c] \o x ELSE mid[m][d]
  BY <1>7, <1>10, <1>11, Update
<1> HIDE DEF o
<1>13. \A m \in Nodes, d \in Channels :
          net'[m][d] = IF m = n /\ d = c THEN net[n][c] \o x
                       ELSE IF d = c THEN Tail(net[m][d]) ELSE net[m][d]
  <2> SUFFICES ASSUME NEW m \in Nodes, NEW d \in Channels
               PROVE  net'[m][d] = IF m = n /\ d = c THEN net[n][c] \o x
                                   ELSE IF d = c THEN Tail(net[m][d]) ELSE net[m][d]
    OBVIOUS
  <2>1. net'[m][d] = IF m = n /\ d = c THEN net[n][c] \o x ELSE mid[m][d]
    BY <1>12
  <2>2. mid[m][d] = IF m = o /\ d = c THEN Tail(s) ELSE net[m][d]
    BY <1>10
  <2>3. m = n \/ m = o
    BY <1>1
  <2> QED BY <2>1, <2>2, <2>3 DEF s
<1>14. ASSUME NEW m \in Nodes, NEW d \in Channels PROVE StreamAt(m, d)'
  <2>1. StreamAt(m, d)
    BY DEF DeliveryInv
  <2>2. CASE d # c
    <3>1. net'[m][d] = net[m][d]
      BY <1>13, <2>2
    <3> QED BY <2>1, <3>1 DEF StreamAt, ItemsKept
  <2>3. CASE d = c /\ m = n
    <3>1. net'[m][d] = net[n][c] \o x /\ Other(m) = o
      BY <1>13, <2>3 DEF o
    <3> QED BY <1>6, <2>3, <3>1 DEF StreamAt, ItemsKept
  <2>4. CASE d = c /\ m = o
    <3>1. net'[m][d] = Tail(s) /\ Other(m) = n
      BY <1>1, <1>13, <2>4 DEF s
    <3> QED BY <1>3, <2>4, <3>1 DEF StreamAt, ItemsKept
  <2> QED BY <1>1, <2>2, <2>3, <2>4
<1> QED BY <1>8, <1>12, <1>13, <1>14 DEF DeliveryInv, DeliveryType, ItemsKept, x

LEMMA RecvPieceDelivers ==
  ASSUME DeliveryInv, NEW n \in Nodes, NEW c \in Channels, RecvFragment(n, c) \/ RecvRest(n, c)
  PROVE  DeliveryInv'
<1> DEFINE o == Other(n)
           s == net[o][c]
           b == cache[n][c]
           g == got[o][c]
           b1 == [id |-> Head(s).item, left |-> FragmentPieces - 1, some |-> TRUE]
           b2 == [b EXCEPT !.left = @ - 1]
<1>1. /\ o \in Nodes /\ Other(o) = n /\ s # <<>>
      /\ StreamInOrder(s, b, queue[o][c], pushed[o][c], g)
  BY Reads DEF RecvFragment, RecvRest, Arrived
<1>2. /\ Head(s).type = "frag_rsp" =>
           ~b.some /\ StreamInOrder(Tail(s), Emptied(b1), queue[o][c], pushed[o][c], Handed(b1, g))
      /\ Head(s).type = "frag_rest" =>
           b.some /\ StreamInOrder(Tail(s), Emptied(b2), queue[o][c], pushed[o][c], Handed(b2, g))
  BY <1>1, ReadPieces
<1>3. /\ sid' = sid /\ net' = [net EXCEPT ![o][c] = Tail(s)]
      /\ queue' = [queue EXCEPT ![o][c] = queue[o][c]]
      /\ pushed' = [pushed EXCEPT ![o][c] = pushed[o][c]]
  <2>1. sid' = sid /\ net' = [net EXCEPT ![o][c] = Tail(s)] /\ queue' = queue /\ pushed' = pushed
    BY DEF RecvFragment, RecvRest, Consume, links
  <2> HIDE DEF o
  <2> QED BY <1>1, <2>1, Parts
<1>4. ASSUME NEW e, Complete(n, c, e),
             StreamInOrder(Tail(s), Emptied(e), queue[o][c], pushed[o][c], Handed(e, g))
      PROVE  DeliveryInv'
  <2>1. cache' = [cache EXCEPT ![Other(o)][c] = Emptied(e)]
    BY <1>1, <1>4 DEF Complete, Emptied
  <2>2. got' = [got EXCEPT ![o][c] = Handed(e, g)]
    <3>1. CASE e.left = 0
      BY <1>4, <3>1 DEF Complete, Handed
    <3>2. CASE e.left # 0
      <4>1. got' = got /\ Handed(e, g) = g
        BY <1>4, <3>2 DEF Complete, Handed
      <4> HIDE DEF o
      <4> QED BY <1>1, <4>1, Parts
    <3> QED BY <3>1, <3>2
  <2> HIDE DEF o, s, g
  <2> QED BY <1>1, <1>3, <1>4, <2>1, <2>2, OneStream, Zenon
<1>5. CASE RecvFragment(n, c)
  <2>1. Head(s).type = "frag_rsp"
    BY <1>5 DEF RecvFragment, Arrived
  <2>2. Complete(n, c, b1)
    BY <1>2, <1>5, <2>1 DEF RecvFragment, Item
  <2> QED BY <1>2, <1>4, <2>1, <2>2
<1>6. CASE RecvRest(n, c)
  <2>1. Head(s).type = "frag_rest"
    BY <1>6 DEF RecvRest, Arrived
  <2>2. Complete(n, c, b2)
    BY <1>2, <1>6, <2>1 DEF RecvRest
  <2> QED BY <1>2, <1>4, <2>1, <2>2
<1> QED BY <1>5, <1>6

LEMMA DeliveryInductive ==
  ASSUME DeliveryInv, [Next]_vars
  PROVE  DeliveryInv'
<1>1. ASSUME UNCHANGED <<net, queue>>, ItemsKept PROVE DeliveryInv'
  BY <1>1 DEF ItemsKept, DeliveryInv, DeliveryType, StreamAt
<1>2. ASSUME NEW n \in Nodes, ConnectToPeer(n) \/ UnknownPacket(n) PROVE DeliveryInv'
  BY <1>1, <1>2 DEF ConnectToPeer, UnknownPacket, history, ItemsKept
<1>3. ASSUME NEW n \in Nodes, NEW c \in Channels, Coroutine(n, c) PROVE DeliveryInv'
  <2>1. CASE Start(n, c)
    BY <1>1, <2>1 DEF Start, history, ItemsKept
  <2>2. CASE RunJob(n, c)
    BY <2>2, RunJobDelivers
  <2>3. CASE RecvInitReq(n, c)
    <3>1. /\ ItemsKept /\ Arrived(n, c, "init_req")
          /\ Consume(n, c) \/ Reply(n, c, Msg("init_rsp", 0))
      BY <2>3 DEF RecvInitReq, history, links, ItemsKept
    <3> QED BY <3>1, ConsumeDelivers, ReplyDelivers
  <2>4. CASE RecvInitRsp(n, c)
    <3>1. ItemsKept /\ Arrived(n, c, "init_rsp") /\ Consume(n, c)
      BY <2>4 DEF RecvInitRsp, history, ItemsKept
    <3> QED BY <3>1, ConsumeDelivers
  <2>5. CASE RecvFragment(n, c) \/ RecvRest(n, c)
    BY <2>5, RecvPieceDelivers
  <2>6. ASSUME NEW k \in Kinds \ {"frag_send"}, RecvSimple(n, c, k) PROVE DeliveryInv'
    BY <2>6, RecvSimpleDelivers
  <2> QED BY <1>3, <2>1, <2>2, <2>3, <2>4, <2>5, <2>6 DEF Coroutine
<1>4. ASSUME NEW n \in Nodes, NEW c \in Channels, NEW k \in OpKinds, Operation(n, c, k)
      PROVE  DeliveryInv'
  <2>1. k \in Kinds
    BY KindsAssumption
  <2> QED BY <1>4, <2>1, OperationDelivers
<1>5. CASE UNCHANGED vars
  BY <1>1, <1>5 DEF vars, links, history, ItemsKept
<1> QED BY <1>2, <1>3, <1>4, <1>5 DEF Next

LEMMA DeliveryInit == Init => DeliveryInv
<1> SUFFICES ASSUME Init PROVE DeliveryInv
  OBVIOUS
<1> DEFINE none == [k \in Kinds |-> <<>>]
           zero == [k \in Kinds |-> 0]
<1>1. /\ none \in [Kinds -> Seq(Nat)] /\ zero \in [Kinds -> Nat] /\ NoCache \in Buffer
      /\ <<>> \in Seq(Package)
  BY DEF NoCache, Buffer
<1>2. /\ net = [n \in Nodes |-> [c \in Channels |-> <<>>]]
      /\ cache = [n \in Nodes |-> [c \in Channels |-> NoCache]]
      /\ queue = [n \in Nodes |-> [c \in Channels |-> none]]
      /\ pushed = [n \in Nodes |-> [c \in Channels |-> zero]]
      /\ got = [n \in Nodes |-> [c \in Channels |-> none]]
      /\ sid \in [Nodes -> Nat]
  BY DataAssumption DEF Init, PerChannel, PerKind
<1>3. StreamInOrder(<<>>, NoCache, none, zero, none)
  <2>1. \A k \in Kinds : none[k] = <<>> /\ zero[k] = 0 /\ Len(none[k]) = 0
    OBVIOUS
  <2> HIDE DEF none, zero
  <2>2. \A t : InOrder(<<>>, t, 0, 0)
    BY DEF InOrder
  <2>3. Waiting(NoCache) = 0 /\ Pieces(<<>>, 0)
    BY DEF Waiting, NoCache, Pieces
  <2>4. BufferInOrder(NoCache, zero, none)
    BY <1>1, <2>1, DataAssumption, KindsAre DEF BufferInOrder, NoCache
  <2>5. ASSUME NEW k \in Kinds PROVE ItemsInOrder(k, <<>>, NoCache, none, zero, none)
    <3>1. none[k] = <<>> /\ zero[k] = 0 /\ Len(none[k]) = 0
      BY <2>1
    <3>2. ~NoCache.some
      BY DEF NoCache
    <3>3. Taken(k, NoCache, none) = 0
      BY <3>1, <3>2, Zenon DEF Taken
    <3>4. zero[k] - Len(none[k]) = 0
      <4>1. 0 - 0 = 0
        OBVIOUS
      <4> QED BY <3>1, <4>1, Zenon
    <3>5. InOrder(<<>>, Carrier(k), Taken(k, NoCache, none), zero[k] - Len(none[k]))
      BY <2>2, <3>3, <3>4, Zenon
    <3>6. /\ \A i \in 1..Len(none[k]) : none[k][i] = i
          /\ Len(none[k]) <= zero[k]
          /\ \A i \in 1..Len(none[k]) : none[k][i] = zero[k] - Len(none[k]) + i
      BY <3>1
    <3> QED BY <3>5, <3>6, Zenon DEF ItemsInOrder
  <2> QED BY <1>1, <2>3, <2>4, <2>5 DEF StreamInOrder, StreamType
<1> HIDE DEF none, zero
<1>4. ASSUME NEW n \in Nodes, NEW c \in Channels PROVE StreamAt(n, c)
  <2>1. Other(n) \in Nodes
    BY TwoNodes
  <2> QED BY <1>2, <1>3, <2>1 DEF StreamAt
<1>5. DeliveryType
  BY <1>1, <1>2 DEF DeliveryType
<1> QED BY <1>4, <1>5 DEF DeliveryInv

LEMMA DeliveryCorrect == Spec => []DeliveryInv
BY DeliveryInit, DeliveryInductive, PTL DEF Spec

(* The handlers of a channel are given each kind of item in the order it   *)
(* was queued, each once and under its own number: for any order of the    *)
(* jobs, operations before the coroutine runs, and fragments of any number *)
(* of pieces, whatever of the handshake comes in between.                  *)
THEOREM Delivered == Spec => []DeliveredInOrder
<1>1. DeliveryInv => DeliveredInOrder
  <2> SUFFICES ASSUME DeliveryInv, NEW n \in Nodes, NEW c \in Channels, NEW k \in Kinds
               PROVE  /\ Len(got[n][c][k]) <= pushed[n][c][k]
                      /\ \A i \in 1..Len(got[n][c][k]) : got[n][c][k][i] = i
    BY DEF DeliveredInOrder
  <2> DEFINE s == net[n][c]
             b == cache[Other(n)][c]
             que == queue[n][c]
             push == pushed[n][c]
             g == got[n][c]
  <2>1. StreamInOrder(s, b, que, push, g)
    BY DEF DeliveryInv, StreamAt
  <2> HIDE DEF s, b, que, push, g
  <2>2. /\ Len(que[k]) \in Nat /\ Len(g[k]) \in Nat /\ push[k] \in Nat /\ Taken(k, b, g) \in Nat
        /\ ItemsInOrder(k, s, b, que, push, g)
    BY <2>1, StreamNumbers
  <2>3. Taken(k, b, g) <= push[k] - Len(que[k]) /\ Len(g[k]) <= Taken(k, b, g)
    BY <2>2 DEF ItemsInOrder, InOrder, Taken
  <2>4. Len(g[k]) <= push[k] /\ \A i \in 1..Len(g[k]) : g[k][i] = i
    BY <2>2, <2>3 DEF ItemsInOrder
  <2> QED BY <2>4 DEF g, push
<1> QED BY <1>1, DeliveryCorrect, PTL
------------------------------------------------------------------------------
(* The handshake                                                           *)

(* Who compared a request with its session and took it is of one session   *)
(* with the other.                                                         *)
LEMMA AcceptedIsOneSession ==
  ASSUME DeliveryInv, NEW n \in Nodes, SidAccepted(n, sid[Other(n)])
  PROVE  OneSession
<1> DEFINE o == Other(n)
           ids == {sid[m] : m \in Nodes}
<1>1. o \in Nodes /\ Nodes = {n, o}
  BY TwoNodes
<1> HIDE DEF o
<1>2. ids = {sid[n], sid[o]}
  BY <1>1
<1> HIDE DEF ids
<1>3. CASE sid[n] = 0 \/ sid[o] = 0
  BY <1>2, <1>3 DEF OneSession, ids
<1>4. CASE sid[o] = sid[n]
  <2>1. ids = {sid[n]}
    BY <1>2, <1>4
  <2>2. Cardinality({sid[n]}) = 1
    BY FS_Singleton, Zenon
  <2> QED BY <2>1, <2>2 DEF OneSession, ids
<1> QED BY <1>3, <1>4 DEF SidAccepted, o

(* No endpoint that runs stops, and what is in a stream was there before   *)
(* or is a package its sender may write.                                   *)
EpKept    == \A n \in Nodes, c \in Channels : ep[n][c] = "open" => ep'[n][c] = "open"
NetHonest == \A n \in Nodes, c \in Channels : \A i \in 1..Len(net'[n][c]) :
                \/ \E j \in 1..Len(net[n][c]) : net'[n][c][i] = net[n][c][j]
                \/ Honest(ep', n, c, net'[n][c][i])

LEMMA HandshakesKept ==
  ASSUME Handshakes, sid' = sid, EpKept, NetHonest
  PROVE  Handshakes'
<1>1. OneSession => OneSession'
  BY DEF OneSession
<1>2. ASSUME NEW n \in Nodes, NEW c \in Channels, NEW i \in 1..Len(net'[n][c]),
             NEW j \in 1..Len(net[n][c]), net'[n][c][i] = net[n][c][j]
      PROVE  Honest(ep', n, c, net'[n][c][i])
  <2>1. Honest(ep, n, c, net[n][c][j])
    BY DEF Handshakes
  <2>2. 0 \in Channels
    BY ChannelsAssumption
  <2> QED BY <1>2, <2>1, <2>2 DEF Honest, EpKept
<1>3. ASSUME NEW n \in Nodes, NEW c \in Channels, NEW i \in 1..Len(net'[n][c])
      PROVE  Honest(ep, n, c, net[n][c][i])'
  <2>1. Honest(ep', n, c, net'[n][c][i])
    BY <1>2 DEF NetHonest
  <2> QED BY <1>1, <2>1 DEF Honest
<1> QED BY <1>3 DEF Handshakes

LEMMA NetUnchanged ==
  ASSUME UNCHANGED net
  PROVE  NetHonest
BY DEF NetHonest

LEMMA TailHonest ==
  ASSUME NEW s \in Seq(Package), s # <<>>
  PROVE  \A i \in 1..Len(Tail(s)) : \E j \in 1..Len(s) : Tail(s)[i] = s[j]
BY TailOf

LEMMA ConsumeHonest ==
  ASSUME DeliveryInv, NEW n \in Nodes, NEW c \in Channels, Consume(n, c), net[Other(n)][c] # <<>>
  PROVE  NetHonest
<1> DEFINE o == Other(n)
           s == net[o][c]
<1>1. o \in Nodes /\ s \in Seq(Package)
  BY Reads
<1>2. Tail(s) \in Seq(Package) /\ \A i \in 1..Len(Tail(s)) : \E j \in 1..Len(s) : Tail(s)[i] = s[j]
  BY <1>1, TailOf, TailHonest
<1>3. net \in [Nodes -> [Channels -> Seq(Package)]] /\ net' = [net EXCEPT ![o][c] = Tail(s)]
  BY DEF DeliveryInv, DeliveryType, Consume
<1> HIDE DEF o, s
<1>4. \A m \in Nodes, d \in Channels : net'[m][d] = IF m = o /\ d = c THEN Tail(s) ELSE net[m][d]
  BY <1>1, <1>2, <1>3, Update
<1>5. ASSUME NEW m \in Nodes, NEW d \in Channels, NEW i \in 1..Len(net'[m][d])
      PROVE  \E j \in 1..Len(net[m][d]) : net'[m][d][i] = net[m][d][j]
  <2>1. CASE m = o /\ d = c
    <3>1. net'[m][d] = Tail(s) /\ net[m][d] = s
      BY <1>4, <2>1 DEF s
    <3>2. i \in 1..Len(Tail(s))
      BY <3>1, Zenon
    <3>3. PICK j \in 1..Len(s) : Tail(s)[i] = s[j]
      BY <1>2, <3>2, Zenon
    <3> QED BY <3>1, <3>3, Zenon
  <2>2. CASE ~(m = o /\ d = c)
    BY <1>4, <2>2
  <2> QED BY <2>1, <2>2
<1> QED BY <1>5 DEF NetHonest

LEMMA ReplyHonest ==
  ASSUME DeliveryInv, Handshakes, ItemsKept, NEW n \in Nodes, NEW c \in Channels,
         Arrived(n, c, "init_req"), SidAccepted(n, Item(n, c)), ep' = ep,
         Reply(n, c, Msg("init_rsp", 0))
  PROVE  NetHonest
<1> DEFINE o == Other(n)
           s == net[o][c]
           x == Msg("init_rsp", 0)
<1>1. o \in Nodes /\ Nodes = {n, o} /\ o # n /\ s \in Seq(Package) /\ s # <<>>
  BY Reads, TwoNodes DEF Arrived
<1>2. Tail(s) \in Seq(Package) /\ \A i \in 1..Len(Tail(s)) : \E j \in 1..Len(s) : Tail(s)[i] = s[j]
  BY <1>1, TailOf, TailHonest
<1>3. \A m \in Nodes, d \in Channels :
        net'[m][d] = IF m = n /\ d = c THEN net[n][c] \o <<x>>
                     ELSE IF d = c THEN Tail(net[m][d]) ELSE net[m][d]
  BY ReplyDelivers
<1>4. c = 0 /\ Item(n, c) = sid[o]
  <2>1. 1 \in 1..Len(s) /\ Head(s) = s[1] /\ s[1].type = "init_req"
    BY <1>1, TailOf DEF Arrived
  <2>2. Honest(ep, o, c, s[1])
    BY <1>1, <2>1 DEF Handshakes
  <2> QED BY <2>1, <2>2 DEF Honest, Item
<1>5. Honest(ep', n, c, x)
  <2>1. OneSession
    BY <1>4, AcceptedIsOneSession
  <2>2. ep'[n][0] = "open"
    BY <1>4 DEF Arrived
  <2> QED BY <1>4, <2>1, <2>2 DEF Honest, Msg
<1> HIDE DEF o, s, x
<1>6. ASSUME NEW m \in Nodes, NEW d \in Channels, NEW i \in 1..Len(net'[m][d])
      PROVE  \/ \E j \in 1..Len(net[m][d]) : net'[m][d][i] = net[m][d][j]
             \/ Honest(ep', m, d, net'[m][d][i])
  <2>1. CASE d # c
    BY <1>3, <2>1
  <2>2. CASE d = c /\ m = o
    <3>1. net[m][d] = s /\ net'[m][d] = Tail(s)
      BY <1>1, <1>3, <2>2 DEF s
    <3> QED BY <1>2, <3>1
  <2>3. CASE d = c /\ m = n
    <3>1. net[n][c] \in Seq(Package) /\ x \in Package
      BY DEF DeliveryInv, DeliveryType, x, Msg, Package, MsgTypes
    <3>2. net'[m][d] = net[n][c] \o <<x>>
      BY <1>3, <2>3
    <3>3. \/ i \in 1..Len(net[n][c]) /\ net'[m][d][i] = net[n][c][i]
          \/ net'[m][d][i] = x
      BY <3>1, <3>2
    <3> QED BY <1>5, <2>3, <3>3
  <2> QED BY <1>1, <2>1, <2>2, <2>3
<1> QED BY <1>6 DEF NetHonest

LEMMA ConcatAt ==
  ASSUME NEW s \in Seq(Package), NEW x \in Seq(Package)
  PROVE  /\ s \o x \in Seq(Package)
         /\ \A i \in 1..Len(s \o x) :
              \/ i \in 1..Len(s) /\ (s \o x)[i] = s[i]
              \/ i - Len(s) \in 1..Len(x) /\ (s \o x)[i] = x[i - Len(s)]
<1> DEFINE z == s \o x
<1>1. /\ z \in Seq(Package) /\ Len(s) \in Nat
      /\ \A i \in 1..Len(s) : z[i] = s[i]
      /\ \A i \in 1..Len(x) : z[Len(s) + i] = x[i]
      /\ \A i \in 1..Len(z) : i \in 1..Len(s) \/ i - Len(s) \in 1..Len(x)
  BY ConcatOf
<1> HIDE DEF z
<1>2. ASSUME NEW i \in 1..Len(z), i - Len(s) \in 1..Len(x) PROVE z[i] = x[i - Len(s)]
  <2>1. z[Len(s) + (i - Len(s))] = x[i - Len(s)] /\ Len(s) + (i - Len(s)) = i
    BY <1>1, <1>2
  <2> QED BY <2>1, Zenon
<1>3. ASSUME NEW i \in 1..Len(z)
      PROVE  \/ i \in 1..Len(s) /\ z[i] = s[i]
             \/ i - Len(s) \in 1..Len(x) /\ z[i] = x[i - Len(s)]
  <2>1. CASE i \in 1..Len(s)
    BY <1>1, <2>1, Zenon
  <2>2. CASE i - Len(s) \in 1..Len(x)
    BY <1>2, <2>2, Zenon
  <2> QED BY <1>1, <2>1, <2>2, Zenon
<1>4. /\ z \in Seq(Package)
      /\ \A i \in 1..Len(z) :
           \/ i \in 1..Len(s) /\ z[i] = s[i]
           \/ i - Len(s) \in 1..Len(x) /\ z[i] = x[i - Len(s)]
  BY <1>1, <1>3, Zenon
<1> QED BY <1>4 DEF z

LEMMA RunJobHonest ==
  ASSUME DeliveryInv, NEW n \in Nodes, NEW c \in Channels, RunJob(n, c)
  PROVE  NetHonest
<1> DEFINE s == net[n][c]
           x0 == InitReq(n, c)
<1>1. PICK x \in Seq(Package) :
        /\ net' = [net EXCEPT ![n][c] = s \o (x0 \o x)]
        /\ \A i \in 1..Len(x) : x[i].type \notin InitTypes
  BY RunJobDelivers
<1>2. /\ x0 \in Seq(Package) /\ s \in Seq(Package) /\ net \in [Nodes -> [Channels -> Seq(Package)]]
      /\ sid' = sid
  <2>1. x0 \in Seq(Package)
    BY RunJobDelivers
  <2>2. net \in [Nodes -> [Channels -> Seq(Package)]]
    BY DEF DeliveryInv, DeliveryType
  <2>3. sid' = sid
    BY DEF RunJob, links
  <2> QED BY <2>1, <2>2, <2>3
<1>3. ASSUME NEW i \in 1..Len(x0) PROVE Honest(ep', n, c, x0[i])
  <2>1. ~has[n] /\ c = 0 /\ x0 = <<Msg("init_req", sid[n])>>
    BY <1>3 DEF InitReq
  <2>2. x0[i] = Msg("init_req", sid[n])
    BY <2>1
  <2> QED BY <1>2, <2>1, <2>2 DEF Honest, Msg
<1> HIDE DEF x0, s
<1>4. s \o (x0 \o x) \in Seq(Package)
  BY <1>2
<1>5. \A m \in Nodes, d \in Channels :
        net'[m][d] = IF m = n /\ d = c THEN s \o (x0 \o x) ELSE net[m][d]
  BY <1>1, <1>2, <1>4, Update
<1>6. ASSUME NEW m \in Nodes, NEW d \in Channels, NEW i \in 1..Len(net'[m][d])
      PROVE  \/ \E j \in 1..Len(net[m][d]) : net'[m][d][i] = net[m][d][j]
             \/ Honest(ep', m, d, net'[m][d][i])
  <2>1. CASE ~(m = n /\ d = c)
    BY <1>5, <2>1
  <2>2. CASE m = n /\ d = c
    <3>1. net'[m][d] = s \o (x0 \o x) /\ net[m][d] = s
      BY <1>5, <2>2 DEF s
    <3>2. \/ i \in 1..Len(s) /\ net'[m][d][i] = s[i]
          \/ \E j \in 1..Len(x0) : net'[m][d][i] = x0[j]
          \/ \E j \in 1..Len(x) : net'[m][d][i] = x[j]
      <4> DEFINE y == x0 \o x
      <4>1. /\ y \in Seq(Package)
            /\ \A j \in 1..Len(y) :
                 \/ j \in 1..Len(x0) /\ y[j] = x0[j]
                 \/ j - Len(x0) \in 1..Len(x) /\ y[j] = x[j - Len(x0)]
        BY <1>2, ConcatAt
      <4> HIDE DEF y
      <4>2. \/ i \in 1..Len(s) /\ (s \o y)[i] = s[i]
            \/ i - Len(s) \in 1..Len(y) /\ (s \o y)[i] = y[i - Len(s)]
        <5>1. i \in 1..Len(s \o y)
          BY <3>1, Zenon DEF y
        <5> QED BY <1>2, <4>1, <5>1, ConcatAt
      <4>3. net'[m][d] = s \o y
        BY <3>1 DEF y
      <4>4. CASE i \in 1..Len(s) /\ (s \o y)[i] = s[i]
        BY <4>3, <4>4, Zenon
      <4>5. CASE i - Len(s) \in 1..Len(y) /\ (s \o y)[i] = y[i - Len(s)]
        <5>1. PICK j \in 1..Len(y) : net'[m][d][i] = y[j]
          BY <4>3, <4>5, Zenon
        <5>2. \/ \E l \in 1..Len(x0) : y[j] = x0[l]
              \/ \E l \in 1..Len(x) : y[j] = x[l]
          BY <4>1, Zenon
        <5> QED BY <5>1, <5>2, Zenon
      <4> QED BY <4>2, <4>4, <4>5
    <3>3. \A j \in 1..Len(x) : Honest(ep', m, d, x[j])
      BY <1>1 DEF Honest, InitTypes
    <3> QED BY <1>3, <2>2, <3>1, <3>2, <3>3
  <2> QED BY <2>1, <2>2
<1> QED BY <1>6 DEF NetHonest

LEMMA ConnectHandshake ==
  ASSUME HandshakeInv, sid \in [Nodes -> Nat], NEW n \in Nodes, n \notin known,
         known' = known \cup {n}, AddConnections(n), called' \subseteq Nodes,
         UNCHANGED <<sid, has, calls, jobs, net>>
  PROVE  HandshakeInv'
<1> DEFINE new == [c \in Channels |-> "new"]
<1>1. /\ new \in [Channels -> {"none", "new", "open"}]
      /\ ep \in [Nodes -> [Channels -> {"none", "new", "open"}]]
      /\ ep' = [ep EXCEPT ![n] = new]
  BY DEF AddConnections, HandshakeInv, HandshakeType
<1> HIDE DEF new
<1>2. /\ ep' \in [Nodes -> [Channels -> {"none", "new", "open"}]]
      /\ \A m \in Nodes : m # n => ep'[m] = ep[m]
  BY <1>1
<1>3. \A c \in Channels : ep[n][c] = "none"
  BY DEF HandshakeInv, OpenIsKnown
<1>4. EpKept
  BY <1>2, <1>3 DEF EpKept
<1>5. Handshakes'
  BY <1>4, NetUnchanged, HandshakesKept DEF HandshakeInv
<1>6. HandshakeType'
  BY <1>2 DEF HandshakeInv, HandshakeType
<1>7. OpenIsKnown'
  BY <1>2 DEF HandshakeInv, OpenIsKnown
<1>8. ConnectedIsKnown'
  BY <1>4, TwoNodes, ChannelsAssumption DEF HandshakeInv, ConnectedIsKnown, EpKept
<1>9. SessionsMatch'
  BY DEF HandshakeInv, SessionsMatch, OneSession
<1> QED BY <1>5, <1>6, <1>7, <1>8, <1>9 DEF HandshakeInv

(* A step that only moves packages: no peer is added and none connects.    *)
LEMMA PackagesHandshake ==
  ASSUME HandshakeInv, NetHonest, UNCHANGED <<sid, known, called, ep, has, calls>>,
         jobs' \in [Nodes -> [Channels -> Nat]]
  PROVE  HandshakeInv'
<1>1. EpKept
  BY DEF EpKept
<1>2. Handshakes'
  BY <1>1, HandshakesKept DEF HandshakeInv
<1>3. HandshakeType' /\ OpenIsKnown' /\ ConnectedIsKnown' /\ SessionsMatch'
  BY SMTT(30) DEF HandshakeInv, HandshakeType, OpenIsKnown, ConnectedIsKnown, SessionsMatch, OneSession
<1> QED BY <1>2, <1>3 DEF HandshakeInv

LEMMA StartHandshake ==
  ASSUME HandshakeInv, NEW n \in Nodes, NEW c \in Channels, Start(n, c)
  PROVE  HandshakeInv'
<1>1. /\ ep \in [Nodes -> [Channels -> {"none", "new", "open"}]]
      /\ jobs \in [Nodes -> [Channels -> Nat]] /\ jobs[n][c] + 1 \in Nat
      /\ ep' = [ep EXCEPT ![n][c] = "open"]
      /\ jobs' = [jobs EXCEPT ![n][c] = jobs[n][c] + 1]
      /\ UNCHANGED <<sid, known, called, has, calls, net>>
  BY DEF Start, HandshakeInv, HandshakeType
<1>2. /\ ep' \in [Nodes -> [Channels -> {"none", "new", "open"}]]
      /\ \A m \in Nodes, d \in Channels : ep'[m][d] = IF m = n /\ d = c THEN "open" ELSE ep[m][d]
      /\ jobs' \in [Nodes -> [Channels -> Nat]]
  BY <1>1, Update
<1>3. EpKept
  BY <1>2 DEF EpKept
<1>4. Handshakes'
  BY <1>1, <1>3, NetUnchanged, HandshakesKept DEF HandshakeInv
<1>5. HandshakeType'
  BY <1>1, <1>2 DEF HandshakeInv, HandshakeType
<1>6. OpenIsKnown'
  BY <1>1, <1>2 DEF HandshakeInv, OpenIsKnown, Start
<1>7. ConnectedIsKnown'
  BY <1>1, <1>3, TwoNodes, ChannelsAssumption DEF HandshakeInv, ConnectedIsKnown, EpKept
<1>8. SessionsMatch'
  BY <1>1 DEF HandshakeInv, SessionsMatch, OneSession
<1> QED BY <1>4, <1>5, <1>6, <1>7, <1>8 DEF HandshakeInv

(* The answer that connects a peer was written by one that runs channel 0  *)
(* and is of one session with it.                                          *)
LEMMA AnswerHandshake ==
  ASSUME DeliveryInv, HandshakeInv, NEW n \in Nodes, NEW c \in Channels, RecvInitRsp(n, c)
  PROVE  HandshakeInv'
<1> DEFINE o == Other(n)
           s == net[o][c]
<1>1. o \in Nodes /\ s \in Seq(Package) /\ s # <<>> /\ Nodes = {n, o} /\ Head(s).type = "init_rsp"
  BY Reads, TwoNodes DEF RecvInitRsp, Arrived
<1>2. 1 \in 1..Len(s) /\ s[1].type = "init_rsp"
  BY <1>1, TailOf
<1>3. Honest(ep, o, c, s[1])
  BY <1>1, <1>2 DEF HandshakeInv, Handshakes
<1>4. ep[o][0] = "open" /\ OneSession
  BY <1>2, <1>3 DEF Honest
<1>5. o \in known
  BY <1>1, <1>4, ChannelsAssumption DEF HandshakeInv, OpenIsKnown
<1>6. NetHonest
  BY <1>1, ConsumeHonest DEF RecvInitRsp
<1>7. /\ UNCHANGED <<sid, called, known, ep, jobs>>
      /\ has' = [has EXCEPT ![n] = TRUE] /\ calls' = [calls EXCEPT ![n] = calls[n] + 1]
      /\ has \in [Nodes -> BOOLEAN] /\ calls \in [Nodes -> Nat]
  BY DEF RecvInitRsp, HandshakeInv, HandshakeType
<1> HIDE DEF o, s
<1>8. /\ has' \in [Nodes -> BOOLEAN] /\ calls' \in [Nodes -> Nat]
      /\ calls'[n] > 0 /\ \A m \in Nodes : m # n => has'[m] = has[m] /\ calls'[m] = calls[m]
  BY <1>7
<1>9. Handshakes'
  BY <1>6, <1>7, HandshakesKept DEF EpKept, HandshakeInv
<1>10. HandshakeType' /\ OpenIsKnown'
  BY <1>7, <1>8 DEF HandshakeInv, HandshakeType, OpenIsKnown
<1>11. ConnectedIsKnown'
  BY <1>4, <1>5, <1>7, <1>8 DEF HandshakeInv, ConnectedIsKnown, o
<1>12. SessionsMatch'
  BY <1>4, <1>7 DEF SessionsMatch, OneSession
<1> QED BY <1>9, <1>10, <1>11, <1>12 DEF HandshakeInv

LEMMA HandshakeInductive ==
  ASSUME DeliveryInv, HandshakeInv, [Next]_vars
  PROVE  HandshakeInv'
<1>1. jobs \in [Nodes -> [Channels -> Nat]] /\ sid \in [Nodes -> Nat]
  BY DEF HandshakeInv, HandshakeType, DeliveryInv, DeliveryType
<1>2. ASSUME NEW n \in Nodes, ConnectToPeer(n) \/ UnknownPacket(n) PROVE HandshakeInv'
  <2>1. called' \subseteq Nodes /\ UNCHANGED <<sid, has, calls, jobs, net>>
    BY <1>2, NodesAssumption DEF ConnectToPeer, UnknownPacket, HandshakeInv, HandshakeType
  <2>2. CASE n \notin known /\ known' = known \cup {n} /\ AddConnections(n)
    BY <1>1, <2>1, <2>2, ConnectHandshake
  <2>3. CASE UNCHANGED <<known, ep>>
    <3>1. HandshakeType' /\ OpenIsKnown' /\ ConnectedIsKnown' /\ SessionsMatch' /\ EpKept
      BY <2>1, <2>3 DEF HandshakeInv, HandshakeType, OpenIsKnown, ConnectedIsKnown, SessionsMatch,
                        OneSession, EpKept
    <3> QED BY <2>1, <3>1, NetUnchanged, HandshakesKept DEF HandshakeInv
  <2> QED BY <1>2, <2>2, <2>3 DEF ConnectToPeer, UnknownPacket
<1>3. ASSUME NEW n \in Nodes, NEW c \in Channels, Coroutine(n, c) PROVE HandshakeInv'
  <2>1. CASE Start(n, c)
    BY <2>1, StartHandshake
  <2>2. CASE RunJob(n, c)
    <3>1. jobs' = [jobs EXCEPT ![n][c] = jobs[n][c] - 1] /\ jobs[n][c] - 1 \in Nat
          /\ UNCHANGED <<sid, known, called, ep, has, calls>>
      BY <1>1, <2>2 DEF RunJob, links
    <3>2. jobs' \in [Nodes -> [Channels -> Nat]]
      BY <1>1, <3>1, Update
    <3> QED BY <2>2, <3>1, <3>2, RunJobHonest, PackagesHandshake
  <2>3. CASE RecvInitReq(n, c)
    <3>1. /\ UNCHANGED <<sid, known, called, ep, has, calls, jobs>> /\ ItemsKept
          /\ Arrived(n, c, "init_req") /\ net[Other(n)][c] # <<>>
      BY <2>3 DEF RecvInitReq, Arrived, history, links, ItemsKept
    <3>2. Consume(n, c) \/ (SidAccepted(n, Item(n, c)) /\ Reply(n, c, Msg("init_rsp", 0)))
      <4>1. CASE ~SidAccepted(n, Item(n, c)) \/ has[n]
        BY <2>3, <4>1 DEF RecvInitReq
      <4>2. CASE SidAccepted(n, Item(n, c)) /\ ~has[n]
        BY <2>3, <4>2 DEF RecvInitReq
      <4> QED BY <4>1, <4>2
    <3>3. NetHonest
      BY <3>1, <3>2, ConsumeHonest, ReplyHonest DEF HandshakeInv
    <3> QED BY <1>1, <3>1, <3>3, PackagesHandshake
  <2>4. CASE RecvInitRsp(n, c)
    BY <2>4, AnswerHandshake
  <2>5. CASE \/ RecvFragment(n, c) \/ RecvRest(n, c)
             \/ \E k \in Kinds \ {"frag_send"} : RecvSimple(n, c, k)
    <3>1. /\ UNCHANGED <<sid, known, called, ep, has, calls, jobs>>
          /\ net[Other(n)][c] # <<>> /\ Consume(n, c)
      BY <2>5 DEF RecvFragment, RecvRest, RecvSimple, Arrived, links
    <3>2. NetHonest
      BY <3>1, ConsumeHonest
    <3> QED BY <1>1, <3>1, <3>2, PackagesHandshake
  <2> QED BY <1>3, <2>1, <2>2, <2>3, <2>4, <2>5 DEF Coroutine
<1>4. ASSUME NEW n \in Nodes, NEW c \in Channels, NEW k \in OpKinds, Operation(n, c, k)
      PROVE  HandshakeInv'
  <2>1. UNCHANGED <<sid, known, called, ep, has, calls, net>>
    BY <1>4 DEF Operation, links
  <2>2. jobs' \in [Nodes -> [Channels -> Nat]]
    <3>1. PICK j \in Nat : jobs' = [jobs EXCEPT ![n][c] = j]
      <4>1. jobs[n][c] \in Nat /\ jobs[n][c] + 1 \in Nat
        BY <1>1
      <4> QED BY <1>4, <4>1 DEF Operation
    <3> QED BY <1>1, <3>1, Update
  <2> QED BY <2>1, <2>2, NetUnchanged, PackagesHandshake
<1>5. CASE UNCHANGED vars
  <2>1. UNCHANGED <<sid, known, called, ep, has, calls, jobs, net>>
    BY <1>5 DEF vars, links
  <2> QED BY <1>1, <2>1, NetUnchanged, PackagesHandshake
<1> QED BY <1>2, <1>3, <1>4, <1>5 DEF Next

LEMMA HandshakeInit == Init => HandshakeInv
<1> SUFFICES ASSUME Init PROVE HandshakeInv
  OBVIOUS
<1>1. HandshakeType
  BY DEF Init, HandshakeType, PerChannel
<1>2. \A n \in Nodes, c \in Channels : Len(net[n][c]) = 0 /\ ep[n][c] = "none"
  BY DEF Init, PerChannel
<1>3. Handshakes /\ OpenIsKnown
  BY <1>2 DEF Handshakes, OpenIsKnown
<1>4. ConnectedIsKnown /\ SessionsMatch
  BY DEF Init, ConnectedIsKnown, SessionsMatch
<1> QED BY <1>1, <1>3, <1>4 DEF HandshakeInv

LEMMA HandshakeCorrect == Spec => []HandshakeInv
<1>1. Init => DeliveryInv /\ HandshakeInv
  BY DeliveryInit, HandshakeInit
<1>2. DeliveryInv /\ HandshakeInv /\ [Next]_vars => DeliveryInv' /\ HandshakeInv'
  BY DeliveryInductive, HandshakeInductive
<1> QED BY <1>1, <1>2, PTL DEF Spec

(* A peer that counts itself connected got an answer: the other one has it *)
(* in its map and runs the connection of channel 0. It holds though a side *)
(* learns of the other by a package, not by a call of its application.     *)
THEOREM KnownWhenConnected == Spec => []ConnectedIsKnown
<1>1. HandshakeInv => ConnectedIsKnown
  BY DEF HandshakeInv
<1> QED BY <1>1, HandshakeCorrect, PTL

(* Peers made with different sessions never count themselves connected,    *)
(* whichever of them asks: the comparison is made by the one that answers. *)
THEOREM SameSession == Spec => []SessionsMatch
<1>1. HandshakeInv => SessionsMatch
  BY DEF HandshakeInv
<1> QED BY <1>1, HandshakeCorrect, PTL
------------------------------------------------------------------------------
(* Types and bounds                                                        *)

LEMMA OpsDoneFinite == IsFiniteSet(OpsDone)
<1> DEFINE I == 1..MaxOps
           P == ((Nodes \X Channels) \X Kinds) \X I
           f == [op \in OpsDone |-> <<<<<<op[1], op[2]>>, op[3]>>, op[4]>>]
<1>1. IsFiniteSet(Nodes) /\ IsFiniteSet(Channels)
  BY NodesAssumption, ChannelsAssumption
<1>2. IsFiniteSet(Kinds)
  <2>1. IsFiniteSet({"frag_req", "frag_send", "meta_req", "meta_send"})
    <3>1. IsFiniteSet({"frag_req"})
      BY FS_Singleton
    <3>2. IsFiniteSet({"frag_req"} \cup {"frag_send"})
      BY <3>1, FS_AddElement
    <3>3. IsFiniteSet(({"frag_req"} \cup {"frag_send"}) \cup {"meta_req"})
      BY <3>2, FS_AddElement
    <3>4. IsFiniteSet((({"frag_req"} \cup {"frag_send"}) \cup {"meta_req"}) \cup {"meta_send"})
      BY <3>3, FS_AddElement
    <3>5. (({"frag_req"} \cup {"frag_send"}) \cup {"meta_req"}) \cup {"meta_send"}
            = {"frag_req", "frag_send", "meta_req", "meta_send"}
      OBVIOUS
    <3> QED BY <3>4, <3>5, Zenon
  <2> QED BY <2>1, KindsAre
<1>3. IsFiniteSet(I)
  BY FS_Interval, DataAssumption
<1>4. IsFiniteSet(P)
  <2>1. IsFiniteSet(Nodes \X Channels)
    BY <1>1, FS_Product
  <2>2. IsFiniteSet((Nodes \X Channels) \X Kinds)
    BY <1>2, <2>1, FS_Product
  <2> QED BY <1>3, <2>2, FS_Product
<1>5. f \in Injection(OpsDone, P)
  <2>1. \A op \in OpsDone : /\ op[1] \in Nodes /\ op[2] \in Channels /\ op[3] \in Kinds /\ op[4] \in I
                            /\ op = <<op[1], op[2], op[3], op[4]>>
    BY DEF OpsDone
  <2>2. f \in [OpsDone -> P]
    BY <2>1
  <2>3. ASSUME NEW a \in OpsDone, NEW b \in OpsDone, f[a] = f[b] PROVE a = b
    <3>1. a[1] = b[1] /\ a[2] = b[2] /\ a[3] = b[3] /\ a[4] = b[4]
      BY <2>3
    <3> QED BY <2>1, <3>1
  <2> HIDE DEF f, P
  <2> QED BY <2>2, <2>3 DEF Injection, IsInjective
<1> HIDE DEF f, P
<1> QED BY <1>4, <1>5, FS_Injection

(* An operation is let in only while its channel and kind have room.       *)
LEMMA RoomForOperation ==
  ASSUME NEW n \in Nodes, NEW c \in Channels, NEW k \in Kinds,
         pushed[n][c][k] \in Nat, Cardinality(OpsDone) < MaxOps
  PROVE  pushed[n][c][k] < MaxOps
<1> SUFFICES ASSUME MaxOps <= pushed[n][c][k] PROVE FALSE
  BY DataAssumption
<1> DEFINE I == 1..MaxOps
           f == [i \in I |-> <<n, c, k, i>>]
<1>1. MaxOps \in Nat /\ Cardinality(I) = MaxOps
  BY FS_Interval, DataAssumption
<1>2. \A i \in I : <<n, c, k, i>> \in OpsDone
  BY <1>1 DEF OpsDone
<1>3. f \in Injection(I, OpsDone)
  <2>1. f \in [I -> OpsDone]
    BY <1>2
  <2>2. \A i, j \in I : f[i] = f[j] => i = j
    OBVIOUS
  <2> HIDE DEF f, I
  <2> QED BY <2>1, <2>2 DEF Injection, IsInjective
<1> HIDE DEF f, I
<1>4. Cardinality(I) <= Cardinality(OpsDone)
  BY <1>3, OpsDoneFinite, FS_Injection
<1>5. Cardinality(OpsDone) \in Nat
  BY OpsDoneFinite, FS_CardinalityType
<1> QED BY <1>1, <1>4, <1>5

LEMMA SeqOf ==
  ASSUME NEW q \in Seq(Nat), NEW S, \A i \in 1..Len(q) : q[i] \in S
  PROVE  q \in Seq(S)
OBVIOUS

BoundInv == sid \in Sessions /\ OpsInBounds

LEMMA BoundInductive ==
  ASSUME DeliveryInv, BoundInv, [Next]_vars
  PROVE  BoundInv'
<1>1. ASSUME UNCHANGED <<sid, pushed>> PROVE BoundInv'
  BY <1>1 DEF BoundInv, OpsInBounds
<1>2. ASSUME NEW n \in Nodes, NEW c \in Channels, NEW k \in OpKinds, Operation(n, c, k)
      PROVE  BoundInv'
  <2>1. k \in Kinds /\ pushed \in [Nodes -> [Channels -> [Kinds -> Nat]]]
    BY KindsAssumption DEF DeliveryInv, DeliveryType
  <2>2. pushed[n][c][k] \in Nat /\ pushed[n][c][k] < MaxOps
    BY <1>2, <2>1, RoomForOperation DEF Operation
  <2>3. sid' = sid /\ pushed' = [pushed EXCEPT ![n][c][k] = pushed[n][c][k] + 1]
    BY <1>2 DEF Operation, links
  <2>4. \A m \in Nodes, d \in Channels, l \in Kinds :
          pushed'[m][d][l] = IF m = n /\ d = c /\ l = k THEN pushed[n][c][k] + 1 ELSE pushed[m][d][l]
    BY <2>1, <2>3
  <2> QED BY <2>2, <2>3, <2>4, DataAssumption DEF BoundInv, OpsInBounds
<1>3. ASSUME NEW n \in Nodes, ConnectToPeer(n) \/ UnknownPacket(n) PROVE BoundInv'
  BY <1>1, <1>3 DEF ConnectToPeer, UnknownPacket, history
<1>4. ASSUME NEW n \in Nodes, NEW c \in Channels, Coroutine(n, c) PROVE BoundInv'
  <2>1. UNCHANGED <<sid, pushed>>
    BY <1>4 DEF Coroutine, Start, RunJob, RecvInitReq, RecvInitRsp, RecvFragment, RecvRest,
                RecvSimple, links, history
  <2> QED BY <1>1, <2>1
<1>5. CASE UNCHANGED vars
  BY <1>1, <1>5 DEF vars, links, history
<1> QED BY <1>2, <1>3, <1>4, <1>5 DEF Next

(* Numbers of items stay within the operations made, a buffer never waits  *)
(* for more pieces than a fragment has, and packages of the handshake are  *)
(* on channel 0 only.                                                      *)
THEOREM TypeCorrect == Spec => []TypeOK
<1>1. Init => DeliveryInv /\ HandshakeInv /\ BoundInv
  <2>1. Init => BoundInv
    BY DataAssumption DEF Init, BoundInv, OpsInBounds, PerKind, PerChannel
  <2> QED BY <2>1, DeliveryInit, HandshakeInit
<1>2. DeliveryInv /\ HandshakeInv /\ BoundInv /\ [Next]_vars
        => DeliveryInv' /\ HandshakeInv' /\ BoundInv'
  BY DeliveryInductive, HandshakeInductive, BoundInductive
<1>3. DeliveryInv /\ HandshakeInv /\ BoundInv => TypeOK
  <2> SUFFICES ASSUME DeliveryInv, HandshakeInv, BoundInv PROVE TypeOK
    OBVIOUS
  <2>1. ASSUME NEW n \in Nodes, NEW c \in Channels, NEW k \in Kinds
        PROVE  queue[n][c][k] \in Seq(1..MaxOps)
    <3> DEFINE q == queue[n][c][k]
               p == pushed[n][c][k]
    <3>1. /\ q \in Seq(Nat) /\ Len(q) \in Nat /\ p \in Nat /\ p <= MaxOps /\ MaxOps \in Nat
          /\ p - Len(q) \in Nat /\ \A i \in 1..Len(q) : q[i] = p - Len(q) + i
      <4>1. StreamAt(n, c) /\ p <= MaxOps
        BY DEF DeliveryInv, BoundInv, OpsInBounds
      <4>2. q \in Seq(Nat) /\ p \in Nat /\ Len(q) \in Nat /\ p - Len(q) \in Nat
            /\ ItemsInOrder(k, net[n][c], cache[Other(n)][c], queue[n][c], pushed[n][c], got[n][c])
        BY <4>1, StreamNumbers DEF StreamAt
      <4> QED BY <4>1, <4>2, DataAssumption DEF ItemsInOrder
    <3> HIDE DEF q, p
    <3>2. \A i \in 1..Len(q) : q[i] \in 1..MaxOps
      BY <3>1
    <3>3. q \in Seq(1..MaxOps)
      BY <3>1, <3>2, SeqOf
    <3> QED BY <3>3 DEF q
  <2>2. ASSUME NEW n \in Nodes, NEW c \in Channels
        PROVE  /\ net[n][c] \in Seq([type : MsgTypes, item : Nat])
               /\ c # 0 => \A i \in 1..Len(net[n][c]) : net[n][c][i].type \notin {"init_req", "init_rsp"}
    BY DEF DeliveryInv, DeliveryType, Package, HandshakeInv, Handshakes, Honest
  <2>3. ASSUME NEW n \in Nodes, NEW c \in Channels
        PROVE  cache[n][c] \in [id : 0..MaxOps, left : 0..FragmentPieces, some : BOOLEAN]
    <3>1. Other(n) \in Nodes /\ Other(Other(n)) = n
      BY TwoNodes
    <3>2. BufferInOrder(cache[n][c], pushed[Other(n)][c], got[Other(n)][c])
      BY <3>1 DEF DeliveryInv, StreamAt, StreamInOrder
    <3>3. pushed[Other(n)][c]["frag_send"] \in Nat /\ pushed[Other(n)][c]["frag_send"] <= MaxOps
      BY <3>1, KindsAre DEF DeliveryInv, DeliveryType, BoundInv, OpsInBounds
    <3> QED BY <3>2, <3>3, DataAssumption DEF BufferInOrder, Buffer
  <2>4. /\ sid \in Sessions /\ called \subseteq Nodes /\ known \subseteq Nodes
        /\ ep \in [Nodes -> [Channels -> {"none", "new", "open"}]]
        /\ jobs \in [Nodes -> [Channels -> Nat]]
        /\ has \in [Nodes -> BOOLEAN] /\ calls \in [Nodes -> Nat]
    BY DEF BoundInv, HandshakeInv, HandshakeType
  <2> QED BY <2>1, <2>2, <2>3, <2>4 DEF TypeOK
<1> QED BY <1>1, <1>2, <1>3, PTL DEF Spec
================================================================================
