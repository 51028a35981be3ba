-------------------------- MODULE TrackerLink_proofs --------------------------
(***************************************************************************)
(* The entries of a tracker that others link to, for any addresses, sizes  *)
(* of packages, times and bounds: none is handed out without a coroutine.  *)
(***************************************************************************)
EXTENDS TrackerLink, WellFoundedInduction, TLAPS

(* What the entries depend on: a coroutine for each connection, and that   *)
(* nobody serves an address from which a connection is being made, so that *)
(* an entry of a former connection from there is closed by then.           *)
ServedType == /\ serving \in [Addrs -> {"none", "pending", "head", "body"}]
              /\ peers \in [Addrs -> {"none", "open", "closed"}]

ConnectingIsFree == link = "connecting" => addr \in Addrs /\ serving[addr] = "none"

ServedInv == ServedType /\ ConnectingIsFree /\ ListedIsServed

(* A step of the linking tracker that begins no connection, or of neither. *)
Unserved == /\ UNCHANGED <<serving, peers>>
            /\ link' # "connecting" \/ UNCHANGED <<link, addr>>

LEMMA UnservedKeeps ==
  ASSUME ServedInv, Unserved
  PROVE  ServedInv'
BY DEF ServedInv, ServedType, ConnectingIsFree, ListedIsServed, Unserved

LEMMA LinkKeeps ==
  ASSUME ServedInv, Link
  PROVE  ServedInv'
<1>1. PICK a \in Addrs : serving[a] = "none" /\ addr' = a
  BY DEF Link
<1>2. UNCHANGED <<serving, peers>>
  BY DEF Link, other
<1> QED BY <1>1, <1>2 DEF ServedInv, ServedType, ConnectingIsFree, ListedIsServed

(* The connection comes to an address that has no open entry, since nobody *)
(* served it.                                                              *)
LEMMA ConnectedKeeps ==
  ASSUME ServedInv, Connected
  PROVE  ServedInv'
<1>1. addr \in Addrs /\ serving[addr] = "none"
  BY DEF Connected, ServedInv, ConnectingIsFree
<1>2. peers[addr] # "open"
  BY <1>1 DEF ServedInv, ListedIsServed
<1>3. serving' = [serving EXCEPT ![addr] = "pending"] /\ UNCHANGED peers /\ link' = "head"
  BY DEF Connected, AwaitHead
<1> QED BY <1>1, <1>2, <1>3 DEF ServedInv, ServedType, ConnectingIsFree, ListedIsServed

(* A coroutine of the other tracker goes on with its package, or it ends   *)
(* and closes its entry; it only ever opens the entry of its own address.  *)
LEMMA ServingKeeps ==
  ASSUME ServedInv, NEW a \in Addrs, NEW phase, NEW r,
         serving[a] # "none", Serving(a, phase, r), UNCHANGED <<link, addr>>,
         \/ /\ phase \in {"head", "body"}
            /\ UNCHANGED peers \/ peers' = [peers EXCEPT ![a] = IF @ = "none" THEN "open" ELSE @]
         \/ /\ phase = "none"
            /\ peers' = [peers EXCEPT ![a] = IF @ = "none" THEN @ ELSE "closed"]
  PROVE  ServedInv'
<1>1. serving' = [serving EXCEPT ![a] = phase]
  BY DEF Serving
<1>2. ServedType'
  BY <1>1 DEF ServedInv, ServedType
<1>3. ConnectingIsFree'
  BY <1>1 DEF ServedInv, ServedType, ConnectingIsFree
<1>4. ASSUME NEW b \in Addrs, peers'[b] = "open" PROVE serving'[b] \in {"head", "body"}
  <2>1. CASE b = a
    BY <1>1, <1>4, <2>1 DEF ServedInv, ServedType
  <2>2. CASE b # a
    BY <1>1, <1>4, <2>2 DEF ServedInv, ServedType, ListedIsServed
  <2> QED BY <2>1, <2>2
<1> QED BY <1>2, <1>3, <1>4 DEF ServedInv, ListedIsServed

LEMMA ServeKeeps ==
  ASSUME ServedInv, NEW a \in Addrs, NEW kind, serving[a] # "none",
         Serve(a, kind), UNCHANGED <<link, addr>>
  PROVE  ServedInv'
<1>1. CASE kind = "ping" /\ Serving(a, "head", Expect(0))
           /\ peers' = [peers EXCEPT ![a] = IF @ = "none" THEN "open" ELSE @]
  BY <1>1, ServingKeeps
<1>2. CASE ExitClient(a)
  BY <1>2, ServingKeeps DEF ExitClient
<1> QED BY <1>1, <1>2 DEF Serve

LEMMA ServerKeeps ==
  ASSUME ServedInv, NEW a \in Addrs, Server(a)
  PROVE  ServedInv'
<1>1. UNCHANGED <<link, addr>>
  BY DEF Server, Accept, ReadServerHead, ReadServerContent, ServerEof, linker
<1>2. CASE Accept(a)
  <2>1. serving[a] # "none" /\ Serving(a, "head", Expect(0)) /\ UNCHANGED peers
    BY <1>2 DEF Accept, AcceptFrom
  <2> QED BY <1>1, <2>1, ServingKeeps
<1>3. CASE ReadServerHead(a)
  <2>1. serving[a] # "none"
    BY <1>3 DEF ReadServerHead
  <2>2. PICK r \in ReadHead(up[a]) :
          IF r.whole
          THEN \E size \in r.sizes :
                 IF size = 0 THEN Serve(a, ParseNothing)
                 ELSE Serving(a, "body", Expect(size)) /\ UNCHANGED peers
          ELSE UNCHANGED <<serving, peers>>
    BY <1>3 DEF ReadServerHead
  <2>3. CASE ~r.whole
    BY <1>1, <2>2, <2>3, UnservedKeeps DEF Unserved
  <2>4. CASE r.whole
    <3>1. PICK size \in r.sizes :
            IF size = 0 THEN Serve(a, ParseNothing)
            ELSE Serving(a, "body", Expect(size)) /\ UNCHANGED peers
      BY <2>2, <2>4
    <3>2. CASE size = 0
      BY <1>1, <2>1, <3>1, <3>2, ServeKeeps
    <3>3. CASE size # 0
      BY <1>1, <2>1, <3>1, <3>3, ServingKeeps
    <3> QED BY <3>2, <3>3
  <2> QED BY <2>3, <2>4
<1>4. CASE ReadServerContent(a)
  <2>1. serving[a] # "none"
    BY <1>4 DEF ReadServerContent
  <2>2. \/ \E kind : Serve(a, kind)
        \/ \E r : Serving(a, "body", r) /\ UNCHANGED peers
    BY <1>4 DEF ReadServerContent
  <2> QED BY <1>1, <2>1, <2>2, ServeKeeps, ServingKeeps
<1>5. CASE ServerEof(a)
  <2>1. serving[a] # "none" /\ ExitClient(a)
    BY <1>5 DEF ServerEof
  <2> QED BY <1>1, <2>1, ServingKeeps DEF ExitClient
<1> QED BY <1>2, <1>3, <1>4, <1>5 DEF Server

LEMMA RestartKeeps ==
  ASSUME ServedInv, Restart
  PROVE  ServedInv'
<1>1. UNCHANGED <<link, addr>>
  BY DEF Restart, linker
<1> QED BY <1>1 DEF Restart, ServedInv, ServedType, ConnectingIsFree, ListedIsServed

LEMMA TrackersReqKeeps ==
  ASSUME ServedInv, TrackersReq
  PROVE  ServedInv'
<1>1. UNCHANGED <<link, addr, serving>>
  BY DEF TrackersReq
<1>2. \/ UNCHANGED peers
      \/ peers' = [a \in Addrs |-> IF peers[a] = "closed" THEN "none" ELSE peers[a]]
  BY DEF TrackersReq
<1> QED BY <1>1, <1>2 DEF ServedInv, ServedType, ConnectingIsFree, ListedIsServed

LEMMA ServedInductive ==
  ASSUME ServedInv, [Next]_vars
  PROVE  ServedInv'
<1>1. CASE Link
  BY <1>1, LinkKeeps
<1>2. CASE Connected
  BY <1>2, ConnectedKeeps
<1>3. ASSUME ReadLinkHead \/ ReadLinkContent PROVE ServedInv'
  <2>1. UNCHANGED <<serving, peers>>
    BY <1>3 DEF ReadLinkHead, ReadLinkContent, other
  <2>2. link' # "connecting"
    BY <1>3 DEF ReadLinkHead, ReadLinkContent, Content, Handle, AwaitHead
  <2> QED BY <2>1, <2>2, UnservedKeeps DEF Unserved
<1>4. ASSUME Timeout \/ LinkEof \/ ConnectFails PROVE ServedInv'
  <2>1. UNCHANGED <<serving, peers>>
    BY <1>4 DEF Timeout, LinkEof, ConnectFails, other
  <2>2. link' # "connecting"
    BY <1>4 DEF Timeout, LinkEof, ConnectFails, PingThrows, Return, ServerError, Close,
                Content, Handle, AwaitHead
  <2> QED BY <2>1, <2>2, UnservedKeeps DEF Unserved
<1>5. ASSUME NEW a \in Addrs, Server(a) PROVE ServedInv'
  BY <1>5, ServerKeeps
<1>6. CASE Restart
  BY <1>6, RestartKeeps
<1>7. CASE TrackersReq
  BY <1>7, TrackersReqKeeps
<1>8. CASE Stall \/ Elapse \/ UNCHANGED vars
  <2>1. Unserved
    BY <1>8 DEF Stall, Elapse, vars, linker, other, Unserved
  <2> QED BY <2>1, UnservedKeeps
<1> QED BY <1>1, <1>2, <1>3, <1>4, <1>5, <1>6, <1>7, <1>8 DEF Next, Linker

(* Every entry that the other tracker hands out as open is of a connection *)
(* whose server_main runs (ListedIsServed): update_tracker, on_client_exit *)
(* and trackers_req keep map and coroutines together for any number of     *)
(* ports, whenever one is used again.                                      *)
THEOREM ServedCorrect == Spec => []ListedIsServed
<1>1. Init => ServedInv
  BY DEF Init, ServedInv, ServedType, ConnectingIsFree, ListedIsServed
<1>2. ServedInv /\ [Next]_vars => ServedInv'
  BY ServedInductive
<1>3. ServedInv => ListedIsServed
  BY DEF ServedInv
<1> QED BY <1>1, <1>2, <1>3, PTL DEF Spec

-----------------------------------------------------------------------------
(* The types.                                                                *)

PackageSize == HeadSize + ContentSize
Bytes == 1..PackageSize

(* A content is being read of which the bytes so far are those of one.       *)
Aligned(r) == r.aligned /\ r.expected \in 1..ContentSize

LinkTypes ==
  /\ link \in {"none", "connecting", "head", "body"} /\ addr \in Addrs \cup {NoAddr}
  /\ (link = "none") = (addr = NoAddr) /\ (link # "none" => entry = "open")
  /\ entry \in {"none", "open", "closed"} /\ age \in 0..ExpireAge + 1
  /\ span \in 0..Tick /\ left \in 0..span /\ lost \in BOOLEAN
  /\ reader \in Reader /\ (link = "body" => reader.expected > 0)

OtherTypes == serverReader \in [Addrs -> Reader] /\ stalled \in BOOLEAN

StreamTypes == up \in [Addrs -> Seq(Bytes)] /\ down \in [Addrs -> Seq(Bytes)]

TypeInv == LinkTypes /\ OtherTypes /\ StreamTypes

LEMMA SizesAre ==
  /\ HeadSize \in Nat \ {0} /\ ContentSize \in Nat \ {0} /\ PackageSize \in Nat \ {0}
  /\ PackageSize = HeadSize + ContentSize /\ Tick \in Nat \ {0} /\ ExpireAge = 2 * Tick
BY SizeAssumption, BoundAssumption DEF PackageSize, ExpireAge

LEMMA TypesImply == ServedInv /\ TypeInv => TypeOK
BY DEF TypeInv, LinkTypes, OtherTypes, ServedInv, ServedType, StreamTypes, TypeOK, Bytes,
       PackageSize

LEMMA PackageIs ==
  /\ Package \in Seq(Bytes) /\ Len(Package) = PackageSize
  /\ \A i \in 1..PackageSize : Package[i] = i
BY SizesAre DEF Package, Bytes, PackageSize

LEMMA ExpectIs ==
  ASSUME NEW size \in Nat
  PROVE  Expect(size) \in Reader /\ Expect(size).expected = size
         /\ Expect(size).aligned = (size = ContentSize)
BY DEF Expect, Reader

LEMMA ContentExpected ==
  Expect(ContentSize).expected = ContentSize /\ Aligned(Expect(ContentSize))
<1>1. ContentSize \in Nat /\ ContentSize \in 1..ContentSize
  BY SizesAre
<1>2. Expect(ContentSize).expected = ContentSize
  BY <1>1, ExpectIs
<1>3. Expect(ContentSize).aligned
  BY Zenon DEF Expect
<1> QED BY <1>1, <1>2, <1>3 DEF Aligned

LEMMA WrittenIs ==
  ASSUME NEW s \in Seq(Bytes)
  PROVE  /\ WritePackage(s) \in Seq(Bytes) /\ Len(s) \in Nat
         /\ Len(WritePackage(s)) = Len(s) + PackageSize
         /\ \A i \in 1..Len(s) : WritePackage(s)[i] = s[i]
         /\ \A i \in 1..PackageSize : WritePackage(s)[Len(s) + i] = i
         /\ WritePackage(s) # <<>>
<1>1. Package \in Seq(Bytes) /\ Len(Package) = PackageSize /\ PackageSize \in Nat \ {0}
  BY PackageIs, SizesAre
<1>2. /\ s \o Package \in Seq(Bytes) /\ Len(s) \in Nat
      /\ Len(s \o Package) = Len(s) + Len(Package)
      /\ \A i \in 1..Len(s) : (s \o Package)[i] = s[i]
      /\ \A i \in 1..Len(Package) : (s \o Package)[Len(s) + i] = Package[i]
  BY <1>1
<1>3. s \o Package # <<>>
  BY <1>1, <1>2
<1> QED BY <1>1, <1>2, <1>3, PackageIs DEF WritePackage

(* What is left of a stream after n bytes.                                   *)
LEMMA RestIs ==
  ASSUME NEW s \in Seq(Bytes), NEW n \in 1..Len(s)
  PROVE  /\ Rest(s, n) \in Seq(Bytes) /\ Len(Rest(s, n)) = Len(s) - n /\ Len(s) \in Nat
         /\ \A i \in 1..Len(s) - n : Rest(s, n)[i] = s[n + i]
<1>1. Len(s) \in Nat /\ n + 1 \in 1..Len(s) + 1
  OBVIOUS
<1> QED BY <1>1 DEF Rest

LEMMA HeadReadIs ==
  ASSUME NEW s \in Seq(Bytes), NEW r \in ReadHead(s)
  PROVE  \E n \in 1..Len(s) :
           /\ n <= HeadSize /\ r.whole = (n = HeadSize) /\ r.rest = Rest(s, n)
           /\ r.rest \in Seq(Bytes) /\ r.sizes \subseteq Nat
           /\ SubSeq(s, 1, n) = [i \in 1..HeadSize |-> i] => r.sizes = {ContentSize}
<1>1. PICK n \in Received(HeadSize, s) :
        r = [whole |-> n = HeadSize, rest |-> Rest(s, n),
             sizes |-> IF SubSeq(s, 1, n) = [i \in 1..HeadSize |-> i] THEN {ContentSize}
                       ELSE Sizes]
  BY DEF ReadHead
<1>2. n \in 1..Len(s) /\ n <= HeadSize
  BY SizesAre DEF Received
<1>3. Rest(s, n) \in Seq(Bytes)
  BY <1>2, RestIs
<1>4. r.whole = (n = HeadSize) /\ r.rest = Rest(s, n)
  BY <1>1
<1>5. r.sizes = IF SubSeq(s, 1, n) = [i \in 1..HeadSize |-> i] THEN {ContentSize} ELSE Sizes
  BY <1>1
<1>6. r.sizes \subseteq Nat
  BY <1>5, SizeAssumption
<1> QED BY <1>2, <1>3, <1>4, <1>5, <1>6

LEMMA ContentReadIs ==
  ASSUME NEW s \in Seq(Bytes), NEW x \in Reader, NEW r \in ReadContent(x, s)
  PROVE  \E n \in 1..Len(s) :
           /\ n <= x.expected /\ r.rest = Rest(s, n) /\ r.rest \in Seq(Bytes)
           /\ r.reader \in Reader /\ r.reader.expected = x.expected - n
           /\ r.reader.aligned = (/\ x.aligned
                                  /\ \A i \in 1..n : s[i] = PackageSize - x.expected + i)
<1>1. PICK n \in Received(x.expected, s) :
        r = [reader |-> [expected |-> x.expected - n,
                         aligned |-> /\ x.aligned
                                     /\ \A i \in 1..n :
                                          s[i] = HeadSize + ContentSize - x.expected + i],
             rest |-> Rest(s, n)]
  BY DEF ReadContent
<1>2. x.expected \in Nat
  BY DEF Reader
<1>3. n \in 1..Len(s) /\ n <= x.expected
  BY <1>2 DEF Received
<1>4. Rest(s, n) \in Seq(Bytes)
  BY <1>3, RestIs
<1> DEFINE whole == x.aligned /\ \A i \in 1..n : s[i] = HeadSize + ContentSize - x.expected + i
           y == [expected |-> x.expected - n, aligned |-> whole]
<1>5. r.rest = Rest(s, n) /\ r.reader = y
  BY <1>1
<1>6. whole \in BOOLEAN /\ x.expected - n \in Nat
  BY <1>2, <1>3
<1>7. whole = (x.aligned /\ \A i \in 1..n : s[i] = PackageSize - x.expected + i)
  <2>1. \A i \in 1..n : HeadSize + ContentSize - x.expected + i = PackageSize - x.expected + i
    BY <1>2, SizesAre
  <2> QED BY <2>1
<1> HIDE DEF whole
<1>8. y \in Reader /\ y.expected = x.expected - n /\ y.aligned = whole
  BY <1>6 DEF Reader
<1> QED BY <1>3, <1>4, <1>5, <1>7, <1>8

(* The steps of the linking tracker.                                         *)
LEMMA CloseTypes ==
  ASSUME LinkTypes, Close, entry' \in {"none", "open", "closed"}, lost' = lost
  PROVE  LinkTypes'
<1>1. Expect(0) \in Reader
  BY ExpectIs
<1> QED BY <1>1, SizesAre DEF LinkTypes, Close

LEMMA AwaitTypes ==
  ASSUME LinkTypes, AwaitHead, link # "none", UNCHANGED entry, age' \in 0..ExpireAge + 1,
         lost' \in BOOLEAN
  PROVE  LinkTypes'
<1>1. Expect(0) \in Reader
  BY ExpectIs
<1> QED BY <1>1, SizesAre DEF LinkTypes, AwaitHead

LEMMA HandleTypes ==
  ASSUME LinkTypes, NEW kind, Handle(kind), link # "none", UNCHANGED entry, lost' \in BOOLEAN
  PROVE  LinkTypes'
<1>1. age' \in 0..ExpireAge + 1
  BY SizesAre DEF Handle, LinkTypes
<1> QED BY <1>1, AwaitTypes DEF Handle

LEMMA ContentTypes ==
  ASSUME LinkTypes, NEW size \in Nat, Content(size), link # "none", UNCHANGED entry,
         lost' \in BOOLEAN
  PROVE  LinkTypes'
<1>1. CASE size = 0
  BY <1>1, HandleTypes DEF Content
<1>2. CASE size # 0
  <2>1. /\ link' = "body" /\ reader' = Expect(size) /\ span' = 0 /\ left' = 0
        /\ addr' = addr /\ age' = age
    BY <1>2 DEF Content
  <2>2. reader' \in Reader /\ reader'.expected > 0
    BY <1>2, <2>1, ExpectIs
  <2> QED BY <2>1, <2>2, SizesAre DEF LinkTypes
<1> QED BY <1>1, <1>2

LEMMA LinkLinkTypes ==
  ASSUME TypeInv, Link
  PROVE  TypeInv'
<1>1. PICK a \in Addrs : addr' = a
  BY DEF Link
<1>2. /\ link' = "connecting" /\ entry' = "open" /\ age' = ExpireAge + 1
      /\ UNCHANGED <<span, left, reader, serverReader, stalled>> /\ lost' = FALSE
  BY DEF Link, other
<1>3. LinkTypes'
  <2>1. a # NoAddr /\ age' \in 0..ExpireAge + 1
    BY <1>2, SizesAre, AddrAssumption
  <2>2. /\ span' \in 0..Tick /\ left' \in 0..span' /\ reader' \in Reader
        /\ lost' \in BOOLEAN
    BY <1>2 DEF TypeInv, LinkTypes
  <2> QED BY <1>1, <1>2, <2>1, <2>2 DEF LinkTypes
<1>4. StreamTypes'
  <2>1. up' = [up EXCEPT ![a] = <<>>] /\ down' = [down EXCEPT ![a] = <<>>]
    BY <1>1 DEF Link
  <2>2. <<>> \in Seq(Bytes)
    OBVIOUS
  <2> QED BY <2>1, <2>2 DEF TypeInv, StreamTypes
<1> QED BY <1>2, <1>3, <1>4 DEF TypeInv, OtherTypes

(* A package is written at one end, or some bytes are read.                  *)
LEMMA StreamSet ==
  ASSUME NEW f \in [Addrs -> Seq(Bytes)], NEW a, NEW s \in Seq(Bytes)
  PROVE  [f EXCEPT ![a] = s] \in [Addrs -> Seq(Bytes)]
OBVIOUS

LEMMA AddrIs ==
  ASSUME TypeInv, link # "none"
  PROVE  addr \in Addrs /\ up[addr] \in Seq(Bytes) /\ down[addr] \in Seq(Bytes)
BY DEF TypeInv, LinkTypes, StreamTypes

LEMMA ConnectedTypes ==
  ASSUME TypeInv, Connected
  PROVE  TypeInv'
<1>1. LinkTypes'
  <2>1. link # "none" /\ AwaitHead /\ UNCHANGED <<entry, age, lost>>
    BY DEF Connected
  <2> QED BY <2>1, AwaitTypes DEF TypeInv, LinkTypes
<1>2. StreamTypes'
  <2>1. up' = [up EXCEPT ![addr] = WritePackage(up[addr])] /\ UNCHANGED down
    BY DEF Connected
  <2>2. WritePackage(up[addr]) \in Seq(Bytes)
    BY AddrIs, WrittenIs DEF Connected
  <2> QED BY <2>1, <2>2, StreamSet DEF TypeInv, StreamTypes
<1>3. OtherTypes'
  BY DEF Connected, TypeInv, OtherTypes
<1> QED BY <1>1, <1>2, <1>3 DEF TypeInv

LEMMA ConnectFailsTypes ==
  ASSUME TypeInv, ConnectFails
  PROVE  TypeInv'
<1>1. LinkTypes'
  <2>1. Close /\ entry' = "closed" /\ UNCHANGED lost
    BY DEF ConnectFails, ServerError
  <2> QED BY <2>1, CloseTypes DEF TypeInv
<1>2. UNCHANGED <<serverReader, stalled, up, down>>
  BY DEF ConnectFails, other
<1> QED BY <1>1, <1>2 DEF TypeInv, OtherTypes, StreamTypes

LEMMA LinkEofTypes ==
  ASSUME TypeInv, LinkEof
  PROVE  TypeInv'
<1>1. LinkTypes'
  <2>1. Close /\ (entry' = entry \/ entry' = "closed") /\ UNCHANGED lost
    BY DEF LinkEof, ServerError, Return
  <2> QED BY <2>1, CloseTypes DEF TypeInv, LinkTypes
<1>2. UNCHANGED <<serverReader, stalled, up, down>>
  BY DEF LinkEof, other
<1> QED BY <1>1, <1>2 DEF TypeInv, OtherTypes, StreamTypes

LEMMA ReadLinkHeadTypes ==
  ASSUME TypeInv, ReadLinkHead
  PROVE  TypeInv'
<1>1. link = "head" /\ UNCHANGED <<entry, serverReader, stalled, up>>
  BY DEF ReadLinkHead, other
<1>2. down[addr] \in Seq(Bytes)
  BY <1>1, AddrIs
<1>3. PICK r \in ReadHead(down[addr]) :
        /\ down' = [down EXCEPT ![addr] = r.rest]
        /\ IF r.whole THEN /\ \E size \in r.sizes : Content(size)
                           /\ UNCHANGED lost
           ELSE /\ lost' = TRUE /\ span' = span - left /\ left' = span - left
                /\ UNCHANGED <<link, addr, age, reader>>
  BY DEF ReadLinkHead
<1>4. r.rest \in Seq(Bytes) /\ r.sizes \subseteq Nat
  BY <1>2, HeadReadIs
<1>5. StreamTypes'
  BY <1>1, <1>3, <1>4, StreamSet DEF TypeInv, StreamTypes
<1>6. LinkTypes'
  <2>1. CASE r.whole
    <3>1. PICK size \in r.sizes : Content(size)
      BY <1>3, <2>1
    <3>2. size \in Nat /\ lost' \in BOOLEAN
      BY <1>3, <1>4, <2>1 DEF TypeInv, LinkTypes
    <3> QED BY <1>1, <3>1, <3>2, ContentTypes DEF TypeInv
  <2>2. CASE ~r.whole
    <3>1. /\ lost' = TRUE /\ span' = span - left /\ left' = span - left
          /\ UNCHANGED <<link, addr, age, reader>>
      BY <1>3, <2>2
    <3>2. span' \in 0..Tick /\ left' \in 0..span'
      BY <3>1, SizesAre DEF TypeInv, LinkTypes
    <3> QED BY <1>1, <3>1, <3>2 DEF TypeInv, LinkTypes
  <2> QED BY <2>1, <2>2
<1> QED BY <1>1, <1>5, <1>6 DEF TypeInv, OtherTypes

LEMMA ReadLinkContentTypes ==
  ASSUME TypeInv, ReadLinkContent
  PROVE  TypeInv'
<1>1. link = "body" /\ UNCHANGED <<entry, serverReader, stalled, up, lost>>
  BY DEF ReadLinkContent, other
<1>2. down[addr] \in Seq(Bytes) /\ reader \in Reader /\ lost' \in BOOLEAN
  BY <1>1, AddrIs DEF TypeInv, LinkTypes
<1>3. PICK r \in ReadContent(reader, down[addr]) :
        /\ down' = [down EXCEPT ![addr] = r.rest]
        /\ IF r.reader.expected = 0 THEN \E kind : Handle(kind)
           ELSE reader' = r.reader /\ UNCHANGED <<link, addr, age, span, left>>
  BY DEF ReadLinkContent
<1>4. r.rest \in Seq(Bytes) /\ r.reader \in Reader
  BY <1>2, ContentReadIs
<1>5. StreamTypes'
  BY <1>1, <1>3, <1>4, StreamSet DEF TypeInv, StreamTypes
<1>6. LinkTypes'
  <2>1. CASE r.reader.expected = 0
    <3>1. PICK kind : Handle(kind)
      BY <1>3, <2>1
    <3> QED BY <1>1, <1>2, <3>1, HandleTypes DEF TypeInv
  <2>2. CASE r.reader.expected # 0
    <3>1. reader' = r.reader /\ UNCHANGED <<link, addr, age, span, left>>
      BY <1>3, <2>2
    <3>2. r.reader.expected > 0
      BY <1>4, <2>2 DEF Reader
    <3> QED BY <1>1, <1>4, <3>1, <3>2 DEF TypeInv, LinkTypes
  <2> QED BY <2>1, <2>2
<1> QED BY <1>1, <1>5, <1>6 DEF TypeInv, OtherTypes

LEMMA TimeoutTypes ==
  ASSUME TypeInv, Timeout
  PROVE  TypeInv'
<1>1. link = "head" /\ UNCHANGED <<serverReader, stalled, down>>
  BY DEF Timeout, other
<1>2. up' \in [Addrs -> Seq(Bytes)]
  <2>1. \/ UNCHANGED up
        \/ up' = [up EXCEPT ![addr] = WritePackage(up[addr])]
    BY DEF Timeout, Ping, PingThrows
  <2>2. WritePackage(up[addr]) \in Seq(Bytes)
    BY <1>1, AddrIs, WrittenIs
  <2> QED BY <2>1, <2>2, StreamSet DEF TypeInv, StreamTypes
<1>3. LinkTypes'
  <2>1. \/ Close /\ (entry' = entry \/ entry' = "closed") /\ lost' = lost
        \/ (\E size \in StaleSizes : Content(size) /\ lost' = (lost \/ size # 0)) /\ entry' = entry
    BY DEF Timeout, Return, PingThrows, ServerError
  <2>2. CASE Close /\ (entry' = entry \/ entry' = "closed") /\ lost' = lost
    BY <2>2, CloseTypes DEF TypeInv, LinkTypes
  <2>3. ASSUME NEW size \in StaleSizes, Content(size), lost' = (lost \/ size # 0),
               entry' = entry
        PROVE  LinkTypes'
    <3>1. size \in Nat /\ lost' \in BOOLEAN
      BY <2>3, StaleAssumption
    <3> QED BY <1>1, <2>3, <3>1, ContentTypes DEF TypeInv
  <2> QED BY <2>1, <2>2, <2>3
<1> QED BY <1>1, <1>2, <1>3 DEF TypeInv, OtherTypes, StreamTypes

(* The steps of the other tracker.                                           *)
LEMMA ServingTypes ==
  ASSUME TypeInv, NEW a, NEW phase, NEW r \in Reader, Serving(a, phase, r)
  PROVE  serverReader' \in [Addrs -> Reader]
BY DEF Serving, TypeInv, OtherTypes

LEMMA ServeTypes ==
  ASSUME TypeInv, NEW a \in Addrs, NEW kind, Serve(a, kind)
  PROVE  serverReader' \in [Addrs -> Reader] /\ down' \in [Addrs -> Seq(Bytes)]
<1>1. Expect(0) \in Reader
  BY ExpectIs
<1>2. \E phase : Serving(a, phase, Expect(0))
  BY DEF Serve, ExitClient
<1>3. \/ UNCHANGED down
      \/ down' = [down EXCEPT ![a] = WritePackage(down[a])]
  BY DEF Serve
<1>4. WritePackage(down[a]) \in Seq(Bytes)
  BY WrittenIs DEF TypeInv, StreamTypes
<1> QED BY <1>1, <1>2, <1>3, <1>4, ServingTypes, StreamSet DEF TypeInv, StreamTypes

LEMMA LinkerTypes ==
  ASSUME TypeInv, UNCHANGED linker, lost' \in BOOLEAN
  PROVE  LinkTypes'
BY DEF TypeInv, LinkTypes, linker

LEMMA ServerTypes ==
  ASSUME TypeInv, NEW a \in Addrs, Server(a)
  PROVE  TypeInv'
<1>1. UNCHANGED <<linker, stalled>>
  BY DEF Server, Accept, ReadServerHead, ReadServerContent, ServerEof
<1>2. up[a] \in Seq(Bytes) /\ serverReader[a] \in Reader /\ Expect(0) \in Reader
      /\ lost \in BOOLEAN
  BY ExpectIs DEF TypeInv, LinkTypes, OtherTypes, StreamTypes
<1>3. SUFFICES /\ lost' \in BOOLEAN /\ serverReader' \in [Addrs -> Reader]
               /\ up' \in [Addrs -> Seq(Bytes)] /\ down' \in [Addrs -> Seq(Bytes)]
  BY <1>1, LinkerTypes DEF TypeInv, OtherTypes, StreamTypes
<1>4. CASE Accept(a)
  <2>1. Serving(a, "head", Expect(0)) /\ UNCHANGED <<up, down, lost>>
    BY <1>4 DEF Accept
  <2> QED BY <1>2, <2>1, ServingTypes DEF TypeInv, StreamTypes
<1>5. CASE ReadServerHead(a)
  <2>1. PICK r \in ReadHead(up[a]) :
          /\ up' = [up EXCEPT ![a] = r.rest]
          /\ IF r.whole
             THEN /\ \E size \in r.sizes :
                       IF size = 0 THEN Serve(a, ParseNothing)
                       ELSE Serving(a, "body", Expect(size)) /\ UNCHANGED down
                  /\ UNCHANGED lost
             ELSE lost' = (lost \/ addr = a) /\ UNCHANGED <<serverReader, down>>
    BY <1>5 DEF ReadServerHead
  <2>2. r.rest \in Seq(Bytes) /\ r.sizes \subseteq Nat
    BY <1>2, HeadReadIs
  <2>3. up' \in [Addrs -> Seq(Bytes)]
    BY <2>1, <2>2, StreamSet DEF TypeInv, StreamTypes
  <2>4. CASE ~r.whole
    BY <2>1, <2>3, <2>4 DEF TypeInv, OtherTypes, StreamTypes
  <2>5. CASE r.whole
    <3>1. PICK size \in r.sizes :
            IF size = 0 THEN Serve(a, ParseNothing)
            ELSE Serving(a, "body", Expect(size)) /\ UNCHANGED down
      BY <2>1, <2>5
    <3>2. UNCHANGED lost
      BY <2>1, <2>5
    <3>3. CASE size = 0
      BY <1>2, <2>3, <3>1, <3>2, <3>3, ServeTypes
    <3>4. CASE size # 0
      <4>1. Expect(size) \in Reader
        BY <2>2, ExpectIs
      <4> QED BY <1>2, <2>3, <3>1, <3>2, <3>4, <4>1, ServingTypes DEF TypeInv, StreamTypes
    <3> QED BY <3>3, <3>4
  <2> QED BY <2>4, <2>5
<1>6. CASE ReadServerContent(a)
  <2>1. PICK r \in ReadContent(serverReader[a], up[a]) :
          /\ up' = [up EXCEPT ![a] = r.rest]
          /\ IF r.reader.expected = 0 THEN \E kind : Serve(a, kind)
             ELSE Serving(a, "body", r.reader) /\ UNCHANGED down
    BY <1>6 DEF ReadServerContent
  <2>2. r.rest \in Seq(Bytes) /\ r.reader \in Reader
    BY <1>2, ContentReadIs
  <2>3. up' \in [Addrs -> Seq(Bytes)]
    BY <2>1, <2>2, StreamSet DEF TypeInv, StreamTypes
  <2>4. UNCHANGED lost
    BY <1>6 DEF ReadServerContent
  <2>5. CASE r.reader.expected = 0
    <3>1. PICK kind : Serve(a, kind)
      BY <2>1, <2>5
    <3> QED BY <1>2, <2>3, <2>4, <3>1, ServeTypes
  <2>6. CASE r.reader.expected # 0
    BY <1>2, <2>1, <2>2, <2>3, <2>4, <2>6, ServingTypes DEF TypeInv, StreamTypes
  <2> QED BY <2>5, <2>6
<1>7. CASE ServerEof(a)
  <2>1. Serving(a, "none", Expect(0)) /\ UNCHANGED <<up, down, lost>>
    BY <1>7 DEF ServerEof, ExitClient
  <2> QED BY <1>2, <2>1, ServingTypes DEF TypeInv, StreamTypes
<1> QED BY <1>4, <1>5, <1>6, <1>7 DEF Server

LEMMA RestartTypes ==
  ASSUME TypeInv, Restart
  PROVE  TypeInv'
<1>1. /\ UNCHANGED <<linker, up, down, lost>> /\ stalled' = FALSE
      /\ serverReader' = [a \in Addrs |-> Expect(0)]
  BY DEF Restart
<1>2. serverReader' \in [Addrs -> Reader] /\ lost' \in BOOLEAN
  BY <1>1, ExpectIs DEF TypeInv, LinkTypes
<1>3. LinkTypes'
  BY <1>1, <1>2, LinkerTypes
<1> QED BY <1>1, <1>2, <1>3 DEF TypeInv, OtherTypes, StreamTypes

LEMMA ElapseTypes ==
  ASSUME TypeInv, Elapse
  PROVE  TypeInv'
<1>1. /\ age' = IF age > ExpireAge THEN age ELSE age + 1
      /\ left' = IF left = 0 THEN 0 ELSE left - 1
      /\ UNCHANGED <<link, addr, entry, span, reader, lost>>
      /\ UNCHANGED <<serverReader, stalled, up, down>>
  BY DEF Elapse, other
<1>2. age' \in 0..ExpireAge + 1
  BY <1>1, SizesAre DEF TypeInv, LinkTypes
<1>3. span \in 0..Tick /\ left \in 0..span
  BY DEF TypeInv, LinkTypes
<1>4. left' \in 0..span'
  BY <1>1, <1>3, SizesAre
<1>5. LinkTypes'
  BY <1>1, <1>2, <1>4 DEF TypeInv, LinkTypes
<1> QED BY <1>1, <1>5 DEF TypeInv, OtherTypes, StreamTypes

LEMMA TypesInductive ==
  ASSUME TypeInv, [Next]_vars
  PROVE  TypeInv'
<1>1. CASE Link
  BY <1>1, LinkLinkTypes
<1>2. CASE Connected
  BY <1>2, ConnectedTypes
<1>3. CASE ReadLinkHead
  BY <1>3, ReadLinkHeadTypes
<1>4. CASE ReadLinkContent
  BY <1>4, ReadLinkContentTypes
<1>5. CASE Timeout
  BY <1>5, TimeoutTypes
<1>6. CASE LinkEof
  BY <1>6, LinkEofTypes
<1>7. CASE ConnectFails
  BY <1>7, ConnectFailsTypes
<1>8. ASSUME NEW a \in Addrs, Server(a) PROVE TypeInv'
  BY <1>8, ServerTypes
<1>9. CASE Restart
  BY <1>9, RestartTypes
<1>10. CASE Elapse
  BY <1>10, ElapseTypes
<1>11. CASE Stall
  <2>1. UNCHANGED <<linker, serverReader, up, down, lost>> /\ stalled' = TRUE
    BY <1>11 DEF Stall
  <2>2. LinkTypes'
    BY <2>1, LinkerTypes DEF TypeInv, LinkTypes
  <2> QED BY <2>1, <2>2 DEF TypeInv, OtherTypes, StreamTypes
<1>12. CASE TrackersReq
  <2>1. /\ UNCHANGED <<link, addr, age, span, left, reader, lost>>
        /\ UNCHANGED <<serverReader, stalled, up, down>>
    BY <1>12 DEF TrackersReq
  <2>2. entry' = entry \/ (entry = "closed" /\ entry' = "none")
    BY <1>12 DEF TrackersReq
  <2>3. LinkTypes'
    BY <2>1, <2>2 DEF TypeInv, LinkTypes
  <2> QED BY <2>1, <2>3 DEF TypeInv, OtherTypes, StreamTypes
<1>13. CASE UNCHANGED vars
  BY <1>13 DEF vars, linker, other, TypeInv, LinkTypes, OtherTypes, StreamTypes
<1> QED BY <1>1, <1>2, <1>3, <1>4, <1>5, <1>6, <1>7, <1>8, <1>9, <1>10, <1>11, <1>12, <1>13
        DEF Next, Linker

LEMMA InitTypes == Init => TypeInv
<1> SUFFICES ASSUME Init PROVE TypeInv
  OBVIOUS
<1>1. Expect(0) \in Reader /\ <<>> \in Seq(Bytes)
  BY ExpectIs
<1>2. LinkTypes
  <2>1. /\ link = "none" /\ addr = NoAddr /\ entry = "none" /\ age = ExpireAge + 1
        /\ span = 0 /\ left = 0 /\ reader = Expect(0) /\ lost = FALSE
    BY DEF Init
  <2>2. age \in 0..ExpireAge + 1 /\ span \in 0..Tick /\ left \in 0..span
    BY <2>1, SizesAre
  <2> QED BY <1>1, <2>1, <2>2 DEF LinkTypes
<1>3. OtherTypes
  BY <1>1 DEF Init, OtherTypes
<1>4. StreamTypes
  BY <1>1 DEF Init, StreamTypes
<1> QED BY <1>2, <1>3, <1>4 DEF TypeInv

LEMMA InitServed == Init => ServedInv
BY DEF Init, ServedInv, ServedType, ConnectingIsFree, ListedIsServed

(* A connection exists exactly while its coroutine does, every stream holds  *)
(* bytes of packages, and what a reader still expects and the ages stay in   *)
(* their ranges (TypeOK), for any sizes, times and number of ports.          *)
THEOREM TypeCorrect == Spec => []TypeOK
<1>1. Init => ServedInv /\ TypeInv
  BY InitServed, InitTypes
<1>2. (ServedInv /\ TypeInv) /\ [Next]_vars => (ServedInv /\ TypeInv)'
  BY ServedInductive, TypesInductive
<1>3. ServedInv /\ TypeInv => TypeOK
  BY TypesImply
<1> QED BY <1>1, <1>2, <1>3, PTL DEF Spec

-----------------------------------------------------------------------------
(* The streams of a link on which no head was lost.                          *)

(* A stream goes on, at byte k of a package, with whole packages.            *)
Following(b) == IF b = PackageSize THEN 1 ELSE b + 1
Flow(s, k) == /\ s = <<>> => k = 1
              /\ s # <<>> => s[1] = k /\ s[Len(s)] = PackageSize
              /\ \A i \in 1..Len(s) - 1 : s[i + 1] = Following(s[i])

(* At which byte of a package either end is.                                 *)
ServerNext == IF serving[addr] = "body" THEN PackageSize - serverReader[addr].expected + 1
              ELSE 1
LinkNext   == IF link = "body" THEN PackageSize - reader.expected + 1 ELSE 1

(* While both trackers run: what is on its way fits what either end reads,   *)
(* and while a package is on its way no time passes; while none is, the age  *)
(* of the entry and what is left of the wait make no more than one tick.     *)
Active   == link \in {"head", "body"} /\ Serves /\ ~stalled /\ ~lost
InFlight == up[addr] # <<>> \/ down[addr] # <<>>

UpFlows   == /\ Flow(up[addr], ServerNext)
             /\ serving[addr] = "body" => Aligned(serverReader[addr])
DownFlows == /\ Flow(down[addr], LinkNext)
             /\ link = "body" => Aligned(reader)
Heard     == /\ InFlight /\ link = "head" => left = Tick
             /\ ~InFlight => link = "head" /\ age + left <= Tick

LinkedInv == Active => UpFlows /\ DownFlows /\ Heard

(* Nothing is on its way on a new connection.                                *)
Fresh == link = "connecting" => up[addr] = <<>> /\ down[addr] = <<>>

LinkInv == ServedInv /\ TypeInv /\ Fresh /\ LinkedInv

(* The numbers up to any n in which 0 is and with each its successor: all.   *)
LEMMA Induction ==
  ASSUME NEW S \in SUBSET Nat, 0 \in S, \A n \in S : n + 1 \in S
  PROVE  S = Nat
<1> SUFFICES ASSUME Nat \ S # {} PROVE FALSE
  OBVIOUS
<1>1. PICK m \in Nat \ S : \A k \in Nat \ S : ~ (<<k, m>> \in OpToRel(<, Nat))
  BY NatLessThanWellFounded, WFMin
<1>2. \A k \in Nat \ S : ~ (k < m)
  BY <1>1 DEF OpToRel
<1>3. m - 1 \in Nat /\ m - 1 < m
  OBVIOUS
<1>4. m - 1 \in S
  BY <1>2, <1>3
<1>5. (m - 1) + 1 \in S /\ (m - 1) + 1 = m
  BY <1>4
<1> QED BY <1>5

(* The rest of the package that a stream begins with comes byte by byte.     *)
LEMMA FlowIs ==
  ASSUME NEW s \in Seq(Bytes), NEW k \in 1..PackageSize, Flow(s, k),
         NEW i \in 1..Len(s), k + i - 1 <= PackageSize
  PROVE  s[i] = k + i - 1
<1> DEFINE S == {j \in Nat : j + 1 <= Len(s) /\ k + j <= PackageSize => s[j + 1] = k + j}
<1>1. Len(s) \in Nat /\ PackageSize \in Nat /\ k \in Nat
  BY SizesAre
<1>2. 0 \in S
  <2>1. 1 <= Len(s) => s # <<>>
    OBVIOUS
  <2> QED BY <1>1, <2>1 DEF Flow
<1>3. ASSUME NEW j \in S PROVE j + 1 \in S
  <2>1. SUFFICES ASSUME (j + 1) + 1 <= Len(s), k + (j + 1) <= PackageSize
                 PROVE  s[(j + 1) + 1] = k + (j + 1)
    OBVIOUS
  <2>2. j \in Nat /\ s[j + 1] = k + j
    BY <1>1, <2>1
  <2>3. s[(j + 1) + 1] = Following(s[j + 1])
    <3>1. j + 1 \in 1..Len(s) - 1
      BY <1>1, <2>1, <2>2
    <3> QED BY <3>1 DEF Flow
  <2>4. k + j # PackageSize /\ (k + j) + 1 = k + (j + 1)
    BY <1>1, <2>1, <2>2
  <2> QED BY <2>2, <2>3, <2>4 DEF Following
<1> HIDE DEF S
<1>4. S = Nat
  <2>1. S \in SUBSET Nat
    BY DEF S
  <2> QED BY <1>2, <1>3, <2>1, Induction
<1>5. i - 1 \in S /\ (i - 1) + 1 = i /\ k + (i - 1) = k + i - 1
  BY <1>1, <1>4
<1> QED BY <1>1, <1>5 DEF S

(* What is left of a stream goes on where the reader stopped.                *)
LEMMA FlowRest ==
  ASSUME NEW s \in Seq(Bytes), NEW k \in 1..PackageSize, Flow(s, k), NEW n \in 1..Len(s),
         k + n - 1 <= PackageSize
  PROVE  /\ k + n - 1 < PackageSize => Flow(Rest(s, n), k + n) /\ Rest(s, n) # <<>>
         /\ k + n - 1 = PackageSize => Flow(Rest(s, n), 1)
<1> DEFINE x == Rest(s, n)
           m == IF k + n - 1 = PackageSize THEN 1 ELSE k + n
<1>1. /\ x \in Seq(Bytes) /\ Len(x) = Len(s) - n /\ Len(s) \in Nat
      /\ \A i \in 1..Len(s) - n : x[i] = s[n + i]
  BY RestIs
<1>2. s[n] = k + n - 1
  BY FlowIs
<1>3. s # <<>> /\ s[Len(s)] = PackageSize
  BY DEF Flow
<1>4. PackageSize \in Nat /\ k \in Nat /\ n \in Nat
  BY SizesAre
<1> HIDE DEF x
<1>5. CASE x = <<>>
  <2>1. Len(x) = 0
    BY <1>5
  <2>2. n = Len(s)
    BY <1>1, <1>4, <2>1
  <2>3. k + n - 1 = PackageSize
    BY <1>2, <1>3, <2>2
  <2>4. Flow(x, 1)
    BY <1>5, <2>1 DEF Flow
  <2> QED BY <1>4, <2>3, <2>4 DEF x
<1>6. CASE x # <<>>
  <2>1. Len(x) \in Nat \ {0} /\ n < Len(s)
    BY <1>1, <1>4, <1>6
  <2>2. x[1] = m
    <3>1. n \in 1..Len(s) - 1 /\ 1 \in 1..Len(s) - n
      BY <1>1, <1>4, <2>1
    <3>2. x[1] = s[n + 1] /\ s[n + 1] = Following(s[n])
      BY <1>1, <3>1 DEF Flow
    <3> QED BY <1>2, <1>4, <3>2 DEF Following
  <2>3. x[Len(x)] = PackageSize
    <3>1. Len(x) \in 1..Len(s) - n /\ n + Len(x) = Len(s)
      BY <1>1, <1>4, <2>1
    <3> QED BY <1>1, <1>3, <3>1
  <2>4. ASSUME NEW i \in 1..Len(x) - 1 PROVE x[i + 1] = Following(x[i])
    <3>1. /\ i \in 1..Len(s) - n /\ i + 1 \in 1..Len(s) - n /\ n + i \in 1..Len(s) - 1
          /\ n + (i + 1) = (n + i) + 1
      BY <1>1, <1>4, <2>1
    <3>2. x[i] = s[n + i] /\ x[i + 1] = s[(n + i) + 1]
      BY <1>1, <3>1
    <3>3. s[(n + i) + 1] = Following(s[n + i])
      BY <3>1 DEF Flow
    <3> QED BY <3>2, <3>3
  <2>5. Flow(x, m)
    BY <1>6, <2>2, <2>3, <2>4 DEF Flow
  <2>6. /\ k + n - 1 < PackageSize => m = k + n
        /\ k + n - 1 = PackageSize => m = 1
    BY <1>4
  <2> QED BY <1>6, <2>5, <2>6 DEF x
<1> QED BY <1>5, <1>6

(* Another package follows.                                                  *)
LEMMA FlowWritten ==
  ASSUME NEW s \in Seq(Bytes), NEW k, Flow(s, k)
  PROVE  Flow(WritePackage(s), k)
<1> DEFINE x == WritePackage(s)
           n == Len(s)
<1>1. /\ x \in Seq(Bytes) /\ n \in Nat /\ Len(x) = n + PackageSize
      /\ \A i \in 1..n : x[i] = s[i]
      /\ \A i \in 1..PackageSize : x[n + i] = i
      /\ x # <<>>
  BY WrittenIs
<1>2. PackageSize \in Nat \ {0} /\ (n = 0 <=> s = <<>>)
  BY SizesAre
<1> HIDE DEF x
<1>3. x[1] = k
  <2>1. CASE s = <<>>
    <3>1. k = 1 /\ n + 1 = 1 /\ 1 \in 1..PackageSize
      BY <1>2, <2>1 DEF Flow
    <3>2. x[n + 1] = 1
      BY <1>1, <3>1
    <3> QED BY <3>1, <3>2
  <2>2. CASE s # <<>>
    <3>1. 1 \in 1..n
      BY <1>1, <1>2, <2>2
    <3> QED BY <1>1, <2>2, <3>1 DEF Flow
  <2> QED BY <2>1, <2>2
<1>4. x[Len(x)] = PackageSize
  BY <1>1, <1>2
<1>5. ASSUME NEW i \in 1..Len(x) - 1 PROVE x[i + 1] = Following(x[i])
  <2>1. CASE i < n
    <3>1. i \in 1..n - 1 /\ i \in 1..n /\ i + 1 \in 1..n
      BY <1>1, <1>2, <2>1
    <3>2. s[i + 1] = Following(s[i])
      BY <3>1 DEF Flow
    <3>3. x[i] = s[i] /\ x[i + 1] = s[i + 1]
      BY <1>1, <3>1
    <3> QED BY <3>2, <3>3
  <2>2. CASE i = n
    <3>1. n \in 1..n /\ 1 \in 1..PackageSize /\ s # <<>>
      BY <1>1, <1>2, <2>2
    <3>2. x[n] = PackageSize /\ x[n + 1] = 1
      BY <1>1, <3>1 DEF Flow
    <3> QED BY <2>2, <3>2 DEF Following
  <2>3. CASE i > n
    <3>1. PICK j \in 1..PackageSize - 1 : i = n + j
      <4>1. i - n \in 1..PackageSize - 1 /\ i = n + (i - n)
        BY <1>1, <1>2, <2>3
      <4> QED BY <4>1
    <3>2. j \in 1..PackageSize /\ j + 1 \in 1..PackageSize /\ j # PackageSize
          /\ (n + j) + 1 = n + (j + 1)
      BY <1>1, <1>2, <3>1
    <3>3. x[n + j] = j /\ x[n + (j + 1)] = j + 1
      BY <1>1, <3>2
    <3> QED BY <3>1, <3>2, <3>3 DEF Following
  <2> QED BY <1>1, <1>2, <2>1, <2>2, <2>3
<1>6. Flow(x, k)
  BY <1>1, <1>3, <1>4, <1>5 DEF Flow
<1> QED BY <1>6 DEF x

LEMMA PackageFlows == Flow(WritePackage(<<>>), 1) /\ Flow(<<>>, 1)
<1>1. <<>> \in Seq(Bytes) /\ Flow(<<>>, 1)
  BY DEF Flow
<1> QED BY <1>1, FlowWritten

(* A head that is read whole in step is one, and its content comes next.     *)
LEMMA HeadInStep ==
  ASSUME NEW s \in Seq(Bytes), Flow(s, 1), NEW r \in ReadHead(s), r.whole
  PROVE  /\ r.sizes = {ContentSize}
         /\ Flow(r.rest, PackageSize - ContentSize + 1) /\ r.rest # <<>>
         /\ s # <<>>
<1>1. PICK n \in 1..Len(s) :
        /\ n = HeadSize /\ r.rest = Rest(s, n)
        /\ SubSeq(s, 1, n) = [i \in 1..HeadSize |-> i] => r.sizes = {ContentSize}
  BY HeadReadIs
<1>2. Len(s) \in Nat /\ 1 \in 1..PackageSize /\ 1 + n - 1 < PackageSize
      /\ 1 + n = PackageSize - ContentSize + 1
  BY <1>1, SizesAre
<1>3. \A i \in 1..HeadSize : s[i] = i
  <2>1. ASSUME NEW i \in 1..HeadSize PROVE s[i] = i
    <3>1. i \in 1..Len(s) /\ 1 + i - 1 <= PackageSize /\ 1 + i - 1 = i
      BY <1>1, <1>2, SizesAre
    <3> QED BY <1>2, <3>1, FlowIs
  <2> QED BY <2>1
<1>4. SubSeq(s, 1, n) = [i \in 1..HeadSize |-> i]
  <2>1. SubSeq(s, 1, n) = [i \in 1..n |-> s[i]]
    BY <1>2
  <2> QED BY <1>1, <1>3, <2>1
<1>5. s # <<>>
  BY <1>2
<1>6. Flow(Rest(s, n), 1 + n) /\ Rest(s, n) # <<>>
  <2>1. 1 + n - 1 < PackageSize /\ 1 + n - 1 <= PackageSize /\ n \in 1..Len(s)
    BY <1>1, <1>2, SizesAre
  <2> QED BY <1>2, <2>1, FlowRest, Zenon
<1> QED BY <1>1, <1>2, <1>4, <1>5, <1>6

(* A part of a content that is read in step is the part that is expected.    *)
LEMMA ContentInStep ==
  ASSUME NEW s \in Seq(Bytes), NEW x \in Reader, Aligned(x),
         Flow(s, PackageSize - x.expected + 1), NEW r \in ReadContent(x, s)
  PROVE  /\ r.reader.aligned /\ s # <<>>
         /\ r.reader.expected = 0 => Flow(r.rest, 1)
         /\ r.reader.expected # 0 =>
              /\ Aligned(r.reader) /\ r.rest # <<>>
              /\ Flow(r.rest, PackageSize - r.reader.expected + 1)
<1>1. PICK n \in 1..Len(s) :
        /\ n <= x.expected /\ r.rest = Rest(s, n) /\ r.rest \in Seq(Bytes)
        /\ r.reader \in Reader /\ r.reader.expected = x.expected - n
        /\ r.reader.aligned = (/\ x.aligned
                               /\ \A i \in 1..n : s[i] = PackageSize - x.expected + i)
  BY ContentReadIs, Zenon
<1> DEFINE e == x.expected
           k == PackageSize - e + 1
<1>2. e \in 1..ContentSize /\ x.aligned
  BY DEF Aligned
<1>3. Len(s) \in Nat /\ k \in 1..PackageSize /\ n \in Nat
  BY <1>2, SizesAre
<1>4. Flow(s, k) /\ n <= e /\ r.reader.expected = e - n
  BY <1>1
<1>5. \A i \in 1..n : s[i] = PackageSize - e + i
  <2>1. ASSUME NEW i \in 1..n PROVE s[i] = PackageSize - e + i
    <3>1. i \in 1..Len(s) /\ k + i - 1 <= PackageSize /\ k + i - 1 = PackageSize - e + i
      BY <1>2, <1>3, <1>4, SizesAre
    <3> HIDE DEF k
    <3> QED BY <1>3, <1>4, <3>1, FlowIs
  <2> QED BY <2>1
<1>6. r.reader.aligned
  BY <1>1, <1>2, <1>5
<1>7. s # <<>>
  BY <1>3
<1>8. /\ k + n - 1 <= PackageSize
      /\ e - n = 0 => k + n - 1 = PackageSize
      /\ e - n # 0 => /\ k + n - 1 < PackageSize /\ e - n \in 1..ContentSize
                      /\ k + n = PackageSize - (e - n) + 1
  <2>1. /\ e \in Nat /\ n \in Nat /\ n >= 1 /\ n <= e /\ e <= ContentSize
        /\ PackageSize \in Nat /\ ContentSize \in Nat
    BY <1>2, <1>3, <1>4, SizesAre
  <2> HIDE DEF e
  <2> QED BY <2>1
<1> HIDE DEF k, e
<1>9. /\ k + n - 1 < PackageSize => Flow(r.rest, k + n) /\ r.rest # <<>>
      /\ k + n - 1 = PackageSize => Flow(r.rest, 1)
  BY <1>1, <1>3, <1>4, <1>8, FlowRest
<1> QED BY <1>4, <1>6, <1>7, <1>8, <1>9 DEF Aligned

(* A step that changes nothing at this link.                                 *)
SameLink == /\ UNCHANGED <<link, addr, age, left, reader, stalled>>
            /\ serving'[addr] = serving[addr] /\ serverReader'[addr] = serverReader[addr]
            /\ up'[addr] = up[addr] /\ down'[addr] = down[addr]
            /\ lost => lost'

LEMMA SameLinkKeeps ==
  ASSUME Fresh, LinkedInv, SameLink
  PROVE  Fresh' /\ LinkedInv'
<1>1. Fresh'
  BY DEF Fresh, SameLink
<1>2. ASSUME Active' PROVE UpFlows' /\ DownFlows' /\ Heard'
  <2>1. Active
    BY <1>2 DEF Active, Serves, SameLink
  <2>2. ServerNext' = ServerNext /\ LinkNext' = LinkNext
    BY DEF ServerNext, LinkNext, SameLink
  <2>3. UpFlows /\ DownFlows /\ Heard
    BY <2>1 DEF LinkedInv
  <2>4. UpFlows' /\ DownFlows'
    BY <2>2, <2>3 DEF UpFlows, DownFlows, SameLink
  <2>5. Heard'
    BY <2>3 DEF Heard, InFlight, SameLink
  <2> QED BY <2>4, <2>5
<1> QED BY <1>1, <1>2 DEF LinkedInv

(* A step after which the link is not in use, or the other does not run.     *)
LEMMA InactiveKeeps ==
  ASSUME ~Active', link' # "connecting" \/ UNCHANGED <<link, addr, up, down>>, Fresh
  PROVE  Fresh' /\ LinkedInv'
BY DEF Fresh, LinkedInv

LEMMA LinkFresh ==
  ASSUME TypeInv, Link
  PROVE  Fresh' /\ LinkedInv'
<1>1. PICK a \in Addrs : addr' = a
  BY DEF Link
<1>2. up' = [up EXCEPT ![a] = <<>>] /\ down' = [down EXCEPT ![a] = <<>>] /\ link' = "connecting"
  BY <1>1 DEF Link
<1>3. up'[addr'] = <<>> /\ down'[addr'] = <<>>
  BY <1>1, <1>2 DEF TypeInv, StreamTypes
<1> QED BY <1>2, <1>3 DEF Fresh, LinkedInv, Active

LEMMA ConnectedLinked ==
  ASSUME LinkInv, Connected
  PROVE  Fresh' /\ LinkedInv'
<1>1. addr \in Addrs /\ up[addr] = <<>> /\ down[addr] = <<>> /\ link = "connecting"
  BY AddrIs DEF LinkInv, Fresh, Connected
<1>2. /\ link' = "head" /\ left' = Tick /\ addr' = addr
      /\ serving' = [serving EXCEPT ![addr] = "pending"]
      /\ up' = [up EXCEPT ![addr] = WritePackage(up[addr])] /\ down' = down
  BY DEF Connected, AwaitHead
<1>3. /\ serving'[addr] = "pending" /\ down'[addr] = <<>>
      /\ up'[addr] = WritePackage(<<>>)
  <2>1. /\ serving \in [Addrs -> {"none", "pending", "head", "body"}]
        /\ up \in [Addrs -> Seq(Bytes)]
    BY DEF LinkInv, ServedInv, ServedType, TypeInv, StreamTypes
  <2>2. serving'[addr] = "pending"
    BY <1>1, <1>2, <2>1
  <2>3. up'[addr] = WritePackage(up[addr])
    BY <1>1, <1>2, <2>1
  <2>4. down'[addr] = <<>>
    BY <1>1, <1>2
  <2> QED BY <1>1, <2>2, <2>3, <2>4
<1>4. WritePackage(<<>>) # <<>>
  <2>1. <<>> \in Seq(Bytes)
    OBVIOUS
  <2> QED BY <2>1, WrittenIs
<1>5. UpFlows' /\ DownFlows'
  BY <1>2, <1>3, PackageFlows DEF UpFlows, DownFlows, ServerNext, LinkNext
<1>6. Heard'
  BY <1>2, <1>3, <1>4 DEF Heard, InFlight
<1> QED BY <1>2, <1>5, <1>6 DEF Fresh, LinkedInv

(* A whole head in step begins a content; a part of one leaves the link out  *)
(* of step.                                                                  *)
LEMMA ReadLinkHeadLinked ==
  ASSUME LinkInv, ReadLinkHead
  PROVE  Fresh' /\ LinkedInv'
<1>1. /\ link = "head" /\ addr \in Addrs /\ down[addr] \in Seq(Bytes)
      /\ UNCHANGED <<up, serving, serverReader, stalled>>
  BY AddrIs DEF LinkInv, ReadLinkHead, other
<1>2. PICK r \in ReadHead(down[addr]) :
        /\ down' = [down EXCEPT ![addr] = r.rest]
        /\ IF r.whole THEN (\E size \in r.sizes : Content(size)) /\ UNCHANGED lost
           ELSE lost' = TRUE /\ link' = link
  BY DEF ReadLinkHead
<1>3. link' # "connecting"
  BY <1>1, <1>2 DEF Content, Handle, AwaitHead
<1>4. SUFFICES ASSUME Active' PROVE UpFlows' /\ DownFlows' /\ Heard'
  BY <1>3 DEF Fresh, LinkedInv
<1>5. r.whole /\ UNCHANGED lost
  BY <1>2, <1>4 DEF Active
<1>6. PICK size \in r.sizes : Content(size)
  BY <1>2, <1>5
<1>7. UNCHANGED addr
  BY <1>6 DEF Content, Handle, AwaitHead
<1>8. Active
  BY <1>1, <1>4, <1>5, <1>7 DEF Active, Serves
<1>9. UpFlows /\ Flow(down[addr], 1)
  BY <1>1, <1>8 DEF LinkInv, LinkedInv, DownFlows, LinkNext
<1>10. /\ r.sizes = {ContentSize} /\ r.rest # <<>>
       /\ Flow(r.rest, PackageSize - ContentSize + 1)
  BY <1>1, <1>5, <1>9, HeadInStep
<1>11. link' = "body" /\ reader' = Expect(ContentSize)
  BY <1>6, <1>10, SizesAre DEF Content
<1>12. down'[addr] = r.rest
  BY <1>1, <1>2 DEF LinkInv, TypeInv, StreamTypes
<1>13. reader'.expected = ContentSize /\ Aligned(reader')
  BY <1>11, ContentExpected
<1>14. DownFlows'
  BY <1>7, <1>10, <1>11, <1>12, <1>13 DEF DownFlows, LinkNext
<1>15. UpFlows'
  BY <1>1, <1>7, <1>9 DEF UpFlows, ServerNext
<1>16. Heard'
  BY <1>7, <1>10, <1>11, <1>12 DEF Heard, InFlight
<1> QED BY <1>14, <1>15, <1>16

(* A content read whole in step is a pong: the age and the wait begin anew.  *)
LEMMA ReadLinkContentLinked ==
  ASSUME LinkInv, ReadLinkContent
  PROVE  Fresh' /\ LinkedInv'
<1>1. /\ link = "body" /\ addr \in Addrs /\ down[addr] \in Seq(Bytes) /\ reader \in Reader
      /\ UNCHANGED <<up, serving, serverReader, stalled, lost>>
  BY AddrIs DEF LinkInv, ReadLinkContent, other, TypeInv, LinkTypes
<1>2. PICK r \in ReadContent(reader, down[addr]) :
        /\ down' = [down EXCEPT ![addr] = r.rest]
        /\ IF r.reader.expected = 0
           THEN \E kind \in Parse(r.reader, "pong") : Handle(kind)
           ELSE reader' = r.reader /\ UNCHANGED <<link, addr, age, span, left>>
  BY DEF ReadLinkContent
<1>3. link' # "connecting" /\ UNCHANGED addr
  BY <1>1, <1>2 DEF Handle, AwaitHead
<1>4. SUFFICES ASSUME Active' PROVE UpFlows' /\ DownFlows' /\ Heard'
  BY <1>3 DEF Fresh, LinkedInv
<1>5. Active
  BY <1>1, <1>3, <1>4 DEF Active, Serves
<1>6. /\ UpFlows /\ Aligned(reader)
      /\ Flow(down[addr], PackageSize - reader.expected + 1)
  BY <1>1, <1>5 DEF LinkInv, LinkedInv, DownFlows, LinkNext
<1>7. /\ r.reader.aligned
      /\ r.reader.expected = 0 => Flow(r.rest, 1)
      /\ r.reader.expected # 0 =>
           /\ Aligned(r.reader) /\ r.rest # <<>>
           /\ Flow(r.rest, PackageSize - r.reader.expected + 1)
  BY <1>1, <1>6, ContentInStep
<1>8. down'[addr] = r.rest
  BY <1>1, <1>2 DEF LinkInv, TypeInv, StreamTypes
<1>9. UpFlows'
  BY <1>1, <1>3, <1>6 DEF UpFlows, ServerNext
<1>10. CASE r.reader.expected = 0
  <2>1. Handle("pong")
    BY <1>2, <1>7, <1>10 DEF Parse
  <2>2. link' = "head" /\ age' = 0 /\ left' = Tick
    BY <2>1 DEF Handle, AwaitHead
  <2>3. DownFlows'
    BY <1>3, <1>7, <1>8, <1>10, <2>2 DEF DownFlows, LinkNext
  <2>4. Heard'
    BY <2>2, SizesAre DEF Heard
  <2> QED BY <1>9, <2>3, <2>4
<1>11. CASE r.reader.expected # 0
  <2>1. reader' = r.reader /\ link' = "body"
    BY <1>1, <1>2, <1>11
  <2>2. DownFlows'
    BY <1>3, <1>7, <1>8, <1>11, <2>1 DEF DownFlows, LinkNext
  <2>3. Heard'
    BY <1>3, <1>7, <1>8, <1>11, <2>1 DEF Heard, InFlight
  <2> QED BY <1>9, <2>2, <2>3
<1> QED BY <1>10, <1>11

(* When the wait is over nothing was on its way: a ping is sent, and the     *)
(* next wait begins.                                                         *)
LEMMA TimeoutLinked ==
  ASSUME LinkInv, Timeout
  PROVE  Fresh' /\ LinkedInv'
<1>1. /\ link = "head" /\ left = 0 /\ addr \in Addrs /\ up[addr] \in Seq(Bytes)
      /\ age \in 0..ExpireAge + 1
      /\ UNCHANGED <<down, serving, serverReader, stalled>>
  BY AddrIs DEF LinkInv, Timeout, other, TypeInv, LinkTypes
<1>2. link' # "connecting"
  BY DEF Timeout, Return, PingThrows, ServerError, Close, Content, Handle, AwaitHead
<1>3. SUFFICES ASSUME Active' PROVE UpFlows' /\ DownFlows' /\ Heard'
  BY <1>2 DEF Fresh, LinkedInv
<1>4. link' # "none" /\ ~lost'
  BY <1>3 DEF Active
<1>5. Ping /\ \E size \in StaleSizes : Content(size) /\ lost' = (lost \/ size # 0)
  BY <1>4 DEF Timeout, Return, PingThrows, ServerError, Close
<1>6. Content(0) /\ ~lost
  <2>1. PICK size \in StaleSizes : Content(size) /\ lost' = (lost \/ size # 0)
    BY <1>5
  <2> QED BY <1>4, <2>1
<1>7. /\ link' = "head" /\ left' = Tick /\ addr' = addr
  BY <1>6 DEF Content, Handle, AwaitHead
<1>8. Active
  BY <1>1, <1>3, <1>6, <1>7 DEF Active, Serves
<1>9. UpFlows /\ DownFlows /\ Serves
  BY <1>8 DEF LinkInv, LinkedInv, Active
<1>10. up' = [up EXCEPT ![addr] = WritePackage(up[addr])]
  BY <1>5, <1>9 DEF Ping
<1>11. up'[addr] = WritePackage(up[addr])
  BY <1>1, <1>10 DEF LinkInv, TypeInv, StreamTypes
<1>12. up'[addr] # <<>> /\ Flow(up'[addr], ServerNext)
  BY <1>1, <1>9, <1>11, WrittenIs, FlowWritten DEF UpFlows
<1>13. ServerNext' = ServerNext
  BY <1>1, <1>7 DEF ServerNext
<1>14. UpFlows'
  BY <1>1, <1>7, <1>9, <1>12, <1>13 DEF UpFlows
<1>15. DownFlows'
  BY <1>1, <1>7, <1>9 DEF DownFlows, LinkNext
<1>16. Heard'
  BY <1>7, <1>12 DEF Heard, InFlight
<1> QED BY <1>14, <1>15, <1>16

(* The server_main of another connection leaves this link as it is.          *)
LEMMA ServerElsewhere ==
  ASSUME LinkInv, NEW a \in Addrs, Server(a), addr # a
  PROVE  Fresh' /\ LinkedInv'
<1> DEFINE Apart == /\ \E phase, r : Serving(a, phase, r)
                    /\ up' = up \/ \E s : up' = [up EXCEPT ![a] = s]
                    /\ down' = down /\ UNCHANGED <<linker, stalled>> /\ (lost => lost')
<1>1. ASSUME Apart \/ /\ UNCHANGED <<serving, serverReader, down, linker, stalled>>
                      /\ up' = up \/ \E s : up' = [up EXCEPT ![a] = s]
                      /\ lost => lost'
      PROVE  Fresh' /\ LinkedInv'
  <2>1. up \in [Addrs -> Seq(Bytes)]
    BY DEF LinkInv, TypeInv, StreamTypes
  <2>2. serving \in [Addrs -> {"none", "pending", "head", "body"}]
        /\ serverReader \in [Addrs -> Reader]
    BY DEF LinkInv, TypeInv, OtherTypes, ServedInv, ServedType
  <2>3. /\ up' = up \/ \E s : up' = [up EXCEPT ![a] = s]
        /\ \/ \E phase, r : Serving(a, phase, r)
           \/ serving' = serving /\ serverReader' = serverReader
        /\ down' = down /\ UNCHANGED <<linker, stalled>> /\ (lost => lost')
    BY <1>1, Zenon DEF Apart
  <2>4. UNCHANGED <<link, addr, age, left, reader>>
    BY <2>3 DEF linker
  <2>5. CASE addr \in Addrs
    <3>1. up'[addr] = up[addr]
      <4>1. ASSUME NEW s, up' = [up EXCEPT ![a] = s] PROVE up'[addr] = up[addr]
        BY <2>1, <2>5, <4>1
      <4> QED BY <2>3, <4>1
    <3>2. serving'[addr] = serving[addr] /\ serverReader'[addr] = serverReader[addr]
      <4>1. ASSUME NEW phase, NEW r, Serving(a, phase, r)
            PROVE  serving'[addr] = serving[addr] /\ serverReader'[addr] = serverReader[addr]
        BY <2>2, <2>5, <4>1 DEF Serving
      <4> QED BY <2>3, <4>1
    <3>3. SameLink
      BY <2>3, <2>4, <3>1, <3>2 DEF SameLink
    <3> QED BY <3>3, SameLinkKeeps DEF LinkInv
  <2>6. CASE addr \notin Addrs
    <3>1. link' = "none"
      BY <2>4, <2>6, AddrIs DEF LinkInv
    <3> QED BY <3>1, InactiveKeeps DEF LinkInv, Active
  <2> QED BY <2>5, <2>6
<1> HIDE DEF Apart
<1>2. ~Linked(a)
  BY DEF Linked
<1>3. UNCHANGED <<linker, stalled>> /\ (lost => lost')
  <2>1. UNCHANGED <<linker, stalled>>
    BY DEF Server, Accept, ReadServerHead, ReadServerContent, ServerEof
  <2>2. UNCHANGED lost \/ ReadServerHead(a)
    BY DEF Server, Accept, ReadServerContent, ServerEof
  <2>3. ASSUME ReadServerHead(a), lost PROVE lost'
    BY <2>3, Zenon DEF ReadServerHead
  <2> QED BY <2>1, <2>2, <2>3
<1>4. ASSUME NEW kind, Serve(a, kind), \E s : up' = [up EXCEPT ![a] = s] PROVE Apart
  <2>1. down' = down /\ \E phase, r : Serving(a, phase, r)
    BY <1>2, <1>4 DEF Serve, ExitClient
  <2> QED BY <1>3, <1>4, <2>1 DEF Apart
<1>5. CASE Accept(a)
  <2>1. Serving(a, "head", Expect(0)) /\ UNCHANGED <<up, down>>
    BY <1>5 DEF Accept
  <2>2. Apart
    BY <1>3, <2>1 DEF Apart
  <2> QED BY <1>1, <2>2
<1>6. CASE ReadServerHead(a)
  <2>1. PICK r \in ReadHead(up[a]) :
          /\ up' = [up EXCEPT ![a] = r.rest]
          /\ IF r.whole
             THEN \E size \in r.sizes :
                    IF size = 0 THEN Serve(a, ParseNothing)
                    ELSE Serving(a, "body", Expect(size)) /\ UNCHANGED down
             ELSE UNCHANGED <<serving, serverReader, down>>
    BY <1>6 DEF ReadServerHead
  <2>2. CASE r.whole
    <3>1. \/ Serve(a, ParseNothing)
          \/ \E size : Serving(a, "body", Expect(size)) /\ UNCHANGED down
      BY <2>1, <2>2
    <3>2. \E s : up' = [up EXCEPT ![a] = s]
      BY <2>1
    <3>3. ASSUME \E size : Serving(a, "body", Expect(size)) /\ UNCHANGED down PROVE Apart
      BY <1>3, <3>2, <3>3 DEF Apart
    <3>4. Apart
      BY <1>4, <3>1, <3>2, <3>3
    <3> QED BY <1>1, <3>4
  <2>3. CASE ~r.whole
    <3>1. UNCHANGED <<serving, serverReader, down>> /\ \E s : up' = [up EXCEPT ![a] = s]
      BY <2>1, <2>3
    <3> QED BY <1>1, <1>3, <3>1
  <2> QED BY <2>2, <2>3
<1>7. CASE ReadServerContent(a)
  <2>1. PICK r \in ReadContent(serverReader[a], up[a]) :
          /\ up' = [up EXCEPT ![a] = r.rest]
          /\ IF r.reader.expected = 0 THEN \E kind : Serve(a, kind)
             ELSE Serving(a, "body", r.reader) /\ UNCHANGED down
    BY <1>7 DEF ReadServerContent
  <2>2. \E s : up' = [up EXCEPT ![a] = s]
    BY <2>1
  <2>3. \/ \E kind : Serve(a, kind)
        \/ Serving(a, "body", r.reader) /\ UNCHANGED down
    BY <2>1
  <2>4. ASSUME Serving(a, "body", r.reader) /\ UNCHANGED down PROVE Apart
    BY <1>3, <2>2, <2>4 DEF Apart
  <2>5. Apart
    BY <1>4, <2>2, <2>3, <2>4
  <2> QED BY <1>1, <2>5
<1>8. CASE ServerEof(a)
  <2>1. Serving(a, "none", Expect(0)) /\ UNCHANGED <<up, down>>
    BY <1>8 DEF ServerEof, ExitClient
  <2>2. Apart
    BY <1>3, <2>1 DEF Apart
  <2> QED BY <1>1, <2>2
<1> QED BY <1>5, <1>6, <1>7, <1>8 DEF Server

(* What server_main of this connection sets.                                 *)
LEMMA ServingIs ==
  ASSUME LinkInv, NEW a \in Addrs, NEW phase, NEW r, Serving(a, phase, r)
  PROVE  serving'[a] = phase /\ serverReader'[a] = r
BY DEF Serving, LinkInv, TypeInv, OtherTypes, ServedInv, ServedType

(* The link as the other's coroutine finds it.                               *)
LEMMA LinkAtServer ==
  ASSUME LinkInv, Active', UNCHANGED <<linker, stalled>>, lost => lost', Serves
  PROVE  /\ Active /\ UpFlows /\ DownFlows /\ Heard /\ addr \in Addrs
         /\ up[addr] \in Seq(Bytes) /\ down[addr] \in Seq(Bytes)
         /\ serverReader[addr] \in Reader /\ Linked(addr) /\ addr' = addr
<1>1. UNCHANGED <<link, addr>>
  BY DEF linker
<1>2. Active
  BY <1>1 DEF Active
<1>3. link # "none" /\ Linked(addr)
  BY <1>2 DEF Active, Linked
<1>4. addr \in Addrs /\ up[addr] \in Seq(Bytes) /\ down[addr] \in Seq(Bytes)
  BY <1>3, AddrIs DEF LinkInv
<1> QED BY <1>1, <1>2, <1>3, <1>4 DEF LinkInv, LinkedInv, TypeInv, OtherTypes

(* While a package is on its way the wait was just begun, and stays so.      *)
LEMMA HeardInFlight ==
  ASSUME Heard, InFlight, InFlight', UNCHANGED linker
  PROVE  Heard'
BY DEF Heard, linker

LEMMA DownKeeps ==
  ASSUME DownFlows, UNCHANGED linker, down'[addr] = down[addr]
  PROVE  DownFlows'
BY DEF DownFlows, LinkNext, linker

LEMMA AcceptLinked ==
  ASSUME LinkInv, addr \in Addrs, Accept(addr)
  PROVE  Fresh' /\ LinkedInv'
<1>1. /\ UNCHANGED <<linker, stalled, up, down, lost>> /\ serving[addr] = "pending"
      /\ serving'[addr] = "head"
  BY ServingIs DEF Accept, AcceptFrom
<1>2. UNCHANGED <<link, addr>>
  BY <1>1 DEF linker
<1>3. Fresh'
  BY <1>1, <1>2 DEF LinkInv, Fresh
<1>4. ASSUME Active' PROVE UpFlows' /\ DownFlows' /\ Heard'
  <2>1. UpFlows /\ DownFlows /\ Heard
    BY <1>1, <1>4, LinkAtServer DEF Serves
  <2>2. UpFlows'
    BY <1>1, <1>2, <2>1 DEF UpFlows, ServerNext
  <2>3. DownFlows'
    BY <1>1, <2>1, DownKeeps
  <2>4. Heard'
    BY <1>1, <2>1 DEF Heard, InFlight, linker
  <2> QED BY <2>2, <2>3, <2>4
<1> QED BY <1>3, <1>4 DEF LinkedInv

LEMMA NotConnecting ==
  ASSUME LinkInv, Serves, UNCHANGED linker
  PROVE  Fresh'
BY DEF LinkInv, ServedInv, ConnectingIsFree, Serves, Fresh, linker

LEMMA ReadServerHeadLinked ==
  ASSUME LinkInv, addr \in Addrs, ReadServerHead(addr)
  PROVE  Fresh' /\ LinkedInv'
<1>1. UNCHANGED <<linker, stalled>> /\ serving[addr] = "head" /\ Serves /\ (lost => lost')
  BY DEF ReadServerHead, Serves
<1>2. Fresh'
  BY <1>1, NotConnecting
<1>3. SUFFICES ASSUME Active' PROVE UpFlows' /\ DownFlows' /\ Heard'
  BY <1>2 DEF LinkedInv
<1>4. /\ UpFlows /\ DownFlows /\ Heard
      /\ up[addr] \in Seq(Bytes) /\ addr' = addr
  BY <1>1, <1>3, LinkAtServer
<1>5. PICK r \in ReadHead(up[addr]) :
        /\ up' = [up EXCEPT ![addr] = r.rest]
        /\ IF r.whole
           THEN \E size \in r.sizes :
                  IF size = 0 THEN Serve(addr, ParseNothing)
                  ELSE Serving(addr, "body", Expect(size)) /\ UNCHANGED down
           ELSE lost' = (lost \/ addr = addr)
  BY DEF ReadServerHead
<1>6. r.whole
  BY <1>3, <1>5 DEF Active
<1>7. Flow(up[addr], 1)
  BY <1>1, <1>4 DEF UpFlows, ServerNext
<1>8. /\ r.sizes = {ContentSize} /\ r.rest # <<>> /\ up[addr] # <<>>
      /\ Flow(r.rest, PackageSize - ContentSize + 1)
  BY <1>4, <1>6, <1>7, HeadInStep
<1>9. Serving(addr, "body", Expect(ContentSize)) /\ down' = down
  BY <1>5, <1>6, <1>8, SizesAre
<1>10. serving'[addr] = "body" /\ serverReader'[addr] = Expect(ContentSize)
  BY <1>9, ServingIs
<1>11. up'[addr] = r.rest
  <2>1. up' = [up EXCEPT ![addr] = r.rest] /\ up \in [Addrs -> Seq(Bytes)]
    BY <1>5 DEF LinkInv, TypeInv, StreamTypes
  <2> QED BY <2>1
<1>12. UpFlows'
  BY <1>4, <1>8, <1>10, <1>11, ContentExpected DEF UpFlows, ServerNext
<1>13. DownFlows'
  BY <1>1, <1>4, <1>9, DownKeeps
<1>14. InFlight /\ InFlight'
  BY <1>4, <1>8, <1>11 DEF InFlight
<1> QED BY <1>1, <1>4, <1>12, <1>13, <1>14, HeardInFlight

(* A content in step is a ping, and a pong is written.                       *)
LEMMA ReadServerContentLinked ==
  ASSUME LinkInv, addr \in Addrs, ReadServerContent(addr)
  PROVE  Fresh' /\ LinkedInv'
<1>1. UNCHANGED <<linker, stalled, lost>> /\ serving[addr] = "body" /\ Serves
  BY DEF ReadServerContent, Serves
<1>2. Fresh'
  BY <1>1, NotConnecting
<1>3. SUFFICES ASSUME Active' PROVE UpFlows' /\ DownFlows' /\ Heard'
  BY <1>2 DEF LinkedInv
<1>4. /\ UpFlows /\ DownFlows /\ Heard /\ Linked(addr) /\ addr' = addr
      /\ up[addr] \in Seq(Bytes) /\ down[addr] \in Seq(Bytes)
      /\ serverReader[addr] \in Reader
  BY <1>1, <1>3, LinkAtServer
<1>5. PICK r \in ReadContent(serverReader[addr], up[addr]) :
        /\ up' = [up EXCEPT ![addr] = r.rest]
        /\ IF r.reader.expected = 0
           THEN \E kind \in Parse(r.reader, "ping") : Serve(addr, kind)
           ELSE Serving(addr, "body", r.reader) /\ UNCHANGED down
  BY DEF ReadServerContent
<1>6. /\ Aligned(serverReader[addr])
      /\ Flow(up[addr], PackageSize - serverReader[addr].expected + 1)
  BY <1>1, <1>4 DEF UpFlows, ServerNext
<1>7. /\ r.reader.aligned /\ up[addr] # <<>>
      /\ r.reader.expected = 0 => Flow(r.rest, 1)
      /\ r.reader.expected # 0 =>
           /\ Aligned(r.reader) /\ r.rest # <<>>
           /\ Flow(r.rest, PackageSize - r.reader.expected + 1)
  BY <1>4, <1>6, ContentInStep
<1>8. up'[addr] = r.rest
  <2>1. up' = [up EXCEPT ![addr] = r.rest] /\ up \in [Addrs -> Seq(Bytes)]
    BY <1>5 DEF LinkInv, TypeInv, StreamTypes
  <2> QED BY <2>1
<1>9. InFlight
  BY <1>7 DEF InFlight
<1>10. CASE r.reader.expected = 0
  <2>1. Serve(addr, "ping")
    BY <1>5, <1>7, <1>10 DEF Parse
  <2>2. Serving(addr, "head", Expect(0)) /\ down' = [down EXCEPT ![addr] = WritePackage(down[addr])]
    BY <1>4, <2>1 DEF Serve
  <2>3. serving'[addr] = "head"
    BY <2>2, ServingIs
  <2>4. down'[addr] = WritePackage(down[addr])
    BY <2>2 DEF LinkInv, TypeInv, StreamTypes
  <2>5. down'[addr] # <<>> /\ Flow(down'[addr], LinkNext)
    BY <1>4, <2>4, WrittenIs, FlowWritten DEF DownFlows
  <2>6. UpFlows'
    BY <1>4, <1>7, <1>8, <1>10, <2>3 DEF UpFlows, ServerNext
  <2>7. LinkNext' = LinkNext /\ UNCHANGED <<link, reader>>
    BY <1>1 DEF LinkNext, linker
  <2>8. DownFlows'
    BY <1>4, <2>5, <2>7 DEF DownFlows
  <2>9. InFlight'
    BY <1>4, <2>5 DEF InFlight
  <2> QED BY <1>1, <1>4, <1>9, <2>6, <2>8, <2>9, HeardInFlight
<1>11. CASE r.reader.expected # 0
  <2>1. Serving(addr, "body", r.reader) /\ down' = down
    BY <1>5, <1>11
  <2>2. serving'[addr] = "body" /\ serverReader'[addr] = r.reader
    BY <2>1, ServingIs
  <2>3. UpFlows'
    BY <1>4, <1>7, <1>8, <1>11, <2>2 DEF UpFlows, ServerNext
  <2>4. DownFlows'
    BY <1>1, <1>4, <2>1, DownKeeps
  <2>5. InFlight'
    BY <1>4, <1>7, <1>8, <1>11 DEF InFlight
  <2> QED BY <1>1, <1>4, <1>9, <2>3, <2>4, <2>5, HeardInFlight
<1> QED BY <1>10, <1>11

LEMMA ServerLinked ==
  ASSUME LinkInv, NEW a \in Addrs, Server(a)
  PROVE  Fresh' /\ LinkedInv'
<1>1. CASE addr # a
  BY <1>1, ServerElsewhere
<1>2. CASE addr = a
  <2>1. CASE Accept(a)
    BY <1>2, <2>1, AcceptLinked
  <2>2. CASE ReadServerHead(a)
    BY <1>2, <2>2, ReadServerHeadLinked
  <2>3. CASE ReadServerContent(a)
    BY <1>2, <2>3, ReadServerContentLinked
  <2>4. CASE ServerEof(a)
    <3>1. ~Linked(a) /\ UNCHANGED <<linker, up, down>> /\ UNCHANGED <<link, addr>>
      BY <2>4 DEF ServerEof, linker
    <3>2. ~Active'
      BY <1>2, <3>1 DEF Linked, Active
    <3> QED BY <3>1, <3>2, InactiveKeeps DEF LinkInv
  <2> QED BY <2>1, <2>2, <2>3, <2>4 DEF Server
<1> QED BY <1>1, <1>2

(* Time passes only when nothing is on its way.                              *)
LEMMA ElapseLinked ==
  ASSUME LinkInv, Elapse
  PROVE  Fresh' /\ LinkedInv'
<1>1. /\ age' = IF age > ExpireAge THEN age ELSE age + 1
      /\ left' = IF left = 0 THEN 0 ELSE left - 1
      /\ UNCHANGED <<link, addr, reader, up, down, lost>>
      /\ UNCHANGED <<serving, serverReader, stalled>>
      /\ ~Busy
  BY DEF Elapse, other
<1>2. Fresh'
  BY <1>1 DEF LinkInv, Fresh
<1>3. SUFFICES ASSUME Active' PROVE UpFlows' /\ DownFlows' /\ Heard'
  BY <1>2 DEF LinkedInv
<1>4. Active
  BY <1>1, <1>3 DEF Active, Serves
<1>5. UpFlows /\ DownFlows /\ Heard
  BY <1>4 DEF LinkInv, LinkedInv
<1>6. /\ link \in {"head", "body"} /\ serving[addr] # "none" /\ ~stalled
      /\ addr \in Addrs /\ addr # NoAddr
  BY <1>4, AddrIs, AddrAssumption DEF Active, Serves, LinkInv
<1>7. serving[addr] \in {"pending", "head", "body"}
  BY <1>6 DEF LinkInv, ServedInv, ServedType
<1>8. down[addr] = <<>>
  BY <1>1, <1>6 DEF Busy, Readable
<1>9. up[addr] = <<>>
  BY <1>1, <1>6, <1>7 DEF Busy, Readable
<1>10. link = "head" /\ age + left <= Tick
  BY <1>5, <1>8, <1>9 DEF Heard, InFlight
<1>11. left # 0
  BY <1>1, <1>10 DEF Busy
<1>12. age \in 0..ExpireAge + 1 /\ left \in Nat
  BY SizesAre DEF LinkInv, TypeInv, LinkTypes
<1>13. age' + left' <= Tick
  BY <1>1, <1>10, <1>11, <1>12, SizesAre
<1>14. Heard'
  BY <1>1, <1>8, <1>9, <1>10, <1>13 DEF Heard, InFlight
<1>15. UpFlows' /\ DownFlows'
  BY <1>1, <1>5 DEF UpFlows, DownFlows, ServerNext, LinkNext
<1> QED BY <1>14, <1>15

LEMMA LinkInductive ==
  ASSUME LinkInv, [Next]_vars
  PROVE  LinkInv'
<1>1. ServedInv' /\ TypeInv'
  BY ServedInductive, TypesInductive DEF LinkInv
<1>2. SUFFICES Fresh' /\ LinkedInv'
  BY <1>1 DEF LinkInv
<1>3. CASE Link
  BY <1>3, LinkFresh DEF LinkInv
<1>4. CASE Connected
  BY <1>4, ConnectedLinked
<1>5. CASE ReadLinkHead
  BY <1>5, ReadLinkHeadLinked
<1>6. CASE ReadLinkContent
  BY <1>6, ReadLinkContentLinked
<1>7. CASE Timeout
  BY <1>7, TimeoutLinked
<1>8. CASE LinkEof \/ ConnectFails
  <2>1. link' = "none"
    BY <1>8 DEF LinkEof, ConnectFails, Return, ServerError, Close
  <2> QED BY <2>1, InactiveKeeps DEF LinkInv, Active
<1>9. ASSUME NEW a \in Addrs, Server(a) PROVE Fresh' /\ LinkedInv'
  BY <1>9, ServerLinked
<1>10. CASE Stall
  <2>1. stalled' = TRUE /\ UNCHANGED <<link, addr, up, down>>
    BY <1>10 DEF Stall, linker
  <2> QED BY <2>1, InactiveKeeps DEF LinkInv, Active
<1>11. CASE Restart
  <2>1. UNCHANGED <<link, addr, up, down>> /\ serving' = [a \in Addrs |-> "none"]
    BY <1>11 DEF Restart, linker
  <2>2. link # "none" => addr \in Addrs
    BY AddrIs DEF LinkInv
  <2>3. ~Active'
    BY <2>1, <2>2 DEF Active, Serves
  <2> QED BY <2>1, <2>3, InactiveKeeps DEF LinkInv
<1>12. CASE Elapse
  BY <1>12, ElapseLinked
<1>13. CASE TrackersReq \/ UNCHANGED vars
  <2>1. SameLink
    BY <1>13 DEF TrackersReq, vars, linker, other, SameLink
  <2> QED BY <2>1, SameLinkKeeps DEF LinkInv
<1> QED BY <1>3, <1>4, <1>5, <1>6, <1>7, <1>8, <1>9, <1>10, <1>11, <1>12, <1>13
        DEF Next, Linker

(* A link on which no head was lost is heard of in time (LinkedIsListed):    *)
(* the pings and pongs of client_main and server_main come back within a     *)
(* tick of each other, whatever parts their contents come in, for any sizes  *)
(* of packages, any tick and any number of links, ports and restarts.        *)
THEOREM LinkedStaysListed == Spec => []LinkedIsListed
<1>1. Init => LinkInv
  <2>1. Init => Fresh /\ LinkedInv
    BY DEF Init, Fresh, LinkedInv, Active
  <2> QED BY <2>1, InitServed, InitTypes DEF LinkInv
<1>2. LinkInv /\ [Next]_vars => LinkInv'
  BY LinkInductive
<1>3. LinkInv => LinkedIsListed
  <2> SUFFICES ASSUME LinkInv, link = "head", left < Tick, Serves, ~stalled, ~lost
               PROVE  age < ExpireAge
    BY DEF LinkedIsListed
  <2>1. Heard /\ left \in Nat /\ age \in 0..ExpireAge + 1
    BY SizesAre DEF LinkInv, LinkedInv, Active, TypeInv, LinkTypes
  <2>2. ~InFlight
    BY <2>1, SizesAre DEF Heard
  <2>3. age + left <= Tick
    BY <2>1, <2>2 DEF Heard
  <2> QED BY <2>1, <2>3, SizesAre
<1> QED BY <1>1, <1>2, <1>3, PTL DEF Spec
===============================================================================
