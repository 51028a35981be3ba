----------------------------- MODULE TcpPackage -----------------------------
(* Packages over a byte stream: a head that holds the size of the content,   *)
(* then the content (lib/net/tcp.cc), read and written through a socket that *)
(* takes and gives what it can (bsd_socket_t in lib/net/socket.cc) and a     *)
(* buffer with a cursor (socket_buffer_t).                                   *)
(*                                                                           *)
(* A byte is its place in its package: every package of a stream is alike.   *)
EXTENDS Naturals, Sequences

CONSTANTS HeadSize, ContentSize,
          Sizes    \* what bytes that are no head may be taken for

ASSUME SizeAssumption == /\ HeadSize \in Nat \ {0} /\ ContentSize \in Nat \ {0}
                         /\ Sizes \subseteq Nat /\ ContentSize \in Sizes

(* A head with the size of what follows it, then the content.                *)
Package == [i \in 1..HeadSize + ContentSize |-> i]
WritePackage(stream) == stream \o Package

(* aread: what has come, up to what the buffer still expects.                *)
Received(expected, stream) == {n \in 1..expected : n <= Len(stream)}
Rest(stream, n) == SubSeq(stream, n + 1, Len(stream))

(* conn_aread_packet_head makes its buffer anew on every call: a head that   *)
(* comes in parts loses those that came first.                               *)
ReadHead(stream) ==
  {[whole |-> n = HeadSize, rest |-> Rest(stream, n),
    sizes |-> IF SubSeq(stream, 1, n) = [i \in 1..HeadSize |-> i] THEN {ContentSize}
              ELSE Sizes] :
     n \in Received(HeadSize, stream)}

(* A content that is being read: what the buffer still expects, and whether  *)
(* the bytes are those of one package.                                       *)
Reader == [expected : Nat, aligned : BOOLEAN]
Expect(size) == [expected |-> size, aligned |-> size = ContentSize]

(* Mutant: the buffer made anew for the content too.                         *)
ReadContentAnew(reader, stream) ==
  {[reader |-> IF n = reader.expected THEN [reader EXCEPT !.expected = 0] ELSE reader,
    rest |-> Rest(stream, n)] : n \in Received(reader.expected, stream)}

(* conn_aread_packet_content keeps its buffer from call to call.             *)
ReadContent(reader, stream) ==
  {[reader |-> [expected |-> reader.expected - n,
                aligned |-> /\ reader.aligned
                            /\ \A i \in 1..n :
                                 stream[i] = HeadSize + ContentSize - reader.expected + i],
    rest |-> Rest(stream, n)] : n \in Received(reader.expected, stream)}

(* ParseFromArray: a content read whole is the package that was written; of  *)
(* other bytes, and of none, anything or nothing may be made out.            *)
Parse(reader, kind) == IF reader.aligned THEN {kind} ELSE {kind, "other"}
ParseNothing == "other"
=============================================================================
