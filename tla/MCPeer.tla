-------------------------------- MODULE MCPeer --------------------------------
(* Values for Peer: two peers of one session, or of two; operations on the  *)
(* queues of requests, of data, or of both.                                 *)
EXTENDS Peer, TLC

CONSTANTS p1, p2

AnySession    == {(p1 :> 0) @@ (p2 :> 1)}
MixedSessions == AnySession \cup {(p1 :> 1) @@ (p2 :> 2)}
TwoKinds      == {"frag_send", "meta_req"}
===============================================================================
