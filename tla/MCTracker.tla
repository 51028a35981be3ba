------------------------------- MODULE MCTracker -------------------------------
(* Values for Tracker: an edge server beside a node of another session, or  *)
(* beside an edge server without the key; requests for edge nodes.          *)
EXTENDS Tracker, TLC

CONSTANTS c1, c2

Node(s, k, r, g) == [sid |-> s, key |-> k, registers |-> r, garbage |-> g]

Edge    == Node(0, TRUE, TRUE, FALSE)
NoKey   == Node(0, FALSE, TRUE, TRUE)
Sharing == Node(1, FALSE, TRUE, FALSE)
Viewer  == Node(1, FALSE, FALSE, TRUE)

MCProfiles == {(c1 :> Edge) @@ (c2 :> p) : p \in {NoKey, Sharing, Viewer}}
MCRequests == {[strategy |-> "edge_nodes", count |-> 2], [strategy |-> "random", count |-> 1]}
===============================================================================
