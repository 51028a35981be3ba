---------------------------- MODULE MCTrackerLink ----------------------------
(* Values for TLC: two ports, of which one is used again or not, heads and   *)
(* contents of two bytes, a size that no stream of this instance fills.      *)
EXTENDS TrackerLink
CONSTANTS p1, p2
MCAddrs == {p1, p2}
MCSizes == {0, ContentSize, 9}
==============================================================================
