------------------------------- MODULE MCRudp -------------------------------
(* Values for TLC: two endpoints, so that one is swept when the other is     *)
(* added and their timers share slots.                                       *)
EXTENDS Rudp
CONSTANTS e1, e2
MCEndpoints == {e1, e2}
MCWriters == {e1}
=============================================================================
