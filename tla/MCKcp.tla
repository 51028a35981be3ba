------------------------------- MODULE MCKcp -------------------------------
(* Values for TLC: the three modes of rudp_impl_t::config, with the numbers  *)
(* scaled down. In the normal mode one end writes more pieces than the       *)
(* other's window takes, in one of the fast modes both write, and in the     *)
(* other the network does worse.                                             *)
EXTENDS Kcp

CONSTANTS a, b

MCEnds == {a, b}
MCResend == (0 :> 1) @@ (1 :> 2)
Fastest == Config(0)
Fast    == Config(1)
Normal  == Config(2)

Writes(m, n) == (a :> m) @@ (b :> n)
MCQuota == (Fastest :> Writes(2, 0)) @@ (Fast :> Writes(2, 1)) @@ (Normal :> Writes(4, 0))
MCMaxFaults == (Fastest :> 2) @@ (Fast :> 1) @@ (Normal :> 1)
=============================================================================
