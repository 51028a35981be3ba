----------------------------- MODULE MCEventLoop -----------------------------
(* The contexts and the other threads are interchangeable: safety runs      *)
(* explore one representative of each permutation of them.                  *)
EXTENDS EventLoop, TLC

CtxWriterSymmetry == Permutations(Ctx) \cup Permutations(Writers)
==============================================================================
