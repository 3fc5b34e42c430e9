----------------------------- MODULE MCSession -----------------------------
(* TLC instances of Session.                                               *)
EXTENDS Session

Symmetry == Permutations(Conns) \cup Permutations(Forwards)
=============================================================================
