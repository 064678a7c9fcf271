------------------------------ MODULE MCWorker ------------------------------
(***************************************************************************)
(* Small instances of Worker.                                              *)
(***************************************************************************)
EXTENDS Worker, TLC

CONSTANTS w1, w2, c1, c2, c3, i1, i2

Symmetry == Permutations({c1, c2, c3}) \cup Permutations({i1, i2})
=============================================================================
