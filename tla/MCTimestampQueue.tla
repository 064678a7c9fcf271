-------------------------- MODULE MCTimestampQueue --------------------------
(***************************************************************************)
(* Small instances of TimestampQueue.                                      *)
(***************************************************************************)
EXTENDS TimestampQueue, TLC

CONSTANTS p1, p2, p3, g1, g2, g3, v1, v2

\* Interchangeable calls: PutSymmetry where all puts may be cancelled or none,
\* CallSymmetry where the same holds of gets and of their timeouts too.
PutSymmetry == Permutations(Puts)
CallSymmetry == Permutations(Puts) \cup Permutations(Gets)
=============================================================================
