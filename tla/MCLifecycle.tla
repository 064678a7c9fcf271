---------------------------- MODULE MCLifecycle -----------------------------
(***************************************************************************)
(* A small instance of Lifecycle: connectors k1 and k2, workers a and b    *)
(* (b outside the active groups in some runs), two SIGTERMs.               *)
(***************************************************************************)
EXTENDS Lifecycle, TLC

CONSTANTS k1, k2, a, b, x, g, h, main, t1, t2

MCGroups == (k1 :> {} @@ k2 :> {g} @@ a :> {g} @@ b :> {} @@ x :> {h})
=============================================================================
