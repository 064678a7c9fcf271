---------------------------- MODULE MCSupervisor ----------------------------
(***************************************************************************)
(* Small instances of Supervisor.                                          *)
(***************************************************************************)
EXTENDS Supervisor, TLC

CONSTANTS w1, w2, i1, i2
=============================================================================
