---------------------------- MODULE MCSubprocess ----------------------------
(***************************************************************************)
(* A small instance of Subprocess: the runner and a user task call run_cmd, *)
(* with two starts and room for two processes.                              *)
(***************************************************************************)
EXTENDS Subprocess

CONSTANTS r, u, k1, k2, s1, p1, p2

Section(wait, daemon, aioworkers, force) ==
  [wait |-> wait, daemon |-> daemon, aioworkers |-> aioworkers, force |-> force]
MCSettings ==
  { Section(TRUE, FALSE, TRUE, TRUE), Section(TRUE, FALSE, FALSE, FALSE),
    Section(FALSE, FALSE, FALSE, FALSE),
    Section(TRUE, TRUE, FALSE, TRUE), Section(FALSE, TRUE, TRUE, FALSE) }
=============================================================================
