------------------------------ MODULE NetState ------------------------------
(***************************************************************************)
(* The state net_loop() shares with every protocol it runs (net/net.c):    *)
(* the modules of the loop and of the protocols EXTEND this one, so that   *)
(* NetLoop_proofs can speak of all of them.                                *)
(***************************************************************************)
VARIABLES
  net_state,      \* "CONTINUE", "RESTART", "SUCCESS" or "FAIL"
  net_try_count
=============================================================================
