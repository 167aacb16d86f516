----------------------------- MODULE MCEnvFlash -----------------------------
(***************************************************************************)
(* Instances of EnvFlash for TLC: two environments besides the default, in *)
(* sectors shared with other data, on a flash that may report an error at  *)
(* every step and lose power in and between steps.                         *)
(***************************************************************************)
EXTENDS EnvFlash
=============================================================================
