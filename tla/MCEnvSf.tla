------------------------------- MODULE MCEnvSf -------------------------------
(***************************************************************************)
(* Instances of EnvSf for TLC: two environments besides the default, so    *)
(* that an old, a new and a retried environment can differ; sectors shared *)
(* with other data or not; errors of the flash or power failures alone.    *)
(***************************************************************************)
EXTENDS EnvSf
=============================================================================
