----------------------------- MODULE EnvPromise -----------------------------
(***************************************************************************)
(* What a persistent store for the U-Boot environment promises to the user *)
(* of "saveenv", whatever medium it lives on:                              *)
(*   - a boot whose reads all work loads the last environment that was     *)
(*     saved with success or loaded, or one whose save was begun since     *)
(*     then and never reported as done (power failed, or the save failed); *)
(*   - once a boot has loaded an environment, later boots keep loading it; *)
(*   - a boot that could not read everything may load anything, and that   *)
(*     alone costs nothing: the store is as it was until the next save.    *)
(* EnvMmc, EnvSf and EnvFlash are shown to implement it.                   *)
(***************************************************************************)
CONSTANTS
  Vals,       \* the environments a user can save
  Default     \* default_environment, used when nothing could be loaded

Envs == Vals \cup {Default}

VARIABLES
  up,         \* U-Boot has loaded an environment and runs
  env,        \* the environment in RAM (env_htab)
  degraded,   \* the last boot could not read, or not import, everything
  saved,      \* the last environment saved with success, or loaded
  maybe       \* environments whose save was begun since and not reported done

promiseVars == <<up, env, degraded, saved, maybe>>

PromiseInit ==
  /\ up = FALSE
  /\ env = Default
  /\ degraded = FALSE
  /\ saved \in Envs
  /\ maybe = {}

\* A boot that reads everything.
CleanBoot ==
  /\ ~up
  /\ up' = TRUE
  /\ degraded' = FALSE
  /\ env' \in {saved} \cup maybe
  /\ saved' = env'
  /\ maybe' = {}

\* A boot that reads less than everything.
DegradedBoot ==
  /\ ~up
  /\ up' = TRUE
  /\ degraded' = TRUE
  /\ env' \in Envs
  /\ UNCHANGED <<saved, maybe>>

\* The environment in RAM is edited, or reset to the default.
Edit ==
  /\ up
  /\ env' \in Envs
  /\ UNCHANGED <<up, degraded, saved, maybe>>

\* "saveenv" begins. After a degraded boot it may overwrite the copy that
\* could not be read, so until it is done anything may be found.
SaveBegin ==
  /\ up
  /\ maybe' = IF degraded THEN Envs ELSE maybe \cup {env}
  /\ UNCHANGED <<up, env, degraded, saved>>

\* "saveenv" reports success.
SaveDone ==
  /\ up
  /\ env \in maybe
  /\ saved' = env
  /\ maybe' = {}
  /\ degraded' = FALSE
  /\ UNCHANGED <<up, env>>

\* Power fails or the board is reset.
PowerOff ==
  /\ up
  /\ up' = FALSE
  /\ env' = Default
  /\ degraded' = FALSE
  /\ UNCHANGED <<saved, maybe>>

PromiseNext ==
  \/ CleanBoot
  \/ DegradedBoot
  \/ Edit
  \/ SaveBegin
  \/ SaveDone
  \/ PowerOff

PromiseSpec == PromiseInit /\ [][PromiseNext]_promiseVars

=============================================================================
