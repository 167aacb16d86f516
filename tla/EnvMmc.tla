------------------------------- MODULE EnvMmc -------------------------------
(***************************************************************************)
(* The redundant environment on an MMC (env/mmc.c with                     *)
(* CONFIG_ENV_OFFSET_REDUND, env/common.c): two copies, the newer told by  *)
(* a serial number that env_export() increments and that wraps at FlagMax. *)
(*                                                                         *)
(* A power failure may come between any two steps and in the middle of the *)
(* write.  Cards differ in the errors they report: a copy that cannot be   *)
(* read at a boot, a write that returns an error to a U-Boot that goes on  *)
(* running.  A device that cannot be set up (init_mmc_for_env) leaves      *)
(* everything as it was when saving, and loads as one of which no copy can *)
(* be read.                                                                *)
(***************************************************************************)
EXTENDS EnvRedund

\* The errors a card may report: "read", a load fails to read a copy or to
\* import it; "write", a write returns an error.
CONSTANT CardErrors

ASSUME ErrorsAssumption == CardErrors \subseteq {"read", "write"}

VARIABLES
  media,      \* the two copies on the card
  pc,         \* "off", "idle", or "write": inside env_mmc_save()
  env,        \* env_htab
  env_valid,  \* gd->env_valid
  env_flags,  \* the serial number of the copy in use
  errors,     \* the card: the errors it reports
  \* History, for the promise of the store only.
  degraded, saved, maybe

vars == <<media, pc, env, env_valid, env_flags, errors, degraded, saved, maybe>>

\* RAM before anything was loaded: env_init() finds no driver with an init
\* operation and leaves ENV_VALID; env_flags is in bss.
PoweredOff ==
  /\ pc = "off"
  /\ env = Default
  /\ env_valid = ENV_VALID
  /\ env_flags = 0
  /\ degraded = FALSE

Init ==
  /\ media \in FactoryMedia(Flags)
  /\ errors \in SUBSET CardErrors
  /\ PoweredOff
  /\ saved = Stored(media)
  /\ maybe = {}

\* env_mmc_load()
Load ==
  /\ pc = "off"
  /\ \E readable \in SUBSET Copies, parsed \in BOOLEAN :
       LET imported == Import(media, readable, parsed, env_valid, env_flags)
           clean == readable = Copies /\ parsed
       IN /\ ~clean => "read" \in errors
          /\ env' = imported.data
          /\ env_valid' = imported.valid
          /\ env_flags' = imported.serial
          /\ degraded' = ~clean
          /\ saved' = IF clean THEN imported.data ELSE saved
          /\ maybe' = IF clean THEN {} ELSE maybe
  /\ pc' = "idle"
  /\ UNCHANGED <<media, errors>>

\* env_set() by a user, a script or a driver; set_default_env() by "env default"
SetEnv ==
  /\ pc = "idle"
  /\ env' \in Envs
  /\ UNCHANGED <<media, pc, env_valid, env_flags, errors, degraded, saved, maybe>>

\* Mutated form: the copy in use.
Target_InUse == env_valid

\* The copy env_mmc_save() writes: the one not in use.
Target == IF env_valid = ENV_VALID THEN ENV_REDUND ELSE ENV_VALID

\* env_mmc_save() up to the write; env_export() takes the next serial number
SaveExport ==
  /\ pc = "idle"
  /\ env_flags' = NextSerial(env_flags)
  /\ pc' = "write"
  /\ maybe' = IF degraded THEN Envs ELSE maybe \cup {env}
  /\ UNCHANGED <<media, env, env_valid, errors, degraded, saved>>

\* Mutated form: env_valid is left as it is.
SaveWritten_KeepsValid ==
  /\ pc = "write"
  /\ media' = [media EXCEPT ![Target] = Good(env_flags, env)]
  /\ pc' = "idle"
  /\ saved' = env
  /\ maybe' = {}
  /\ degraded' = FALSE
  /\ UNCHANGED <<env, env_valid, env_flags, errors>>

\* write_env() wrote every block, and env_mmc_save() returns 0
SaveWritten ==
  /\ pc = "write"
  /\ media' = [media EXCEPT ![Target] = Good(env_flags, env)]
  /\ env_valid' = IF env_valid = ENV_REDUND THEN ENV_VALID ELSE ENV_REDUND
  /\ pc' = "idle"
  /\ saved' = env
  /\ maybe' = {}
  /\ degraded' = FALSE
  /\ UNCHANGED <<env, env_flags, errors>>

\* write_env() reports an error, and env_mmc_save() returns 1
SaveFailed ==
  /\ "write" \in errors
  /\ pc = "write"
  /\ \E left \in Torn(media[Target], Good(env_flags, env)) :
       media' = [media EXCEPT ![Target] = left]
  /\ pc' = "idle"
  /\ UNCHANGED <<env, env_valid, env_flags, errors, degraded, saved, maybe>>

\* Power fails, or the board is reset, possibly in the middle of the write
PowerFail ==
  /\ pc # "off"
  /\ IF pc = "write"
     THEN \E left \in Torn(media[Target], Good(env_flags, env)) :
            media' = [media EXCEPT ![Target] = left]
     ELSE UNCHANGED media
  /\ pc' = "off"
  /\ env' = Default
  /\ env_valid' = ENV_VALID
  /\ env_flags' = 0
  /\ degraded' = FALSE
  /\ UNCHANGED <<saved, maybe, errors>>

Next ==
  \/ Load
  \/ SetEnv
  \/ SaveExport
  \/ SaveWritten
  \/ SaveFailed
  \/ PowerFail

Spec == Init /\ [][Next]_vars

-----------------------------------------------------------------------------
\* Every variable has its type (env/mmc.c and gd->env_valid never leave it).
TypeOK ==
  /\ media \in [Copies -> Copy]
  /\ pc \in {"off", "idle", "write"}
  /\ env \in Envs
  /\ env_valid \in Copies
  /\ env_flags \in Flags
  /\ errors \subseteq CardErrors
  /\ degraded \in BOOLEAN
  /\ saved \in Envs
  /\ maybe \subseteq Envs

\* What the next boot finds is the last environment saved or loaded, or one
\* whose save was interrupted.  False of cards that report errors.
Finds == Stored(media) \in {saved} \cup maybe

\* On a card without errors that is so whenever power fails: "a valid backup
\* copy in case the other copy is corrupted, e.g. due to a power failure during
\* a saveenv operation" (env/Kconfig, CONFIG_ENV_OFFSET_REDUND).
Durable == errors = {} => Finds

\* On a card without errors a save never writes over the copy the next boot
\* would load: until the new copy is complete, the one in use is untouched
\* (env_mmc_save's choice of copy agrees with env_import_redund's).
NeverOverwritesLive ==
  errors = {} /\ pc = "write" /\ ~NoneValid(media) => Pick(media) # Target

\* Failing saves, however often they are retried, never leave the card without
\* a good copy once there is one in use: env_mmc_save() that fails does not
\* touch env_valid, so that a retry writes over the copy the failure spoiled.
KeepsOneGood ==
  [][pc # "off" /\ media[env_valid].crc => ~NoneValid(media')]_vars

\* On a card without errors the store keeps the promise of EnvPromise.
Promise == INSTANCE EnvPromise WITH up <- (pc # "off")
KeepsPromise ==
  /\ errors = {} => Promise!PromiseInit
  /\ [][errors = {} => Promise!PromiseNext]_(Promise!promiseVars)

=============================================================================
