-------------------------------- MODULE EnvSf --------------------------------
(***************************************************************************)
(* The redundant environment in SPI NOR flash (env/sf.c with               *)
(* CONFIG_ENV_OFFSET_REDUND): the copy in use is flagged active, and a     *)
(* save writes the other copy, flags it active, then flags the one that    *)
(* was in use obsolete.  When an erase sector is larger than a copy, the   *)
(* rest of the sector belongs to somebody else: it is read before the      *)
(* erase and written back after.                                           *)
(*                                                                         *)
(* Power may fail between any two steps of a save and inside each, and,    *)
(* when Faults, every step of a load or a save may report an error.        *)
(***************************************************************************)
EXTENDS EnvRedund

CONSTANTS
  SharedSector,   \* CONFIG_ENV_SECT_SIZE > CONFIG_ENV_SIZE
  Faults          \* may the flash, or memalign(), report errors?

ASSUME SfAssumption == SharedSector \in BOOLEAN /\ Faults \in BOOLEAN

ACTIVE_FLAG == 1
OBSOLETE_FLAG == 0

VARIABLES
  media,      \* the two copies in flash
  rest,       \* is the rest of each copy's sector what its owner put there?
  pc,         \* "off", "idle", or the next step of env_sf_save()
  saved_buffer,  \* what env_sf_save() read of the rest of the sector
  env,        \* env_htab
  env_valid,  \* gd->env_valid
  \* History, for the properties only.
  degraded, saved, maybe,
  mishap      \* a save did not complete while the sector was erased

flashVars == <<media, rest, mishap>>
historyVars == <<degraded, saved, maybe>>
vars == <<flashVars, pc, saved_buffer, env, env_valid, historyVars>>

Init ==
  /\ media \in FactoryMedia({ACTIVE_FLAG})
  /\ rest = [c \in Copies |-> TRUE]
  /\ mishap = FALSE
  /\ pc = "off"
  /\ saved_buffer = FALSE
  /\ env = Default
  /\ env_valid = ENV_VALID
  /\ degraded = FALSE
  /\ saved = Stored(media)
  /\ maybe = {}

\* env_sf_load().  env_flags plays no part: a save sets the flags itself.
Load ==
  /\ pc = "off"
  /\ \E readable \in SUBSET Copies, parsed \in BOOLEAN :
       LET imported == Import(media, readable, parsed, env_valid, 0)
           clean == readable = Copies /\ parsed
       IN /\ ~clean => Faults
          /\ env' = imported.data
          /\ env_valid' = imported.valid
          /\ degraded' = ~clean
          /\ saved' = IF clean THEN imported.data ELSE saved
          /\ maybe' = IF clean THEN {} ELSE maybe
  /\ pc' = "idle"
  /\ UNCHANGED <<flashVars, saved_buffer>>

\* env_set(), and set_default_env() by "env default"
SetEnv ==
  /\ pc = "idle"
  /\ env' \in Envs
  /\ UNCHANGED <<flashVars, pc, saved_buffer, env_valid, historyVars>>

\* The copy at env_new_offset: the one not in use.
Target == IF env_valid = ENV_VALID THEN ENV_REDUND ELSE ENV_VALID

\* env_sf_save() is called
SaveBegin ==
  /\ pc = "idle"
  /\ pc' = "setup"
  /\ maybe' = IF degraded THEN Envs ELSE maybe \cup {env}
  /\ UNCHANGED <<flashVars, saved_buffer, env, env_valid, degraded, saved>>

\* setup_flash_device() fails, and loads the default environment into RAM
SetupFails ==
  /\ Faults
  /\ pc = "setup"
  /\ env' = Default
  /\ pc' = "idle"
  /\ UNCHANGED <<flashVars, saved_buffer, env_valid, historyVars>>

\* The flash is set up, and the rest of the sector read if it is shared
SetUp ==
  /\ pc = "setup"
  /\ saved_buffer' = (SharedSector /\ rest[Target])
  /\ pc' = "erase"
  /\ UNCHANGED <<flashVars, env, env_valid, historyVars>>

\* spi_flash_erase() of the sectors of the copy
Erase ==
  /\ pc = "erase"
  /\ media' = [media EXCEPT ![Target] = Bad]
  /\ rest' = [rest EXCEPT ![Target] = ~SharedSector]
  /\ pc' = "write"
  /\ UNCHANGED <<mishap, saved_buffer, env, env_valid, historyVars>>

\* Mutated form: the rest of the sector is forgotten.
Write_NoRestore ==
  /\ pc = "write"
  /\ media' = [media EXCEPT ![Target] = Good(ACTIVE_FLAG, env)]
  /\ pc' = "obsolete"
  /\ UNCHANGED <<rest, mishap, saved_buffer, env, env_valid, historyVars>>

\* spi_flash_write() of env_new, flagged active
Write ==
  /\ pc = "write"
  /\ media' = [media EXCEPT ![Target] = Good(ACTIVE_FLAG, env)]
  /\ pc' = IF SharedSector THEN "restore" ELSE "obsolete"
  /\ UNCHANGED <<rest, mishap, saved_buffer, env, env_valid, historyVars>>

\* spi_flash_write() of saved_buffer
Restore ==
  /\ pc = "restore"
  /\ rest' = [rest EXCEPT ![Target] = saved_buffer]
  /\ pc' = "obsolete"
  /\ UNCHANGED <<media, mishap, saved_buffer, env, env_valid, historyVars>>

\* Mutated form: the flags written to the copy just written.
Obsoleted_Target == [media EXCEPT ![Target].flags = OBSOLETE_FLAG]

\* The flags of the copy in use after a byte of zeros was written to them
Obsoleted == [media EXCEPT ![env_valid].flags = OBSOLETE_FLAG]

\* Mutated form: env_valid is left as it is.
Obsolete_KeepsValid ==
  /\ pc = "obsolete"
  /\ media' = Obsoleted
  /\ pc' = "idle"
  /\ saved' = env
  /\ maybe' = {}
  /\ degraded' = FALSE
  /\ UNCHANGED <<rest, mishap, saved_buffer, env, env_valid>>

\* Mutated form: no way back from the second copy.
Obsolete_Next ==
  /\ pc = "obsolete"
  /\ media' = Obsoleted
  /\ env_valid' = env_valid + 1
  /\ pc' = "idle"
  /\ saved' = env
  /\ maybe' = {}
  /\ degraded' = FALSE
  /\ UNCHANGED <<rest, mishap, saved_buffer, env>>

\* spi_flash_write() of the other copy's flags; the save returns 0
Obsolete ==
  /\ pc = "obsolete"
  /\ media' = Obsoleted
  /\ env_valid' = IF env_valid = ENV_REDUND THEN ENV_VALID ELSE ENV_REDUND
  /\ pc' = "idle"
  /\ saved' = env
  /\ maybe' = {}
  /\ degraded' = FALSE
  /\ UNCHANGED <<rest, mishap, saved_buffer, env>>

\* While the rest of the sector is, or may be, only in saved_buffer
Erased == {"erase", "write", "restore"}

\* What the step at pc may leave in flash when it does not complete.
Partial ==
  \/ /\ pc \in {"setup", "idle"}
     /\ UNCHANGED <<media, rest>>
  \/ /\ pc = "erase"
     /\ \E left \in {media[Target], Bad} :
          media' = [media EXCEPT ![Target] = left]
     /\ \E kept \in {rest[Target], ~SharedSector} :
          rest' = [rest EXCEPT ![Target] = kept]
  \/ /\ pc = "write"
     /\ \E left \in Torn(Bad, Good(ACTIVE_FLAG, env)) :
          media' = [media EXCEPT ![Target] = left]
     /\ UNCHANGED rest
  \/ /\ pc = "restore"
     /\ \E kept \in {FALSE, saved_buffer} :
          rest' = [rest EXCEPT ![Target] = kept]
     /\ UNCHANGED media
  \/ /\ pc = "obsolete"
     /\ media' \in {media, Obsoleted}
     /\ UNCHANGED rest

\* A step of env_sf_save() reports an error, and the save returns it
SaveFails ==
  /\ Faults
  /\ pc \notin {"off", "idle"}
  /\ Partial
  /\ mishap' = (mishap \/ pc \in Erased)
  /\ pc' = "idle"
  /\ UNCHANGED <<saved_buffer, env, env_valid, historyVars>>

\* Power fails, or the board is reset
PowerFail ==
  /\ pc # "off"
  /\ Partial
  /\ mishap' = (mishap \/ pc \in Erased)
  /\ pc' = "off"
  /\ saved_buffer' = FALSE
  /\ env' = Default
  /\ env_valid' = ENV_VALID
  /\ degraded' = FALSE
  /\ UNCHANGED <<saved, maybe>>

Next ==
  \/ Load
  \/ SetEnv
  \/ SaveBegin
  \/ SetupFails
  \/ SetUp
  \/ Erase
  \/ Write
  \/ Restore
  \/ Obsolete
  \/ SaveFails
  \/ PowerFail

Spec == Init /\ [][Next]_vars

-----------------------------------------------------------------------------
\* Every variable has its type; in particular no step of env_sf_save() writes
\* outside the two copies' flags and data.
TypeOK ==
  /\ media \in [Copies -> Copy]
  /\ rest \in [Copies -> BOOLEAN]
  /\ mishap \in BOOLEAN
  /\ pc \in {"off", "idle", "setup", "erase", "write", "restore", "obsolete"}
  /\ saved_buffer \in BOOLEAN
  /\ env \in Envs
  /\ env_valid \in Copies
  /\ degraded \in BOOLEAN
  /\ saved \in Envs
  /\ maybe \subseteq Envs

\* Whatever step of a save power or the flash fails at, and however often the
\* save is retried, the next boot finds the last environment saved or loaded,
\* or one whose save did not complete.
Durable == Stored(media) \in {saved} \cup maybe

\* The data that shares a sector with a copy survives every save that runs to
\* its end: only a save that was cut short can lose it.
NeighbourKept ==
  pc \in {"off", "idle"} /\ ~mishap => \A c \in Copies : rest[c]

\* The store keeps the promise of EnvPromise.
Promise == INSTANCE EnvPromise WITH up <- (pc # "off")
KeepsPromise == Promise!PromiseSpec

=============================================================================
