------------------------------ MODULE EnvFlash ------------------------------
(***************************************************************************)
(* The redundant environment in memory-mapped NOR flash (env/flash.c with  *)
(* CONFIG_ENV_ADDR_REDUND).  env_flash_init() chooses a copy by its flags, *)
(* env_flash_load() repairs the flags a power failure left behind, and     *)
(* env_flash_save() writes the other copy.  Which copy is in use is kept   *)
(* in a pair of static pointers, flash_addr and flash_addr_new.            *)
(*                                                                         *)
(* Power may fail between any two steps and inside each; when Faults,      *)
(* every step of a load or a save may report an error.  After some of them *)
(* env_flash_save() still returns 0: a board on which these occur is       *)
(* "silent", and to its user saveenv promises nothing.                     *)
(***************************************************************************)
EXTENDS EnvRedund

CONSTANTS
  SharedSector,   \* CONFIG_ENV_SECT_SIZE > CONFIG_ENV_SIZE
  Faults          \* may the flash, malloc() or himport_r() report errors?

ASSUME FlashAssumption ==
  SharedSector \in BOOLEAN /\ Faults \in BOOLEAN /\ FlagMax = 255

OBSOLETE_FLAG == 0
ACTIVE_FLAG == 1
ErasedFlag == FlagMax   \* a flags byte nobody wrote

VARIABLES
  media,       \* the two copies in flash
  rest,        \* what shares each copy's sector: "kept" in flash, "buffered"
               \* in saved_data only, or "lost"
  pc,          \* "off", the next step of a load or of a save, or "idle"
  env,         \* env_htab
  flash_addr,  \* the copy in use; flash_addr_new is the other
  ret,         \* what the last save returned: "none" yet, "ok" or "error"
  silent,      \* the board: can malloc(), an erasure or the writing back of
               \* saved_data fail, the errors for which a save returns 0?
  \* History, for the properties only.
  degraded, saved, maybe,
  unrepaired   \* a flash_write() failed since the last boot

historyVars == <<degraded, saved, maybe>>
vars == <<media, rest, pc, env, flash_addr, ret, silent, historyVars,
          unrepaired>>

flash_addr_new == Other(flash_addr)

\* Mutated form: the flags are not looked at.
Chosen_ByCrc(copies) ==
  IF ~copies[ENV_VALID].crc THEN ENV_REDUND ELSE ENV_VALID

\* The copy env_flash_init() points gd->env_addr at when a CRC matches.
Chosen(copies) ==
  LET ok(c) == copies[c].crc
      flag1 == copies[ENV_VALID].flags
      flag2 == copies[ENV_REDUND].flags
      second == \/ flag1 = OBSOLETE_FLAG /\ flag2 = ACTIVE_FLAG
                \/ flag2 = ErasedFlag /\ flag1 # ErasedFlag
  IN IF ~ok(ENV_VALID) \/ (ok(ENV_REDUND) /\ second)
     THEN ENV_REDUND ELSE ENV_VALID

\* The environment a boot finds in flash.
InFlash(copies) ==
  IF NoneValid(copies) THEN Default ELSE copies[Chosen(copies)].data

Init ==
  /\ media \in FactoryMedia({ACTIVE_FLAG, ErasedFlag})
  /\ rest = [c \in Copies |-> "kept"]
  /\ pc = "off"
  /\ env = Default
  /\ flash_addr = ENV_VALID
  /\ ret = "none"
  /\ silent \in BOOLEAN /\ (silent => Faults)
  /\ degraded = FALSE
  /\ saved = InFlash(media)
  /\ maybe = {}
  /\ unrepaired = FALSE

\* env_flash_init(); with no valid copy gd->env_valid is ENV_INVALID, and
\* env_relocate() loads the default environment without env_flash_load().
Probe ==
  /\ pc = "off"
  /\ IF NoneValid(media)
     THEN /\ pc' = "idle"
          /\ saved' = Default
          /\ maybe' = {}
          /\ UNCHANGED flash_addr
     ELSE /\ pc' = "repair"
          /\ flash_addr' = Chosen(media)
          /\ UNCHANGED <<saved, maybe>>
  /\ UNCHANGED <<media, rest, env, ret, degraded, unrepaired, silent>>

Flagged(c, flag) == [media EXCEPT ![c].flags = flag]

\* Mutated form: nothing is repaired.
Repaired_Not == media

\* env_flash_load() marks the copy it does not load obsolete.
Repaired ==
  IF media[flash_addr_new].crc /\ media[flash_addr_new].flags # OBSOLETE_FLAG
  THEN Flagged(flash_addr_new, OBSOLETE_FLAG) ELSE media

\* env_flash_load() marks the copy it loads active, if flash still can: bits
\* are only ever cleared, and ACTIVE_FLAG is bit 0.
Activated ==
  IF media[flash_addr].flags # ACTIVE_FLAG /\ media[flash_addr].flags % 2 = 1
  THEN Flagged(flash_addr, ACTIVE_FLAG) ELSE media

\* The result of flash_write() is not looked at in env_flash_load().
TryWriting(done) ==
  /\ media' \in IF Faults THEN {media, done} ELSE {done}
  /\ unrepaired' = (unrepaired \/ media' # done)

LoadRepair ==
  /\ pc = "repair"
  /\ TryWriting(Repaired)
  /\ pc' = "activate"
  /\ UNCHANGED <<rest, env, flash_addr, ret, historyVars, silent>>

\* ... and env_import() of the copy at flash_addr
LoadActivate ==
  /\ pc = "activate"
  /\ TryWriting(Activated)
  /\ \E parsed \in BOOLEAN :
       /\ ~parsed => Faults
       /\ env' = IF parsed THEN media[flash_addr].data ELSE Default
       /\ degraded' = ~parsed
       /\ saved' = IF parsed THEN env' ELSE saved
       /\ maybe' = IF parsed THEN {} ELSE maybe
  /\ pc' = "idle"
  /\ UNCHANGED <<rest, flash_addr, ret, silent>>

\* env_set(), and set_default_env() by "env default"
SetEnv ==
  /\ pc = "idle"
  /\ env' \in Envs
  /\ ret' = "none"
  /\ UNCHANGED <<media, rest, pc, flash_addr, historyVars, unrepaired, silent>>

\* env_flash_save() is called: the sectors are unprotected, the environment
\* exported and, if the sector is shared, its rest copied to saved_data.
SaveBegin ==
  /\ pc = "idle"
  /\ pc' = "erase"
  /\ maybe' = IF degraded THEN Envs ELSE maybe \cup {env}
  /\ UNCHANGED <<media, rest, env, flash_addr, ret, silent, degraded, saved,
                 unrepaired>>

Blank == [media EXCEPT ![flash_addr_new] = Bad]

\* flash_sect_erase() of the sector at flash_addr_new
Erase ==
  /\ pc = "erase"
  /\ media' = Blank
  /\ rest' = IF SharedSector /\ rest[flash_addr_new] = "kept"
             THEN [rest EXCEPT ![flash_addr_new] = "buffered"] ELSE rest
  /\ pc' = "write"
  /\ UNCHANGED <<env, flash_addr, ret, historyVars, unrepaired, silent>>

\* flash_write() of env_new, flagged active
Write ==
  /\ pc = "write"
  /\ media' = [media EXCEPT ![flash_addr_new] = Good(ACTIVE_FLAG, env)]
  /\ pc' = "obsolete"
  /\ UNCHANGED <<rest, env, flash_addr, ret, historyVars, unrepaired, silent>>

\* flash_write() of the flags at flash_addr
Obsolete ==
  /\ pc = "obsolete"
  /\ media' = Flagged(flash_addr, OBSOLETE_FLAG)
  /\ pc' = "finish"
  /\ UNCHANGED <<rest, env, flash_addr, ret, historyVars, unrepaired, silent>>

\* The save ran to its end, and returns 0.
Saved ==
  /\ ret' = "ok"
  /\ saved' = env
  /\ maybe' = {}
  /\ degraded' = FALSE

\* Mutated form: the pointers are not swapped.
Finish_NoSwap ==
  /\ pc = "finish"
  /\ rest' = [c \in Copies |-> IF rest[c] = "buffered" THEN "kept" ELSE rest[c]]
  /\ pc' = "idle"
  /\ Saved
  /\ UNCHANGED <<media, env, flash_addr, unrepaired, silent>>

\* Mutated form: the rest of the sector is not written back.
Finish_NoRestore ==
  /\ pc = "finish"
  /\ flash_addr' = flash_addr_new
  /\ pc' = "idle"
  /\ Saved
  /\ UNCHANGED <<media, rest, env, unrepaired, silent>>

\* flash_write() of saved_data if the sector is shared, and the pointers are
\* swapped
Finish ==
  /\ pc = "finish"
  /\ rest' = [c \in Copies |-> IF rest[c] = "buffered" THEN "kept" ELSE rest[c]]
  /\ flash_addr' = flash_addr_new
  /\ pc' = "idle"
  /\ Saved
  /\ UNCHANGED <<media, env, unrepaired, silent>>

\* What the step at pc may leave in flash when it does not complete; what was
\* in saved_data only is lost.
Partial ==
  /\ \/ pc \in {"idle", "finish"} /\ UNCHANGED media
     \/ pc = "repair" /\ media' \in {media, Repaired}
     \/ pc = "activate" /\ media' \in {media, Activated}
     \/ pc = "erase" /\ media' \in {media, Blank}
     \/ /\ pc = "write"
        /\ \E left \in Torn(Bad, Good(ACTIVE_FLAG, env)) :
             media' = [media EXCEPT ![flash_addr_new] = left]
     \/ pc = "obsolete" /\ media' \in {media, Flagged(flash_addr, OBSOLETE_FLAG)}
  /\ \E erased \in BOOLEAN :
       rest' = [c \in Copies |->
                  IF \/ rest[c] = "buffered"
                     \/ pc = "erase" /\ SharedSector /\ erased
                          /\ c = flash_addr_new
                  THEN "lost" ELSE rest[c]]

\* flash_sect_protect(), env_export() or a flash_write() whose result is kept
\* in rc reports an error, and the save returns it.
SaveFails ==
  /\ Faults
  /\ pc \in {"erase", "write", "obsolete"}
  /\ IF pc = "erase" THEN UNCHANGED <<media, rest>> ELSE Partial
  /\ unrepaired' = (unrepaired \/ pc # "erase")
  /\ ret' = "error"
  /\ pc' = "idle"
  /\ UNCHANGED <<env, flash_addr, historyVars, silent>>

\* malloc() or flash_sect_erase() reports an error: "goto done" with the rc of
\* env_export(), 0.  The same for the flash_write() of saved_data, after which
\* the pointers are not swapped.  The user is told that the save worked.
SaveFailsUnnoticed ==
  /\ silent
  /\ pc = "erase" \/ (pc = "finish" /\ SharedSector)
  /\ Partial
  /\ ret' = "ok"
  /\ pc' = "idle"
  /\ unrepaired' = (unrepaired \/ pc = "finish")
  /\ UNCHANGED <<env, flash_addr, historyVars, silent>>

\* Power fails, or the board is reset
PowerFail ==
  /\ pc # "off"
  /\ Partial
  /\ pc' = "off"
  /\ env' = Default
  /\ flash_addr' = ENV_VALID
  /\ ret' = "none"
  /\ degraded' = FALSE
  /\ unrepaired' = FALSE
  /\ UNCHANGED <<saved, maybe, silent>>

Next ==
  \/ Probe
  \/ LoadRepair
  \/ LoadActivate
  \/ SetEnv
  \/ SaveBegin
  \/ Erase
  \/ Write
  \/ Obsolete
  \/ Finish
  \/ SaveFails
  \/ SaveFailsUnnoticed
  \/ PowerFail

Spec == Init /\ [][Next]_vars

-----------------------------------------------------------------------------
\* Every variable has its type.
TypeOK ==
  /\ media \in [Copies -> Copy]
  /\ rest \in [Copies -> {"kept", "buffered", "lost"}]
  /\ pc \in {"off", "repair", "activate", "idle", "erase", "write", "obsolete",
             "finish"}
  /\ env \in Envs
  /\ flash_addr \in Copies
  /\ ret \in {"none", "ok", "error"}
  /\ silent \in BOOLEAN
  /\ unrepaired \in BOOLEAN
  /\ degraded \in BOOLEAN
  /\ saved \in Envs
  /\ maybe \subseteq Envs

\* Wherever power or the flash fails, in a save or in the repair a load makes,
\* and however often a save is retried, the next boot finds the last
\* environment whose save ran to its end or that was loaded, or one whose save
\* was begun since.
Durable == InFlash(media) \in {saved} \cup maybe

\* While U-Boot runs and no save is under way, the flags name one copy: two
\* good copies are never both active, whatever interrupted the save that wrote
\* the second, unless a write of the flash failed.  The next boot, Linux and
\* fw_setenv choose by these flags.
OneActive ==
  pc = "idle" /\ ~unrepaired /\ (\A c \in Copies : media[c].crc) =>
    media[flash_addr_new].flags = OBSOLETE_FLAG

\* However a save ends, the data that shares the sector is never left in RAM
\* only: it is back in flash, or its loss is due to an error or power failure
\* after the erase began.
NeighbourPutBack ==
  pc \in {"off", "idle"} => \A c \in Copies : rest[c] # "buffered"

\* An environment is saved when saveenv says so: "@return 0 if OK, -ve on
\* error" (include/environment.h, save()).  False of a silent board, where the
\* next boot may find another environment than the one reported as saved.
SuccessIsSaved == ret = "ok" /\ pc = "idle" => InFlash(media) = env

\* On a board that is not silent success is reported only of an environment the
\* next boot finds, and the store keeps the promise of EnvPromise: a save that
\* returns 0 is one that was done, and every other costs nothing.
Promise == INSTANCE EnvPromise
             WITH up <- (pc \notin {"off", "repair", "activate"})
KeepsPromise ==
  /\ [](~silent => SuccessIsSaved)
  /\ ~silent => Promise!PromiseInit
  /\ [][~silent => Promise!PromiseNext]_(Promise!promiseVars)

\* What holds in every state: the types, and no data of others in RAM only when
\* a save has ended.
NeighbourSafe == TypeOK /\ NeighbourPutBack
=============================================================================
