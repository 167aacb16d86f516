------------------------------ MODULE EnvDriver ------------------------------
(***************************************************************************)
(* Which storage the environment is loaded from and saved to when a build  *)
(* has several (env/env.c, env_relocate() in env/common.c): env_init()     *)
(* runs every driver's init in order of priority, env_load() tries every   *)
(* driver until one loads, and env_save() uses the location gd was left at *)
(* by the last look-up.  The drivers are abstracted to what they return    *)
(* and to what their init does to gd->env_valid; EnvMmc, EnvSf and         *)
(* EnvFlash model three of them.                                           *)
(***************************************************************************)
EXTENDS Integers

CONSTANT NumLocations   \* ARRAY_SIZE(env_locations)

ASSUME LocationsAssumption == NumLocations \in Nat \ {0}

Prios == 0 .. NumLocations - 1
NoPrio == -1

(***************************************************************************)
(* The operations of a driver: "absent" when the driver has none, else the *)
(* results it may have.  An init that succeeds leaves ENV_VALID or         *)
(* ENV_INVALID behind.  A load fails with -ENOMSG ("badcrc") or another    *)
(* error.                                                                  *)
(***************************************************************************)
InitResults == {"valid", "invalid", "noent", "error"}
LoadResults == {"ok", "badcrc", "error"}
Drivers == [init : {"absent", "valid", "invalid", "noent", "error"},
            load : BOOLEAN, save : BOOLEAN]

VARIABLES
  driver,         \* the build: the driver at each priority
  stage,          \* "init": env_init(), "relocate", "load": env_load(),
                  \* "idle": commands run, "hang": env_init() failed
  prio,           \* the loop variable of env_init() and env_load()
  env_load_prio,  \* gd->env_load_prio
  env_has_init,   \* gd->env_has_init
  gd_valid,       \* gd->env_valid # ENV_INVALID
  ret,            \* ret in env_init()
  best_prio,      \* best_prio in env_load()
  \* History, for the properties only.
  loaded,         \* the location that was loaded
  bad,            \* the locations found with a bad CRC
  tried           \* did env_load() run?

driverVars == <<driver, stage, prio, env_load_prio, env_has_init, gd_valid,
                ret, best_prio, loaded, bad, tried>>

DriverInit ==
  /\ driver \in [Prios -> Drivers]
  /\ stage = "init"
  /\ prio = 0
  /\ env_load_prio = 0
  /\ env_has_init = {}
  /\ gd_valid = FALSE
  /\ ret = "noent"
  /\ best_prio = NoPrio
  /\ loaded = NoPrio
  /\ bad = {}
  /\ tried = FALSE

\* Mutated form: the look-up is not remembered.
LookUp_Forgotten(p) == UNCHANGED env_load_prio

\* env_get_location(): every look-up of an existing priority is remembered
LookUp(p) == env_load_prio' = p

\* env_init(), for the driver at prio.  ret keeps its value when a driver has
\* no init operation.
InitDriver ==
  /\ stage = "init"
  /\ prio < NumLocations
  /\ LookUp(prio)
  /\ LET init == driver[prio].init IN
       /\ env_has_init' = IF init \in {"absent", "valid", "invalid"}
                          THEN env_has_init \cup {prio} ELSE env_has_init
       /\ ret' = IF init = "absent" THEN ret
                 ELSE IF init \in {"valid", "invalid"} THEN "ok" ELSE init
       /\ gd_valid' = IF init \in {"valid", "invalid"}
                       THEN init = "valid" ELSE gd_valid
  /\ prio' = prio + 1
  /\ UNCHANGED <<driver, stage, best_prio, loaded, bad, tried>>

\* env_init() returns what the last init returned; a board whose env_init()
\* fails does not boot (init_sequence_f)
InitDone ==
  /\ stage = "init"
  /\ prio = NumLocations
  /\ gd_valid' = (ret = "noent" \/ gd_valid)
  /\ stage' = IF ret = "error" THEN "hang" ELSE "relocate"
  /\ UNCHANGED <<driver, prio, env_load_prio, env_has_init, ret, best_prio,
                 loaded, bad, tried>>

\* env_relocate()
Relocate ==
  /\ stage = "relocate"
  /\ stage' = IF gd_valid THEN "load" ELSE "idle"
  /\ prio' = 0
  /\ tried' = gd_valid
  /\ UNCHANGED <<driver, env_load_prio, env_has_init, gd_valid, ret,
                 best_prio, loaded, bad>>

\* env_load(): a driver without load, or whose init failed, is skipped
LoadSkip ==
  /\ stage = "load"
  /\ prio < NumLocations
  /\ LookUp(prio)
  /\ ~driver[prio].load \/ prio \notin env_has_init
  /\ prio' = prio + 1
  /\ UNCHANGED <<driver, stage, env_has_init, gd_valid, ret, best_prio, loaded,
                 bad, tried>>

\* env_load(), for the driver at prio
LoadDriver ==
  /\ stage = "load"
  /\ prio < NumLocations
  /\ LookUp(prio)
  /\ driver[prio].load /\ prio \in env_has_init
  /\ \E result \in LoadResults :
       /\ loaded' = IF result = "ok" THEN prio ELSE loaded
       /\ bad' = IF result = "badcrc" THEN bad \cup {prio} ELSE bad
       /\ best_prio' = IF result = "badcrc" /\ best_prio = NoPrio
                       THEN prio ELSE best_prio
       /\ stage' = IF result = "ok" THEN "idle" ELSE "load"
  /\ prio' = prio + 1
  /\ UNCHANGED <<driver, env_has_init, gd_valid, ret, tried>>

\* env_load() loaded nothing
LoadDone ==
  /\ stage = "load"
  /\ prio = NumLocations
  /\ LookUp(IF best_prio = NoPrio THEN 0 ELSE best_prio)
  /\ stage' = "idle"
  /\ UNCHANGED <<driver, prio, env_has_init, gd_valid, ret, best_prio, loaded,
                 bad, tried>>

\* The location env_save() writes to, if it has an operation and its init
\* worked
SaveLocation ==
  IF driver[env_load_prio].save /\ env_load_prio \in env_has_init
  THEN env_load_prio ELSE NoPrio

\* env_save(): its own look-up finds the priority gd has
Save ==
  /\ stage = "idle"
  /\ LookUp(env_load_prio)
  /\ UNCHANGED <<driver, stage, prio, env_has_init, gd_valid, ret, best_prio,
                 loaded, bad, tried>>

DriverNext ==
  \/ InitDriver
  \/ InitDone
  \/ Relocate
  \/ LoadSkip
  \/ LoadDriver
  \/ LoadDone
  \/ Save

DriverSpec == DriverInit /\ [][DriverNext]_driverVars

-----------------------------------------------------------------------------
\* Every variable has its type: gd->env_load_prio is always a priority, so
\* that env_save() finds a driver.
DriverTypeOK ==
  /\ driver \in [Prios -> Drivers]
  /\ stage \in {"init", "hang", "relocate", "load", "idle"}
  /\ prio \in 0 .. NumLocations
  /\ env_load_prio \in Prios
  /\ env_has_init \subseteq Prios
  /\ gd_valid \in BOOLEAN
  /\ ret \in {"ok", "noent", "error"}
  /\ best_prio \in Prios \cup {NoPrio}
  /\ loaded \in Prios \cup {NoPrio}
  /\ bad \subseteq Prios
  /\ tried \in BOOLEAN

\* saveenv goes to the location the environment came from, or nowhere: never
\* to one of which the next boot would prefer another.
SavesWhereLoaded ==
  stage = "idle" /\ loaded # NoPrio =>
    /\ SaveLocation \in {loaded, NoPrio}
    /\ driver[loaded].save => SaveLocation = loaded

\* The best choice when nothing was loaded: the highest priority whose CRC was
\* bad, otherwise the highest priority.
BestChoice ==
  IF bad = {} THEN 0 ELSE CHOOSE p \in bad : \A q \in bad : p <= q

\* After an env_load() that loaded nothing, "next calls to env_save() will
\* restore the environment at the right place" (env_load()).
RightPlaceAfterLoad ==
  stage = "idle" /\ tried /\ loaded = NoPrio => env_load_prio = BestChoice

\* Whatever was looked up meanwhile, in whatever loop, a save goes where the
\* environment came from, or to the best choice if it came from nowhere.
RightPlace == DriverTypeOK /\ SavesWhereLoaded /\ RightPlaceAfterLoad
=============================================================================
