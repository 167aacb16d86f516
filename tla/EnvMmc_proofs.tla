---------------------------- MODULE EnvMmc_proofs ----------------------------
(***************************************************************************)
(* What EnvMmc guarantees for every set of environments and every width of *)
(* the serial number, when power may fail at any moment: on any card that  *)
(* a good copy stays good, and on one that reports no errors that no       *)
(* environment is lost.  With errors that is false (README, known          *)
(* disagreements).  And what EnvDriver guarantees of the storage chosen.   *)
(***************************************************************************)
EXTENDS EnvMmc, EnvDriver, EnvRedund_proofs

(***************************************************************************)
(* What holds with errors, too.                                            *)
(***************************************************************************)
\* env_mmc_save() writes the copy that is not in use.
LEMMA TargetIsOther ==
  ASSUME TypeOK
  PROVE  Target = Other(env_valid) /\ env_valid \in Copies
BY DEF TypeOK, Target, Other

LEMMA TargetType ==
  ASSUME TypeOK
  PROVE  /\ Target \in Copies /\ media[Target] \in Copy
         /\ env_flags \in Flags /\ env \in Envs
BY TargetIsOther, OtherCopy DEF TypeOK

\* Every step keeps the types.
LEMMA NextType ==
  ASSUME TypeOK, [Next]_vars
  PROVE  TypeOK'
<1> USE DEF TypeOK
<1>1. CASE Load
  <2>1. PICK readable \in SUBSET Copies, parsed \in BOOLEAN :
          LET imported == Import(media, readable, parsed, env_valid, env_flags)
              clean == readable = Copies /\ parsed
          IN /\ env' = imported.data
             /\ env_valid' = imported.valid
             /\ env_flags' = imported.serial
             /\ degraded' = ~clean
             /\ saved' = IF clean THEN imported.data ELSE saved
             /\ maybe' = IF clean THEN {} ELSE maybe
    BY <1>1 DEF Load
  <2>2. pc' = "idle" /\ media' = media /\ errors' = errors
    BY <1>1 DEF Load
  <2>3. env' \in Envs /\ env_valid' \in Copies /\ env_flags' \in Flags
    BY <2>1, ImportType
  <2>4. degraded' \in BOOLEAN /\ saved' \in Envs /\ maybe' \subseteq Envs
    BY <2>1, <2>3
  <2> QED BY <2>2, <2>3, <2>4
<1>2. CASE SetEnv
  BY <1>2 DEF SetEnv
<1>3. CASE SaveExport
  <2>1. NextSerial(env_flags) \in Flags
    BY SerialOrder
  <2> QED BY <1>3, <2>1 DEF SaveExport
<1>4. CASE SaveWritten
  <2>1. Good(env_flags, env) \in Copy
    BY CopyType
  <2>2. media' \in [Copies -> Copy]
    BY <1>4, <2>1 DEF SaveWritten
  <2>3. env_valid' \in Copies
    BY <1>4 DEF SaveWritten, Copies
  <2> QED BY <1>4, <2>2, <2>3 DEF SaveWritten
<1>5. CASE SaveFailed
  <2>1. PICK left \in Torn(media[Target], Good(env_flags, env)) :
          media' = [media EXCEPT ![Target] = left]
    BY <1>5 DEF SaveFailed
  <2>2. left \in Copy
    BY TargetType, CopyType DEF Torn
  <2> QED BY <1>5, <2>1, <2>2 DEF SaveFailed
<1>6. CASE PowerFail
  <2>1. media' \in [Copies -> Copy]
    <3>1. CASE pc = "write"
      <4>1. PICK left \in Torn(media[Target], Good(env_flags, env)) :
              media' = [media EXCEPT ![Target] = left]
        BY <1>6, <3>1 DEF PowerFail
      <4>2. left \in Copy
        BY TargetType, CopyType DEF Torn
      <4> QED BY <4>1, <4>2
    <3>2. CASE pc # "write"
      BY <1>6, <3>2 DEF PowerFail
    <3> QED BY <3>1, <3>2
  <2> QED BY <1>6, <2>1, PowerOnValues DEF PowerFail
<1>7. CASE UNCHANGED vars
  BY <1>7 DEF vars
<1> QED BY <1>1, <1>2, <1>3, <1>4, <1>5, <1>6, <1>7 DEF Next

\* The variables keep their types, whatever the card reports.
THEOREM TypeCorrect == Spec => []TypeOK
<1>1. Init => TypeOK
  BY FactoryType, StoredType, PowerOnValues DEF Init, PoweredOff, TypeOK
<1> QED BY <1>1, NextType, PTL DEF Spec

\* No step of a running U-Boot spoils the copy in use when that is good: a
\* write, complete or not, goes to the other one.
LEMMA NextKeepsOneGood ==
  ASSUME TypeOK, [Next]_vars, pc # "off", media[env_valid].crc
  PROVE  ~NoneValid(media')
<1>1. env_valid \in Copies /\ Target \in Copies /\ Target # env_valid
  BY TargetIsOther, OtherCopy
<1>2. \/ media' = media
      \/ \E left : media' = [media EXCEPT ![Target] = left]
  BY DEF Next, Load, SetEnv, SaveExport, SaveWritten, SaveFailed, PowerFail, vars
<1>3. media'[env_valid] = media[env_valid]
  BY <1>1, <1>2 DEF TypeOK
<1> QED BY <1>1, <1>3 DEF NoneValid

\* Once a good copy is in use, failing saves, retried however often, and power
\* failures leave the card a good copy.
THEOREM OneGoodAlwaysKept == Spec => KeepsOneGood
BY TypeCorrect, NextKeepsOneGood, PTL DEF Spec, KeepsOneGood

(***************************************************************************)
(* What holds on a card that reports no errors.                            *)
(***************************************************************************)
\* The inductive invariant.  What NeverOverwritesLive and Durable need is that
\* env_valid and env_flags, which the code keeps in RAM, agree with what the
\* next boot would read from the card: the copy in use is the one picked and,
\* between saves, env_flags is its serial number; during a save it is the
\* successor of that number, and the environment being written is one whose
\* save was begun.
IInv ==
  /\ TypeOK
  /\ ~degraded
  /\ Finds
  /\ pc # "off" /\ ~NoneValid(media) => Pick(media) = env_valid
  /\ pc = "idle" /\ ~NoneValid(media) => env_flags = media[env_valid].flags
  /\ pc = "write" =>
       /\ env \in maybe
       /\ \E f \in Flags :
            /\ env_flags = NextSerial(f)
            /\ ~NoneValid(media) => f = media[env_valid].flags

\* Every state of the store satisfies the invariant at first.
LEMMA InitIInv == Init => (errors = {} => IInv)
<1> SUFFICES ASSUME Init PROVE IInv
  OBVIOUS
<1>1. TypeOK
  BY FactoryType, StoredType, PowerOnValues DEF Init, PoweredOff, TypeOK
<1> QED BY <1>1 DEF Init, PoweredOff, IInv, Finds

\* What a save leaves on the card, whether it was completed or interrupted
\* while the other copy was being written.
LEMMA WriteOutcome ==
  ASSUME IInv, pc = "write",
         NEW left \in Torn(media[Target], Good(env_flags, env)),
         NEW after, after = [media EXCEPT ![Target] = left]
  PROVE  /\ after \in [Copies -> Copy]
         /\ Stored(after) \in {saved} \cup maybe
         /\ left = Good(env_flags, env) =>
              /\ ~NoneValid(after)
              /\ Pick(after) = Target
              /\ Stored(after) = env
<1>1. /\ media \in [Copies -> Copy]
      /\ Target = Other(env_valid)
      /\ env_valid \in Copies
      /\ Target \in Copies
  BY TargetIsOther, OtherCopy DEF IInv, TypeOK
<1>2. PICK f \in Flags :
        /\ env_flags = NextSerial(f)
        /\ ~NoneValid(media) => f = media[env_valid].flags
  BY DEF IInv
<1>3. ~NoneValid(media) => Pick(media) = env_valid
  BY DEF IInv
<1>4. Good(env_flags, env) \in Copy /\ Bad \in Copy
  BY CopyType DEF IInv, TypeOK
<1>5. Stored(media) \in {saved} \cup maybe
  BY DEF IInv, Finds
<1>6. env \in maybe /\ env \in Envs
  BY DEF IInv, TypeOK
<1>7. CASE left = Good(env_flags, env)
  <2>1. /\ after \in [Copies -> Copy]
        /\ after[env_valid] = media[env_valid]
        /\ after[Other(env_valid)] = Good(NextSerial(f), env)
    BY <1>1, <1>2, <1>4, <1>7, OtherCopy
  <2>2. ~NoneValid(after) /\ Pick(after) = Other(env_valid)
          /\ Stored(after) = env
    <3>1. ~NoneValid(media) =>
            Pick(media) = env_valid /\ media[env_valid].flags = f
      BY <1>2, <1>3
    <3>2. env \in Envs /\ env_valid \in Copies /\ media \in [Copies -> Copy]
      BY <1>1, <1>6
    <3> QED BY ONLY <3>1, <3>2, <2>1, f \in Flags, NewCopyPicked
  <2> QED BY <1>1, <1>6, <2>1, <2>2
<1>8. CASE left = Bad
  <2>1. /\ after \in [Copies -> Copy]
        /\ after[env_valid] = media[env_valid]
        /\ ~after[Other(env_valid)].crc
    BY <1>1, <1>4, <1>8, OtherCopy DEF Bad
  <2>2. Bad # Good(env_flags, env)
    BY DEF Bad, Good
  <2>3. Stored(after) = Stored(media)
    BY <1>1, <1>3, <2>1, TornCopyIgnored
  <2> QED BY <1>5, <1>8, <2>1, <2>2, <2>3
<1>9. CASE left = media[Target] /\ left # Good(env_flags, env)
  <2>1. after = media
    BY <1>1, <1>9
  <2> QED BY <1>1, <1>5, <1>9, <2>1
<1> QED BY <1>7, <1>8, <1>9 DEF Torn

\* Every step preserves the invariant when the card reports no errors.
LEMMA NextIInv ==
  ASSUME errors = {}, IInv, [Next]_vars
  PROVE  IInv'
<1> USE DEF IInv
<1>1. CASE Load
  <2>1. PICK readable \in SUBSET Copies, parsed \in BOOLEAN :
          LET imported == Import(media, readable, parsed, env_valid, env_flags)
              clean == readable = Copies /\ parsed
          IN /\ ~clean => "read" \in errors
             /\ env' = imported.data
             /\ env_valid' = imported.valid
             /\ env_flags' = imported.serial
             /\ degraded' = ~clean
             /\ saved' = IF clean THEN imported.data ELSE saved
             /\ maybe' = IF clean THEN {} ELSE maybe
    BY <1>1 DEF Load
  <2>2. readable = Copies /\ parsed = TRUE
    BY <2>1
  <2> DEFINE i == Import(media, Copies, TRUE, env_valid, env_flags)
  <2>3. /\ env' = i.data /\ env_valid' = i.valid /\ env_flags' = i.serial
        /\ ~degraded' /\ saved' = i.data /\ maybe' = {} /\ degraded' \in BOOLEAN
    BY <2>1, <2>2
  <2>4. pc' = "idle" /\ media' = media /\ errors' = errors
    BY <1>1 DEF Load
  <2>5. /\ i.data = Stored(media)
        /\ i.valid \in Copies
        /\ i.serial \in Flags
        /\ ~NoneValid(media) => /\ i.valid = Pick(media)
                                /\ i.serial = media[Pick(media)].flags
    BY ImportClean DEF TypeOK
  <2>6. Stored(media) \in Envs
    BY StoredType DEF TypeOK
  <2> HIDE DEF i
  <2>7. TypeOK'
    BY <2>3, <2>4, <2>5, <2>6 DEF TypeOK
  <2>8. Finds'
    BY <2>3, <2>4, <2>5 DEF Finds
  <2> QED BY <2>3, <2>4, <2>5, <2>7, <2>8
<1>2. CASE SetEnv
  <2>1. TypeOK'
    BY <1>2 DEF SetEnv, TypeOK, Envs
  <2> QED BY <1>2, <2>1 DEF SetEnv, Finds
<1>3. CASE SaveExport
  <2>1. NextSerial(env_flags) \in Flags
    BY SerialOrder DEF TypeOK
  <2>2. TypeOK'
    BY <1>3, <2>1 DEF SaveExport, TypeOK
  <2>3. Finds'
    BY <1>3 DEF SaveExport, Finds
  <2>4. env_flags \in Flags /\ env_flags' = NextSerial(env_flags)
           /\ (~NoneValid(media) => env_flags = media[env_valid].flags)
    BY <1>3 DEF SaveExport, TypeOK
  <2> QED BY <1>3, <2>2, <2>3, <2>4 DEF SaveExport
<1>4. CASE SaveWritten
  <2> DEFINE new == Good(env_flags, env)
  <2>1. pc = "write" /\ media' = [media EXCEPT ![Target] = new]
          /\ pc' = "idle" /\ saved' = env /\ maybe' = {} /\ ~degraded'
          /\ env' = env /\ env_flags' = env_flags /\ degraded' \in BOOLEAN
          /\ errors' = errors
    BY <1>4 DEF SaveWritten
  <2>2. env_valid' = Target /\ Target \in Copies
    BY <1>4, TargetIsOther, OtherCopy
    DEF SaveWritten, Target, TypeOK, Copies, ENV_VALID, ENV_REDUND
  <2>3. /\ media' \in [Copies -> Copy]
        /\ ~NoneValid(media') /\ Pick(media') = Target /\ Stored(media') = env
    BY <2>1, WriteOutcome DEF Torn
  <2>4. media'[Target].flags = env_flags
    BY <2>1, <2>2 DEF Good, TypeOK
  <2>5. TypeOK'
    BY <2>1, <2>2, <2>3 DEF TypeOK
  <2>6. Finds'
    BY <2>1, <2>3 DEF Finds
  <2> QED BY <2>1, <2>2, <2>3, <2>4, <2>5, <2>6
<1>5. CASE SaveFailed
  BY <1>5 DEF SaveFailed
<1>6. CASE PowerFail
  <2>1. /\ pc' = "off" /\ ~degraded' /\ env' = Default /\ env_valid' = ENV_VALID
        /\ env_flags' = 0 /\ degraded' = FALSE /\ saved' = saved /\ maybe' = maybe
        /\ errors' = errors
    BY <1>6 DEF PowerFail
  <2>2. media' \in [Copies -> Copy] /\ Stored(media') \in {saved} \cup maybe
    <3>1. CASE pc = "write"
      <4>1. PICK left \in Torn(media[Target], Good(env_flags, env)) :
              media' = [media EXCEPT ![Target] = left]
        BY <1>6, <3>1 DEF PowerFail
      <4> QED BY <3>1, <4>1, WriteOutcome
    <3>2. CASE pc # "write"
      BY <1>6, <3>2 DEF PowerFail, TypeOK, Finds
    <3> QED BY <3>1, <3>2
  <2>3. TypeOK'
    BY <2>1, <2>2, PowerOnValues DEF TypeOK
  <2>4. Finds'
    BY <2>1, <2>2 DEF Finds
  <2> QED BY <2>1, <2>3, <2>4
<1>7. CASE UNCHANGED vars
  BY <1>7 DEF vars, TypeOK, Finds
<1> QED BY <1>1, <1>2, <1>3, <1>4, <1>5, <1>6, <1>7 DEF Next

\* Spec keeps the inductive invariant on a card without errors.
THEOREM Invariance == Spec => [](errors = {} => IInv)
<1>1. [Next]_vars => errors' = errors
  BY DEF Next, Load, SetEnv, SaveExport, SaveWritten, SaveFailed, PowerFail, vars
<1>2. (errors = {} => IInv) /\ [Next]_vars => (errors = {} => IInv)'
  BY <1>1, NextIInv
<1> QED BY InitIInv, <1>2, PTL DEF Spec

\* Whenever power fails on a card without errors, the next boot finds the last
\* environment saved or loaded, or one whose save power interrupted.
THEOREM DurableAlways == Spec => []Durable
<1>1. (errors = {} => IInv) => Durable
  BY DEF IInv, Durable
<1> QED BY <1>1, Invariance, PTL

\* On a card without errors no save writes over the copy the next boot would
\* load.
THEOREM LiveNeverOverwritten == Spec => []NeverOverwritesLive
<1>1. (errors = {} => IInv) => NeverOverwritesLive
  BY TargetIsOther, OtherCopy DEF IInv, NeverOverwritesLive
<1> QED BY <1>1, Invariance, PTL

\* Every step of the store is a step of the promise, or changes nothing of it:
\* Load is CleanBoot, SaveExport is SaveBegin, SaveWritten is SaveDone.
LEMMA StepKeepsPromise ==
  ASSUME errors = {}, IInv, [Next]_vars
  PROVE  [Promise!PromiseNext]_(Promise!promiseVars)
<1>1. CASE Load
  <2>1. PICK readable \in SUBSET Copies, parsed \in BOOLEAN :
          LET imported == Import(media, readable, parsed, env_valid, env_flags)
              clean == readable = Copies /\ parsed
          IN /\ ~clean => "read" \in errors
             /\ env' = imported.data
             /\ degraded' = ~clean
             /\ saved' = IF clean THEN imported.data ELSE saved
             /\ maybe' = IF clean THEN {} ELSE maybe
    BY <1>1 DEF Load
  <2>2. readable = Copies /\ parsed = TRUE
    BY <2>1
  <2>3. /\ env' = Import(media, Copies, TRUE, env_valid, env_flags).data
        /\ saved' = env' /\ maybe' = {} /\ degraded' = FALSE
    BY <2>1, <2>2
  <2>4. env' = Stored(media)
    BY <2>3, ImportClean DEF IInv, TypeOK
  <2>5. env' \in {saved} \cup maybe
    BY <2>4 DEF IInv, Finds
  <2>6. pc = "off" /\ pc' = "idle"
    BY <1>1 DEF Load
  <2> QED BY <2>3, <2>5, <2>6 DEF Promise!PromiseNext, Promise!CleanBoot
<1>2. CASE SetEnv
  BY <1>2 DEF SetEnv, Envs, Promise!PromiseNext, Promise!Edit, Promise!Envs
<1>3. CASE SaveExport
  BY <1>3 DEF SaveExport, IInv, Promise!PromiseNext, Promise!SaveBegin
<1>4. CASE SaveWritten
  BY <1>4 DEF SaveWritten, IInv, Promise!PromiseNext, Promise!SaveDone
<1>5. CASE SaveFailed
  BY <1>5 DEF SaveFailed
<1>6. CASE PowerFail
  BY <1>6 DEF PowerFail, Promise!PromiseNext, Promise!PowerOff
<1>7. CASE UNCHANGED vars
  BY <1>7 DEF vars, Promise!promiseVars
<1> QED BY <1>1, <1>2, <1>3, <1>4, <1>5, <1>6, <1>7 DEF Next

\* The redundant environment on an MMC that reports no errors implements
\* EnvPromise, wherever power fails.
THEOREM StoreKeepsPromise == Spec => KeepsPromise
<1>1. Init => Promise!PromiseInit
  BY StoredType, FactoryType, PowerOnValues
  DEF Init, PoweredOff, Promise!PromiseInit, Promise!Envs, Envs
<1>2. (errors = {} => IInv) /\ [Next]_vars =>
        [errors = {} => Promise!PromiseNext]_(Promise!promiseVars)
  BY StepKeepsPromise
<1> QED BY <1>1, <1>2, Invariance, PTL DEF Spec, KeepsPromise

-----------------------------------------------------------------------------
(***************************************************************************)
(* EnvDriver: env_save() reaches env_mmc_save() when the storage that was  *)
(* chosen is the MMC.  The choice, for any number of drivers; its state    *)
(* shares nothing with the card's.                                         *)
(***************************************************************************)
\* env_load() goes through the priorities in order, so that the first bad CRC
\* it saw, best_prio, is that of the highest priority.
BestSoFar ==
  /\ best_prio = NoPrio <=> bad = {}
  /\ best_prio # NoPrio => best_prio \in bad
  /\ \A p \in bad : best_prio <= p /\ p < prio

\* The inductive invariant.  Nothing is loaded or known to be bad before
\* env_load() runs; what was loaded is where gd was left; and after a loop that
\* loaded nothing gd is at the best of the bad locations.
PlaceInv ==
  /\ DriverTypeOK
  /\ stage \in {"init", "relocate", "hang"} => ~tried /\ loaded = NoPrio /\ bad = {}
  /\ stage = "load" => tried /\ loaded = NoPrio
  /\ loaded # NoPrio => /\ stage = "idle" /\ env_load_prio = loaded
                        /\ loaded \in env_has_init
  /\ BestSoFar
  /\ stage = "idle" /\ tried /\ loaded = NoPrio =>
       env_load_prio = IF best_prio = NoPrio THEN 0 ELSE best_prio

\* What env_load() keeps in best_prio is the best choice the property asks for.
LEMMA BestIsBest ==
  ASSUME DriverTypeOK, BestSoFar
  PROVE  BestChoice = IF best_prio = NoPrio THEN 0 ELSE best_prio
<1>1. CASE bad = {}
  BY <1>1 DEF BestSoFar, BestChoice
<1>2. CASE bad # {}
  <2>1. best_prio \in bad /\ \A q \in bad : best_prio <= q
    BY <1>2 DEF BestSoFar
  <2>2. bad \subseteq Int
    BY LocationsAssumption DEF DriverTypeOK, Prios
  <2>3. ASSUME NEW p \in bad, \A q \in bad : p <= q
        PROVE  p = best_prio
    <3>1. p \in Int /\ best_prio \in Int /\ p <= best_prio /\ best_prio <= p
      BY <2>1, <2>2, <2>3
    <3> QED BY <3>1
  <2>4. (CHOOSE p \in bad : \A q \in bad : p <= q) = best_prio
    BY <2>1, <2>3
  <2> QED BY <1>2, <2>4 DEF BestSoFar, BestChoice
<1> QED BY <1>1, <1>2

\* A build with any drivers starts in the invariant.
LEMMA PlaceInit ==
  ASSUME DriverInit
  PROVE  PlaceInv
<1>1. 0 \in 0 .. NumLocations /\ 0 \in Prios
  BY LocationsAssumption DEF Prios
<1>2. DriverTypeOK
  BY <1>1 DEF DriverInit, DriverTypeOK
<1> QED BY <1>2 DEF DriverInit, PlaceInv, BestSoFar

\* Every step of env_init(), env_relocate(), env_load() and env_save() keeps
\* the invariant.
LEMMA PlaceNext ==
  ASSUME PlaceInv, [DriverNext]_driverVars
  PROVE  PlaceInv'
<1>1. NumLocations \in Nat \ {0}
  BY LocationsAssumption
<1> USE <1>1 DEF PlaceInv, BestSoFar, DriverTypeOK, Prios, NoPrio
<1>2. CASE InitDriver
  <2> DEFINE init == driver[prio].init
  <2>1. init \in {"absent", "valid", "invalid", "noent", "error"}
    <3>1. driver[prio] \in Drivers
      BY <1>2 DEF InitDriver
    <3> QED BY <3>1 DEF Drivers
  <2>2. /\ ret' = IF init = "absent" THEN ret
                 ELSE IF init \in {"valid", "invalid"} THEN "ok" ELSE init
        /\ gd_valid' = IF init \in {"valid", "invalid"}
                       THEN init = "valid" ELSE gd_valid
        /\ env_has_init' \subseteq env_has_init \cup {prio}
        /\ env_has_init \subseteq env_has_init'
    BY <1>2 DEF InitDriver
  <2> HIDE DEF init
  <2>3. ret' \in {"ok", "noent", "error"}
    BY <2>1, <2>2
  <2>4. gd_valid' \in BOOLEAN
    BY <2>2
  <2> QED BY <1>2, <2>2, <2>3, <2>4 DEF InitDriver, LookUp
<1>3. CASE InitDone
  BY <1>3 DEF InitDone
<1>4. CASE Relocate
  BY <1>4 DEF Relocate
<1>5. CASE LoadSkip
  BY <1>5 DEF LoadSkip, LookUp
<1>6. CASE LoadDriver
  BY <1>6 DEF LoadDriver, LookUp, LoadResults
<1>7. CASE LoadDone
  BY <1>7 DEF LoadDone, LookUp
<1>8. CASE Save
  BY <1>8 DEF Save, LookUp
<1>9. CASE UNCHANGED driverVars
  BY <1>9 DEF driverVars
<1> QED BY <1>2, <1>3, <1>4, <1>5, <1>6, <1>7, <1>8, <1>9 DEF DriverNext

\* The invariant says more than the property.
LEMMA PlaceImplies ==
  ASSUME PlaceInv
  PROVE  RightPlace
<1>1. RightPlaceAfterLoad
  BY BestIsBest DEF PlaceInv, RightPlaceAfterLoad
<1>2. SavesWhereLoaded
  BY DEF PlaceInv, SavesWhereLoaded, SaveLocation
<1> QED BY <1>1, <1>2 DEF PlaceInv, RightPlace

\* saveenv writes to the location that was loaded, or to none; after an
\* env_load() that loaded nothing, to the one whose CRC was bad and whose
\* priority is the highest, for any number of drivers.
THEOREM SavesAtRightPlace == DriverSpec => []RightPlace
BY PlaceInit, PlaceNext, PlaceImplies, PTL DEF DriverSpec

=============================================================================
