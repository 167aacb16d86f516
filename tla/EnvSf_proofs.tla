---------------------------- MODULE EnvSf_proofs ----------------------------
(***************************************************************************)
(* What EnvSf guarantees, with every error the flash can report and power  *)
(* failing at any step of a save, for every set of environments: the       *)
(* active and obsolete flags need no assumption where the serial number of *)
(* EnvMmc needs a card without errors.                                     *)
(***************************************************************************)
EXTENDS EnvSf, EnvRedund_proofs

\* The copy in use holds what was last saved or loaded.
Kept(copies, valid, last) ==
  IF copies[valid].crc THEN copies[valid].data = last ELSE last = Default

\* The copy not in use is not the one a boot picks, unless it holds an
\* environment whose save was begun.
Harmless(copies, valid, begun) ==
  LET c == Other(valid)
  IN copies[c].crc => Pick(copies) = valid \/ copies[c].data \in begun

\* The inductive invariant.  Durable alone says nothing of the copy in use
\* once a failed save left a good copy next to it, yet the retry that erases
\* this one relies on the copy in use: hence Kept and Harmless.
IInv ==
  /\ TypeOK
  /\ Durable
  /\ pc \notin {"off", "idle"} => env \in maybe /\ (degraded => maybe = Envs)
  /\ pc # "off" /\ ~degraded =>
       Kept(media, env_valid, saved) /\ Harmless(media, env_valid, maybe)
  /\ pc \in {"restore", "obsolete"} => media[Target] = Good(ACTIVE_FLAG, env)

LEMMA TargetIsOther ==
  ASSUME TypeOK
  PROVE  Target = Other(env_valid) /\ env_valid \in Copies /\ Target \in Copies
           /\ Target # env_valid /\ Other(env_valid) \in Copies
BY OtherCopy DEF TypeOK, Target, Other

LEMMA FlagTypes == ACTIVE_FLAG \in Flags /\ OBSOLETE_FLAG \in Flags
BY FlagMaxAssumption DEF Flags, ACTIVE_FLAG, OBSOLETE_FLAG

\* When the copy in use is kept and the other is harmless, the next boot finds
\* what it should.
LEMMA KeptIsDurable ==
  ASSUME NEW copies \in [Copies -> Copy], NEW valid \in Copies,
         NEW last, NEW begun,
         Kept(copies, valid, last), Harmless(copies, valid, begun)
  PROVE  Stored(copies) \in {last} \cup begun
<1>1. CASE NoneValid(copies)
  BY <1>1 DEF NoneValid, Stored, Kept
<1>2. CASE ~NoneValid(copies)
  <2>1. Pick(copies) \in Copies /\ copies[Pick(copies)].crc
    BY <1>2, PickIsValid
  <2>2. Stored(copies) = copies[Pick(copies)].data
    BY <1>2 DEF Stored
  <2>3. CASE Pick(copies) = valid
    BY <2>1, <2>2, <2>3 DEF Kept
  <2>4. CASE Pick(copies) # valid
    <3>1. Pick(copies) = Other(valid)
      BY <2>1, <2>4, OtherCopy
    <3> QED BY <2>1, <2>2, <2>4, <3>1 DEF Harmless
  <2> QED BY <2>3, <2>4
<1> QED BY <1>1, <1>2

\* The environments the steps of a save leave in flash, whether they complete
\* or not: nothing changed, the other copy erased, the other copy written, the
\* copy in use obsoleted once the other was written.
SaveOutcome(after) ==
  \/ after = media
  \/ after = [media EXCEPT ![Target] = Bad]
  \/ after = [media EXCEPT ![Target] = Good(ACTIVE_FLAG, env)]
  \/ after = Obsoleted /\ pc = "obsolete"

LEMMA OutcomeHarmless ==
  ASSUME IInv, pc \notin {"off", "idle"}, NEW after, SaveOutcome(after)
  PROVE  /\ after \in [Copies -> Copy]
         /\ Stored(after) \in {saved} \cup maybe
         /\ ~degraded => Kept(after, env_valid, saved)
                           /\ Harmless(after, env_valid, maybe)
<1>1. /\ media \in [Copies -> Copy]
      /\ env_valid \in Copies
      /\ Target = Other(env_valid)
      /\ Target \in Copies /\ Target # env_valid
      /\ env \in Envs /\ env \in maybe
      /\ degraded => maybe = Envs
  BY TargetIsOther DEF IInv, TypeOK
<1>2. ~degraded => Kept(media, env_valid, saved)
                     /\ Harmless(media, env_valid, maybe)
  BY DEF IInv
<1>3. Bad \in Copy /\ Good(ACTIVE_FLAG, env) \in Copy
  BY <1>1, CopyType, FlagTypes
<1>4. after \in [Copies -> Copy]
  <2>1. CASE after = Obsoleted
    <3>1. [media[env_valid] EXCEPT !.flags = OBSOLETE_FLAG] \in Copy
      BY <1>1, FlagTypes DEF Copy
    <3> QED BY <1>1, <2>1, <3>1 DEF Obsoleted
  <2>2. CASE after # Obsoleted
    BY <1>1, <1>3, <2>2 DEF SaveOutcome
  <2> QED BY <2>1, <2>2
<1>5. ASSUME ~degraded
      PROVE  Kept(after, env_valid, saved) /\ Harmless(after, env_valid, maybe)
  <2>1. CASE after = media
    BY <1>2, <1>5, <2>1
  <2>2. CASE after = [media EXCEPT ![Target] = Bad]
    <3>1. after[env_valid] = media[env_valid] /\ ~after[Target].crc
      BY <1>1, <2>2 DEF Bad
    <3> QED BY <1>1, <1>2, <1>5, <3>1 DEF Kept, Harmless
  <2>3. CASE after = [media EXCEPT ![Target] = Good(ACTIVE_FLAG, env)]
    <3>1. after[env_valid] = media[env_valid] /\ after[Target].data = env
      BY <1>1, <2>3 DEF Good
    <3> QED BY <1>1, <1>2, <1>5, <3>1 DEF Kept, Harmless
  <2>4. CASE after = Obsoleted /\ pc = "obsolete"
    <3>1. media[env_valid] \in Copy
      BY <1>1
    <3>2. /\ after[env_valid].crc = media[env_valid].crc
          /\ after[env_valid].data = media[env_valid].data
      BY <1>1, <2>4, <3>1 DEF Obsoleted, Copy
    <3>3. after[Target] = media[Target]
      BY <1>1, <2>4 DEF Obsoleted
    <3>4. after[Target].data = env
      BY <2>4, <3>3 DEF IInv, Good
    <3> QED BY <1>1, <1>2, <1>5, <3>2, <3>4 DEF Kept, Harmless
  <2> QED BY <2>1, <2>2, <2>3, <2>4 DEF SaveOutcome
<1>6. Stored(after) \in {saved} \cup maybe
  <2>1. CASE degraded
    BY <1>1, <1>4, <2>1, StoredType
  <2>2. CASE ~degraded
    BY <1>1, <1>4, <1>5, <2>2, KeptIsDurable
  <2> QED BY <2>1, <2>2
<1> QED BY <1>4, <1>5, <1>6

\* Once both flags are written the new copy is the one picked, whatever the
\* old one's flags were.
LEMMA ObsoletedPick ==
  ASSUME IInv, pc = "obsolete"
  PROVE  /\ ~NoneValid(Obsoleted)
         /\ Pick(Obsoleted) = Target
         /\ Obsoleted[Target] = Good(ACTIVE_FLAG, env)
<1>1. /\ media \in [Copies -> Copy]
      /\ env_valid \in Copies
      /\ Target = Other(env_valid)
      /\ Target \in Copies /\ Target # env_valid
  BY TargetIsOther DEF IInv, TypeOK
<1>2. Obsoleted[Target] = Good(ACTIVE_FLAG, env)
  BY <1>1 DEF Obsoleted, IInv
<1>3. Obsoleted[env_valid].flags = OBSOLETE_FLAG
  <2>1. media[env_valid] \in Copy
    BY <1>1
  <2> QED BY <1>1, <2>1 DEF Obsoleted, Copy
<1>4. Obsoleted[Target].crc /\ Obsoleted[Target].flags = ACTIVE_FLAG
  BY <1>2 DEF Good
<1>5. ~NoneValid(Obsoleted)
  BY <1>1, <1>4 DEF NoneValid
<1>6. /\ SecondIsNewer(OBSOLETE_FLAG, ACTIVE_FLAG)
      /\ ~SecondIsNewer(ACTIVE_FLAG, OBSOLETE_FLAG)
  BY FlagMaxAssumption DEF SecondIsNewer, ACTIVE_FLAG, OBSOLETE_FLAG
<1>7. Pick(Obsoleted) = Target
  BY <1>1, <1>3, <1>4, <1>6 DEF Pick, Other, Copies, ENV_VALID, ENV_REDUND
<1> QED BY <1>2, <1>5, <1>7

LEMMA InitIInv == Init => IInv
<1> SUFFICES ASSUME Init PROVE IInv
  OBVIOUS
<1>1. media \in [Copies -> Copy]
  <2>1. {ACTIVE_FLAG} \in SUBSET Flags
    BY FlagTypes
  <2> QED BY <2>1, FactoryType DEF Init
<1>2. TypeOK
  BY <1>1, StoredType, PowerOnValues DEF Init, TypeOK
<1> QED BY <1>2 DEF Init, IInv, Durable

\* What every step of a save that does not complete leaves.
LEMMA PartialOutcome ==
  ASSUME TypeOK, Partial
  PROVE  /\ pc = "idle" => media' = media /\ rest' = rest
         /\ pc # "off" => SaveOutcome(media')
         /\ rest' \in [Copies -> BOOLEAN]
<1>1. Target \in Copies /\ rest \in [Copies -> BOOLEAN]
        /\ saved_buffer \in BOOLEAN /\ SharedSector \in BOOLEAN
        /\ media \in [Copies -> Copy]
  BY TargetIsOther, SfAssumption DEF TypeOK
<1>2. CASE pc \in {"setup", "idle"}
  BY <1>1, <1>2 DEF Partial, SaveOutcome
<1>3. CASE pc = "erase"
  <2>1. PICK left \in {media[Target], Bad} :
          media' = [media EXCEPT ![Target] = left]
    BY <1>3 DEF Partial
  <2>2. PICK kept \in {rest[Target], ~SharedSector} :
          rest' = [rest EXCEPT ![Target] = kept]
    BY <1>3 DEF Partial
  <2> QED BY <1>1, <1>3, <2>1, <2>2 DEF SaveOutcome
<1>4. CASE pc = "write"
  <2>1. PICK left \in Torn(Bad, Good(ACTIVE_FLAG, env)) :
          media' = [media EXCEPT ![Target] = left]
    BY <1>4 DEF Partial
  <2>2. rest' = rest
    BY <1>4 DEF Partial
  <2> QED BY <1>1, <1>4, <2>1, <2>2 DEF SaveOutcome, Torn
<1>5. CASE pc = "restore"
  <2>1. PICK kept \in {FALSE, saved_buffer} :
          rest' = [rest EXCEPT ![Target] = kept]
    BY <1>5 DEF Partial
  <2>2. media' = media
    BY <1>5 DEF Partial
  <2> QED BY <1>1, <1>5, <2>1, <2>2 DEF SaveOutcome
<1>6. CASE pc = "obsolete"
  BY <1>1, <1>6 DEF Partial, SaveOutcome
<1> QED BY <1>2, <1>3, <1>4, <1>5, <1>6 DEF Partial

\* A step of a save that completes, up to the last, keeps the invariant.
LEMMA SaveStepIInv ==
  ASSUME IInv, SetUp \/ Erase \/ Write \/ Restore
  PROVE  IInv'
<1>1. /\ pc \notin {"off", "idle"}
      /\ pc' \in {"erase", "write", "restore", "obsolete"}
      /\ env' = env /\ env_valid' = env_valid /\ degraded' = degraded
      /\ saved' = saved /\ maybe' = maybe /\ mishap' = mishap
  BY DEF SetUp, Erase, Write, Restore, historyVars, flashVars
<1>2. SaveOutcome(media')
  BY DEF SetUp, Erase, Write, Restore, SaveOutcome, flashVars
<1>3. /\ media' \in [Copies -> Copy]
      /\ Stored(media') \in {saved} \cup maybe
      /\ ~degraded => Kept(media', env_valid, saved)
                        /\ Harmless(media', env_valid, maybe)
  BY <1>1, <1>2, OutcomeHarmless
<1>4. rest' \in [Copies -> BOOLEAN] /\ saved_buffer' \in BOOLEAN
  <2>1. rest \in [Copies -> BOOLEAN] /\ saved_buffer \in BOOLEAN
          /\ SharedSector \in BOOLEAN /\ Target \in Copies
    BY TargetIsOther, SfAssumption DEF IInv, TypeOK
  <2>2. CASE SetUp
    BY <2>1, <2>2 DEF SetUp, flashVars
  <2>3. CASE Erase
    BY <2>1, <2>3 DEF Erase
  <2>4. CASE Write
    BY <2>1, <2>4 DEF Write
  <2>5. CASE Restore
    BY <2>1, <2>5 DEF Restore
  <2> QED BY <2>2, <2>3, <2>4, <2>5
<1>5. TypeOK'
  BY <1>1, <1>3, <1>4 DEF IInv, TypeOK
<1>6. Durable'
  BY <1>1, <1>3 DEF Durable
<1>7. pc' \in {"restore", "obsolete"} =>
        media'[Target] = Good(ACTIVE_FLAG, env)
  BY TargetIsOther DEF SetUp, Erase, Write, Restore, IInv, TypeOK
<1>8. Target' = Target
  BY <1>1 DEF Target
<1> QED BY <1>1, <1>3, <1>5, <1>6, <1>7, <1>8 DEF IInv

LEMMA NextIInv == ASSUME IInv, [Next]_vars PROVE IInv'
<1>1. CASE Load
  <2>1. PICK readable \in SUBSET Copies, parsed \in BOOLEAN :
          LET imported == Import(media, readable, parsed, env_valid, 0)
              clean == readable = Copies /\ parsed
          IN /\ env' = imported.data
             /\ env_valid' = imported.valid
             /\ degraded' = ~clean
             /\ saved' = IF clean THEN imported.data ELSE saved
             /\ maybe' = IF clean THEN {} ELSE maybe
    BY <1>1 DEF Load
  <2>2. media' = media /\ rest' = rest /\ mishap' = mishap /\ pc' = "idle"
          /\ saved_buffer' = saved_buffer
    BY <1>1 DEF Load, flashVars
  <2>3. /\ media \in [Copies -> Copy] /\ env_valid \in Copies /\ 0 \in Flags
        /\ Stored(media) \in Envs
    BY StoredType, PowerOnValues DEF IInv, TypeOK
  <2>4. env' \in Envs /\ env_valid' \in Copies
    BY <2>1, <2>3, ImportType
  <2>5. CASE readable = Copies /\ parsed
    <3> DEFINE i == Import(media, Copies, TRUE, env_valid, 0)
    <3>1. /\ env' = i.data /\ env_valid' = i.valid /\ degraded' = FALSE
          /\ saved' = i.data /\ maybe' = {}
      BY <2>1, <2>5
    <3>2. i.data = Stored(media) /\ (~NoneValid(media) => i.valid = Pick(media))
      BY <2>3, ImportClean
    <3> HIDE DEF i
    <3>3. Kept(media, env_valid', saved')
      <4>1. CASE NoneValid(media)
        BY <2>4, <3>1, <3>2, <4>1 DEF NoneValid, Kept, Stored
      <4>2. CASE ~NoneValid(media)
        BY <2>3, <3>1, <3>2, <4>2, PickIsValid DEF Kept, Stored
      <4> QED BY <4>1, <4>2
    <3>4. Harmless(media, env_valid', maybe')
      <4>1. CASE NoneValid(media)
        BY <2>4, <4>1, OtherCopy DEF NoneValid, Harmless
      <4>2. CASE ~NoneValid(media)
        BY <3>1, <3>2, <4>2 DEF Harmless
      <4> QED BY <4>1, <4>2
    <3>5. TypeOK'
      BY <2>2, <2>4, <3>1, <3>2 DEF IInv, TypeOK
    <3>6. Durable'
      BY <2>2, <3>1, <3>2 DEF Durable
    <3> QED BY <2>2, <3>3, <3>4, <3>5, <3>6 DEF IInv
  <2>6. CASE ~(readable = Copies /\ parsed)
    <3>1. degraded' = TRUE /\ saved' = saved /\ maybe' = maybe
      BY <2>1, <2>6
    <3>2. TypeOK'
      BY <2>2, <2>4, <3>1 DEF IInv, TypeOK
    <3>3. Durable'
      BY <2>2, <3>1 DEF IInv, Durable
    <3> QED BY <2>2, <3>1, <3>2, <3>3 DEF IInv
  <2> QED BY <2>5, <2>6
<1>2. CASE SetEnv
  <2>1. TypeOK' /\ Durable' /\ pc' = "idle"
    BY <1>2 DEF SetEnv, IInv, TypeOK, Durable, flashVars, historyVars
  <2> QED BY <1>2, <2>1 DEF SetEnv, IInv, flashVars, historyVars
<1>3. CASE SaveBegin
  <2>1. /\ media' = media /\ env' = env /\ env_valid' = env_valid
        /\ saved' = saved /\ degraded' = degraded /\ env \in Envs
        /\ maybe' = IF degraded THEN Envs ELSE maybe \cup {env}
        /\ pc' = "setup" /\ pc = "idle" /\ maybe \subseteq Envs
        /\ rest' = rest /\ mishap' = mishap /\ saved_buffer' = saved_buffer
    BY <1>3 DEF SaveBegin, IInv, TypeOK, flashVars
  <2>2. TypeOK'
    BY <2>1 DEF IInv, TypeOK
  <2>3. maybe \subseteq maybe' /\ env' \in maybe' /\ (degraded' => maybe' = Envs)
    BY <2>1
  <2>4. Durable'
    BY <2>1, <2>3 DEF IInv, Durable
  <2>5. ~degraded' => Kept(media', env_valid', saved')
                      /\ Harmless(media', env_valid', maybe')
    BY <2>1, <2>3 DEF IInv, Harmless
  <2> QED BY <2>1, <2>2, <2>3, <2>4, <2>5 DEF IInv
<1>4. CASE SetupFails
  <2>1. TypeOK' /\ Durable' /\ pc' = "idle"
    BY <1>4, PowerOnValues
    DEF SetupFails, IInv, TypeOK, Durable, flashVars, historyVars
  <2> QED BY <1>4, <2>1 DEF SetupFails, IInv, flashVars, historyVars
<1>5. CASE SetUp \/ Erase \/ Write \/ Restore
  BY <1>5, SaveStepIInv
<1>6. CASE Obsolete
  <2>1. /\ pc = "obsolete" /\ pc' = "idle" /\ media' = Obsoleted
        /\ saved' = env /\ maybe' = {} /\ degraded' = FALSE /\ env' = env
        /\ rest' = rest /\ mishap' = mishap /\ saved_buffer' = saved_buffer
    BY <1>6 DEF Obsolete
  <2>2. env_valid' = Target /\ Target \in Copies /\ Target = Other(env_valid)
          /\ env_valid \in Copies /\ env \in Envs
    BY <1>6, TargetIsOther
    DEF Obsolete, Target, IInv, TypeOK, Copies, ENV_VALID, ENV_REDUND
  <2>3. /\ ~NoneValid(media') /\ Pick(media') = Target
        /\ media'[Target].data = env /\ media'[Target].crc
    BY <2>1, ObsoletedPick DEF Good
  <2>4. media' \in [Copies -> Copy]
    BY <2>1, OutcomeHarmless DEF SaveOutcome
  <2>5. TypeOK'
    BY <2>1, <2>2, <2>4 DEF IInv, TypeOK
  <2>6. Durable'
    BY <2>1, <2>3 DEF Durable, Stored
  <2>7. Kept(media', env_valid', saved') /\ Harmless(media', env_valid', maybe')
    BY <2>1, <2>2, <2>3 DEF Kept, Harmless
  <2> QED BY <2>1, <2>5, <2>6, <2>7 DEF IInv
<1>7. CASE SaveFails
  <2>1. /\ pc \notin {"off", "idle"} /\ Partial /\ pc' = "idle"
        /\ env' = env /\ env_valid' = env_valid /\ degraded' = degraded
        /\ saved' = saved /\ maybe' = maybe /\ saved_buffer' = saved_buffer
        /\ mishap' \in BOOLEAN
    BY <1>7 DEF SaveFails, historyVars, IInv, TypeOK
  <2>2. SaveOutcome(media') /\ rest' \in [Copies -> BOOLEAN]
    BY <2>1, PartialOutcome DEF IInv
  <2>3. /\ media' \in [Copies -> Copy]
        /\ Stored(media') \in {saved} \cup maybe
        /\ ~degraded => Kept(media', env_valid, saved)
                          /\ Harmless(media', env_valid, maybe)
    BY <2>1, <2>2, OutcomeHarmless
  <2>4. TypeOK' /\ Durable'
    BY <2>1, <2>2, <2>3 DEF IInv, TypeOK, Durable
  <2> QED BY <2>1, <2>3, <2>4 DEF IInv
<1>8. CASE PowerFail
  <2>1. /\ pc # "off" /\ Partial /\ pc' = "off" /\ env' = Default
        /\ env_valid' = ENV_VALID /\ degraded' = FALSE /\ saved' = saved
        /\ maybe' = maybe /\ saved_buffer' = FALSE /\ mishap' \in BOOLEAN
    BY <1>8 DEF PowerFail, IInv, TypeOK
  <2>2. rest' \in [Copies -> BOOLEAN]
    BY <2>1, PartialOutcome DEF IInv
  <2>3. media' \in [Copies -> Copy] /\ Stored(media') \in {saved} \cup maybe
    <3>1. CASE pc = "idle"
      BY <2>1, <3>1, PartialOutcome DEF IInv, TypeOK, Durable
    <3>2. CASE pc # "idle"
      BY <2>1, <3>2, PartialOutcome, OutcomeHarmless DEF IInv
    <3> QED BY <3>1, <3>2
  <2>4. TypeOK' /\ Durable'
    BY <2>1, <2>2, <2>3, PowerOnValues DEF IInv, TypeOK, Durable
  <2> QED BY <2>1, <2>4 DEF IInv
<1>9. CASE UNCHANGED vars
  <2>1. TypeOK' /\ Durable' /\ Target' = Target
    BY <1>9 DEF vars, flashVars, historyVars, IInv, TypeOK, Durable, Target
  <2> QED BY <1>9, <2>1 DEF vars, flashVars, historyVars, IInv
<1> QED
  BY <1>1, <1>2, <1>3, <1>4, <1>5, <1>6, <1>7, <1>8, <1>9 DEF Next

THEOREM Invariance == Spec => []IInv
BY InitIInv, NextIInv, PTL DEF Spec

\* The variables keep their types.
THEOREM TypeCorrect == Spec => []TypeOK
<1>1. IInv => TypeOK
  BY DEF IInv
<1> QED BY <1>1, Invariance, PTL

\* Whatever step power or the flash fails at, the next boot finds the last
\* environment saved or loaded, or one whose save did not complete.
THEOREM DurableAlways == Spec => []Durable
<1>1. IInv => Durable
  BY DEF IInv
<1> QED BY <1>1, Invariance, PTL

-----------------------------------------------------------------------------
\* Why the neighbour's data survives: while no save was cut short, a sector
\* is whole, or it is the target's and saved_buffer holds its rest.
RestInv ==
  ~mishap =>
    /\ \A c \in Copies : c # Target \/ pc \notin {"write", "restore"} => rest[c]
    /\ pc \in {"erase", "write", "restore"} /\ SharedSector => saved_buffer
    /\ pc = "write" /\ ~SharedSector => rest[Target]
    /\ pc = "restore" => SharedSector

LEMMA NextRestInv ==
  ASSUME TypeOK, RestInv, [Next]_vars
  PROVE  RestInv'
<1>1. /\ rest \in [Copies -> BOOLEAN] /\ saved_buffer \in BOOLEAN
      /\ SharedSector \in BOOLEAN /\ Target \in Copies /\ mishap \in BOOLEAN
  BY TargetIsOther, SfAssumption DEF TypeOK
<1>2. CASE Load \/ SetEnv \/ SaveBegin \/ SetupFails
  <2>1. /\ rest' = rest /\ mishap' = mishap
        /\ pc \in {"off", "idle", "setup"} /\ pc' \in {"idle", "setup"}
    BY <1>2 DEF Load, SetEnv, SaveBegin, SetupFails, flashVars
  <2> QED BY <2>1 DEF RestInv
<1>3. CASE SetUp
  <2>1. /\ rest' = rest /\ mishap' = mishap /\ pc = "setup" /\ pc' = "erase"
        /\ saved_buffer' = (SharedSector /\ rest[Target])
    BY <1>3 DEF SetUp, flashVars
  <2> QED BY <1>1, <2>1 DEF RestInv
<1>4. CASE Erase
  <2>1. /\ rest' = [rest EXCEPT ![Target] = ~SharedSector]
        /\ mishap' = mishap /\ pc = "erase" /\ pc' = "write"
        /\ saved_buffer' = saved_buffer /\ env_valid' = env_valid
    BY <1>4 DEF Erase
  <2>2. Target' = Target
    BY <2>1 DEF Target
  <2> QED BY <1>1, <2>1, <2>2 DEF RestInv
<1>5. CASE Write
  <2>1. /\ rest' = rest /\ mishap' = mishap /\ pc = "write"
        /\ pc' = IF SharedSector THEN "restore" ELSE "obsolete"
        /\ saved_buffer' = saved_buffer /\ env_valid' = env_valid
    BY <1>5 DEF Write
  <2>2. Target' = Target
    BY <2>1 DEF Target
  <2> QED BY <1>1, <2>1, <2>2 DEF RestInv
<1>6. CASE Restore
  <2>1. /\ rest' = [rest EXCEPT ![Target] = saved_buffer]
        /\ mishap' = mishap /\ pc = "restore" /\ pc' = "obsolete"
    BY <1>6 DEF Restore
  <2> QED BY <1>1, <2>1 DEF RestInv
<1>7. CASE Obsolete
  <2>1. rest' = rest /\ mishap' = mishap /\ pc = "obsolete" /\ pc' = "idle"
    BY <1>7 DEF Obsolete
  <2> QED BY <2>1 DEF RestInv
<1>8. CASE SaveFails \/ PowerFail
  <2>1. /\ Partial /\ mishap' = (mishap \/ pc \in Erased)
        /\ pc' \in {"off", "idle"} /\ pc # "off"
    BY <1>8 DEF SaveFails, PowerFail
  <2>2. CASE mishap'
    BY <2>2 DEF RestInv
  <2>3. CASE ~mishap'
    <3>1. ~mishap /\ pc \in {"idle", "setup", "obsolete"}
      BY <2>1, <2>3 DEF Erased, TypeOK
    <3>2. rest' = rest
      BY <2>1, <3>1 DEF Partial
    <3> QED BY <2>1, <3>1, <3>2 DEF RestInv
  <2> QED BY <2>2, <2>3
<1>9. CASE UNCHANGED vars
  <2>1. /\ rest' = rest /\ mishap' = mishap /\ pc' = pc
        /\ saved_buffer' = saved_buffer /\ Target' = Target
    BY <1>9 DEF vars, flashVars, Target
  <2> QED BY <2>1 DEF RestInv
<1> QED
  BY <1>2, <1>3, <1>4, <1>5, <1>6, <1>7, <1>8, <1>9 DEF Next

\* The data that shares a sector with a copy is lost only by a save that was
\* cut short.
THEOREM NeighbourAlwaysKept == Spec => []NeighbourKept
<1>1. Init => RestInv
  BY DEF Init, RestInv
<1>2. RestInv => NeighbourKept
  BY DEF RestInv, NeighbourKept
<1> QED BY <1>1, <1>2, NextRestInv, TypeCorrect, PTL DEF Spec

-----------------------------------------------------------------------------
\* Every step of the store is a step of the promise, or changes nothing of it:
\* a save begins with SaveBegin and is done when the old copy is obsolete; a
\* set-up that fails edits the environment in RAM.
LEMMA StepKeepsPromise ==
  ASSUME IInv, [Next]_vars
  PROVE  [Promise!PromiseNext]_(Promise!promiseVars)
<1>1. CASE Load
  <2>1. PICK readable \in SUBSET Copies, parsed \in BOOLEAN :
          LET imported == Import(media, readable, parsed, env_valid, 0)
              clean == readable = Copies /\ parsed
          IN /\ env' = imported.data
             /\ degraded' = ~clean
             /\ saved' = IF clean THEN imported.data ELSE saved
             /\ maybe' = IF clean THEN {} ELSE maybe
    BY <1>1 DEF Load
  <2>2. pc = "off" /\ pc' = "idle"
    BY <1>1 DEF Load
  <2>3. media \in [Copies -> Copy] /\ env_valid \in Copies /\ 0 \in Flags
    BY PowerOnValues DEF IInv, TypeOK
  <2>4. CASE readable = Copies /\ parsed
    <3>1. /\ env' = Import(media, Copies, TRUE, env_valid, 0).data
          /\ saved' = env' /\ maybe' = {} /\ degraded' = FALSE
      BY <2>1, <2>4
    <3>2. env' \in {saved} \cup maybe
      BY <2>3, <3>1, ImportClean DEF IInv, Durable
    <3> QED BY <2>2, <3>1, <3>2 DEF Promise!PromiseNext, Promise!CleanBoot
  <2>5. CASE ~(readable = Copies /\ parsed)
    <3>1. degraded' = TRUE /\ saved' = saved /\ maybe' = maybe
      BY <2>1, <2>5
    <3>2. env' \in Envs
      BY <2>1, <2>3, ImportType
    <3> QED BY <2>2, <3>1, <3>2
            DEF Envs, Promise!Envs, Promise!PromiseNext, Promise!DegradedBoot
  <2> QED BY <2>4, <2>5
<1>2. CASE SetEnv
  BY <1>2 DEF SetEnv, Envs, historyVars,
              Promise!PromiseNext, Promise!Edit, Promise!Envs
<1>3. CASE SaveBegin
  BY <1>3 DEF SaveBegin, Envs, Promise!Envs,
              Promise!PromiseNext, Promise!SaveBegin
<1>4. CASE SetupFails
  BY <1>4 DEF SetupFails, historyVars, Promise!PromiseNext, Promise!Edit,
              Promise!Envs
<1>5. CASE SetUp \/ Erase \/ Write \/ Restore
  BY <1>5 DEF SetUp, Erase, Write, Restore, historyVars, Promise!promiseVars
<1>6. CASE Obsolete
  BY <1>6 DEF Obsolete, IInv, Promise!PromiseNext, Promise!SaveDone
<1>7. CASE SaveFails
  BY <1>7 DEF SaveFails, historyVars, Promise!promiseVars
<1>8. CASE PowerFail
  BY <1>8 DEF PowerFail, Promise!PromiseNext, Promise!PowerOff
<1>9. CASE UNCHANGED vars
  BY <1>9 DEF vars, historyVars, Promise!promiseVars
<1> QED
  BY <1>1, <1>2, <1>3, <1>4, <1>5, <1>6, <1>7, <1>8, <1>9 DEF Next

\* The redundant environment in SPI flash implements EnvPromise, whatever
\* fails.
THEOREM StoreKeepsPromise == Spec => KeepsPromise
<1>1. Init => Promise!PromiseInit
  <2>1. {ACTIVE_FLAG} \in SUBSET Flags
    BY FlagTypes
  <2> QED BY <2>1, StoredType, FactoryType
          DEF Init, Promise!PromiseInit, Promise!Envs, Envs
<1> QED BY <1>1, Invariance, StepKeepsPromise, PTL
        DEF Spec, KeepsPromise, Promise!PromiseSpec

=============================================================================
