-------------------------- MODULE EnvFlash_proofs --------------------------
(***************************************************************************)
(* What EnvFlash guarantees, with every error the flash can report and     *)
(* power failing at any step of a load or a save, for every set of         *)
(* environments, whether sectors are shared or not.                        *)
(***************************************************************************)
EXTENDS EnvFlash, EnvRedund_proofs

Booting == {"off", "repair", "activate"}
Saving == {"erase", "write", "obsolete", "finish"}

\* The copy in use holds what was last saved or loaded.
Kept(copies, addr, last) ==
  IF copies[addr].crc THEN copies[addr].data = last ELSE last = Default

\* The copy not in use is not the one a boot chooses, unless it holds an
\* environment whose save was begun.
Harmless(copies, addr, begun) ==
  LET c == Other(addr)
  IN copies[c].crc => Chosen(copies) = addr \/ copies[c].data \in begun

\* The flags a good copy can have.  Only the image a tool wrote to the first
\* copy has flags that nobody wrote; were the second to have them, too, a load
\* that marks the first active would make the next boot choose the second.
FlagsKnown(copies) ==
  \A c \in Copies :
    copies[c].crc => \/ copies[c].flags \in {OBSOLETE_FLAG, ACTIVE_FLAG}
                     \/ c = ENV_VALID /\ copies[c].flags = ErasedFlag

\* Before the copy not in use is erased it is marked obsolete, unless a write
\* failed.
OtherObsolete ==
  pc \in {"activate", "idle", "erase"} /\ ~unrepaired
    /\ (\A c \in Copies : media[c].crc) =>
      media[flash_addr_new].flags = OBSOLETE_FLAG

\* The rest of a sector is in RAM only between its erasure and the end of the
\* save.
RestInFlash ==
  pc \notin {"write", "obsolete", "finish"} =>
    \A c \in Copies : rest[c] # "buffered"

\* The inductive invariant.  A load relies on the flags it found: the copy it
\* loads is the one a boot chooses, before and after it is marked.  A save that
\* failed leaves two good copies, and the retry that erases one relies on the
\* other: hence Kept and Harmless.
IInv ==
  /\ TypeOK
  /\ Durable
  /\ FlagsKnown(media)
  /\ pc \in Booting => env = Default /\ ~degraded
  /\ pc \in {"repair", "activate"} =>
       media[flash_addr].crc /\ Chosen(media) = flash_addr
  /\ pc \in Saving => env \in maybe /\ (degraded => maybe = Envs)
  /\ pc \notin Booting /\ ~degraded =>
       Kept(media, flash_addr, saved) /\ Harmless(media, flash_addr, maybe)
  /\ pc \in {"obsolete", "finish"} =>
       media[flash_addr_new] = Good(ACTIVE_FLAG, env)
  /\ pc = "finish" => media[flash_addr].flags = OBSOLETE_FLAG
  /\ OtherObsolete
  /\ RestInFlash

-----------------------------------------------------------------------------
LEMMA FlagValues ==
  /\ OBSOLETE_FLAG = 0 /\ ACTIVE_FLAG = 1 /\ ErasedFlag = 255
  /\ {OBSOLETE_FLAG, ACTIVE_FLAG, ErasedFlag} \subseteq Flags
BY FlashAssumption DEF OBSOLETE_FLAG, ACTIVE_FLAG, ErasedFlag, Flags

\* The copy chosen is one whose CRC matches, if there is one.
LEMMA ChosenIsValid ==
  ASSUME NEW copies \in [Copies -> Copy]
  PROVE  /\ Chosen(copies) \in Copies
         /\ ~NoneValid(copies) => copies[Chosen(copies)].crc
         /\ InFlash(copies) \in Envs
<1>1. Chosen(copies) \in Copies
  BY DEF Chosen, Copies, ENV_VALID, ENV_REDUND
<1>2. ~NoneValid(copies) => copies[Chosen(copies)].crc
  BY DEF Chosen, NoneValid, Copies, ENV_VALID, ENV_REDUND
<1>3. copies[Chosen(copies)].data \in Envs
  BY <1>1 DEF Copy
<1> QED BY <1>1, <1>2, <1>3 DEF InFlash, Envs

\* A copy that is alone with its CRC is chosen.
LEMMA AloneChosen ==
  ASSUME NEW copies \in [Copies -> Copy], NEW c \in Copies,
         ~copies[Other(c)].crc, copies[c].crc
  PROVE  Chosen(copies) = c
BY DEF Chosen, Other, Copies, ENV_VALID, ENV_REDUND

\* An active copy is chosen when the other is obsolete.
LEMMA ActiveChosen ==
  ASSUME NEW copies \in [Copies -> Copy], NEW c \in Copies,
         copies[c].crc, copies[c].flags = ACTIVE_FLAG,
         copies[Other(c)].flags = OBSOLETE_FLAG
  PROVE  Chosen(copies) = c
BY FlagValues DEF Chosen, Other, Copies, ENV_VALID, ENV_REDUND

\* While the copy in use is kept and the other harmless, a boot finds what was
\* saved last, or what is being saved.
LEMMA KeptInFlash ==
  ASSUME NEW copies \in [Copies -> Copy], NEW addr \in Copies,
         NEW last, NEW begun,
         Kept(copies, addr, last), Harmless(copies, addr, begun)
  PROVE  InFlash(copies) \in {last} \cup begun
<1>1. CASE NoneValid(copies)
  BY <1>1 DEF NoneValid, InFlash, Kept
<1>2. CASE ~NoneValid(copies)
  <2>1. copies[Chosen(copies)].crc /\ Chosen(copies) \in Copies
    BY <1>2, ChosenIsValid
  <2>2. CASE Chosen(copies) = addr
    BY <1>2, <2>1, <2>2 DEF InFlash, Kept
  <2>3. CASE Chosen(copies) # addr
    <3>1. Chosen(copies) = Other(addr)
      BY <2>1, <2>3, OtherCopy
    <3> QED BY <1>2, <2>1, <2>3, <3>1 DEF InFlash, Harmless
  <2> QED BY <2>2, <2>3
<1> QED BY <1>1, <1>2

LEMMA AddrType ==
  ASSUME TypeOK
  PROVE  /\ flash_addr \in Copies /\ flash_addr_new \in Copies
         /\ flash_addr_new = Other(flash_addr) /\ flash_addr_new # flash_addr
         /\ Copies = {flash_addr, flash_addr_new}
         /\ media[flash_addr] \in Copy /\ media[flash_addr_new] \in Copy
BY OtherCopy DEF TypeOK, flash_addr_new
-----------------------------------------------------------------------------
(***************************************************************************)
(* What a step of a save, complete or not, may leave in flash.             *)
(***************************************************************************)
\* Nothing but the flags of the copy in use change, and the other copy becomes
\* bad or holds the environment that is saved.
SaveOutcome(copies) ==
  /\ copies \in [Copies -> Copy]
  /\ FlagsKnown(copies)
  /\ copies[flash_addr].crc = media[flash_addr].crc
  /\ copies[flash_addr].data = media[flash_addr].data
  /\ \/ copies = media
     \/ copies[flash_addr_new].crc => copies[flash_addr_new].data = env

LEMMA OutcomeIsSafe ==
  ASSUME IInv, pc \in Saving, NEW copies, SaveOutcome(copies)
  PROVE  /\ InFlash(copies) \in {saved} \cup maybe
         /\ ~degraded => /\ Kept(copies, flash_addr, saved)
                         /\ Harmless(copies, flash_addr, maybe)
<1>1. env \in maybe /\ (degraded => maybe = Envs) /\ pc \notin Booting
  BY DEF IInv, Saving, Booting
<1>2. CASE degraded
  BY <1>1, <1>2, ChosenIsValid DEF SaveOutcome
<1>3. CASE ~degraded
  <2>1. Kept(media, flash_addr, saved) /\ Harmless(media, flash_addr, maybe)
    BY <1>1, <1>3 DEF IInv
  <2>2. Kept(copies, flash_addr, saved)
    BY <2>1 DEF SaveOutcome, Kept
  <2>3. Harmless(copies, flash_addr, maybe)
    BY <1>1, <2>1 DEF SaveOutcome, Harmless, flash_addr_new
  <2> QED BY <2>2, <2>3, KeptInFlash, AddrType DEF SaveOutcome, IInv
<1> QED BY <1>2, <1>3

\* Erasing or writing the copy not in use
LEMMA OtherWritten ==
  ASSUME IInv,
         NEW left \in {Bad, Good(ACTIVE_FLAG, env)}
  PROVE  SaveOutcome([media EXCEPT ![flash_addr_new] = left])
<1> DEFINE after == [media EXCEPT ![flash_addr_new] = left]
<1>1. left \in Copy /\ (left.crc => left.data = env /\ left.flags = ACTIVE_FLAG)
  <2>1. left \in Copy
    BY CopyType, FlagValues DEF IInv, TypeOK
  <2> QED BY <2>1 DEF Good, Bad
<1>2. /\ after \in [Copies -> Copy] /\ after[flash_addr_new] = left
      /\ after[flash_addr] = media[flash_addr]
  BY <1>1, AddrType DEF IInv, TypeOK
<1>3. FlagsKnown(after)
  BY <1>1, <1>2, AddrType DEF IInv, FlagsKnown
<1> QED BY <1>1, <1>2, <1>3 DEF SaveOutcome

\* Marking a copy with a flag
LEMMA FlaggedType ==
  ASSUME IInv, NEW c \in Copies, NEW flag \in {OBSOLETE_FLAG, ACTIVE_FLAG}
  PROVE  /\ Flagged(c, flag) \in [Copies -> Copy]
         /\ FlagsKnown(Flagged(c, flag))
         /\ Flagged(c, flag)[c].flags = flag
         /\ Flagged(c, flag)[c].crc = media[c].crc
         /\ Flagged(c, flag)[c].data = media[c].data
         /\ Flagged(c, flag)[Other(c)] = media[Other(c)]
<1>1. media \in [Copies -> Copy] /\ media[c] \in Copy /\ flag \in Flags
  BY FlagValues DEF IInv, TypeOK
<1>2. Other(c) \in Copies /\ Other(c) # c /\ Copies = {c, Other(c)}
  BY OtherCopy
<1>3. /\ Flagged(c, flag)[c] = [media[c] EXCEPT !.flags = flag]
      /\ Flagged(c, flag)[Other(c)] = media[Other(c)]
      /\ DOMAIN Flagged(c, flag) = Copies
  BY <1>1, <1>2 DEF Flagged
<1>4. /\ [media[c] EXCEPT !.flags = flag] \in Copy
      /\ [media[c] EXCEPT !.flags = flag].flags = flag
      /\ [media[c] EXCEPT !.flags = flag].crc = media[c].crc
      /\ [media[c] EXCEPT !.flags = flag].data = media[c].data
  BY <1>1 DEF Copy
<1>5. Flagged(c, flag) \in [Copies -> Copy]
  BY <1>1, <1>4 DEF Flagged
<1>6. FlagsKnown(Flagged(c, flag))
  BY <1>2, <1>3, <1>4 DEF IInv, FlagsKnown
<1> QED BY <1>3, <1>4, <1>5, <1>6

\* Marking the copy in use obsolete, when the other is written
LEMMA InUseObsoleted ==
  ASSUME IInv, pc = "obsolete"
  PROVE  SaveOutcome(Flagged(flash_addr, OBSOLETE_FLAG))
<1>1. media[flash_addr_new] = Good(ACTIVE_FLAG, env)
  BY DEF IInv
<1> QED BY <1>1, FlaggedType, AddrType DEF SaveOutcome, Good, IInv

\* A step of a save that does not complete
LEMMA PartialOutcome ==
  ASSUME IInv, Partial, pc \in Saving
  PROVE  SaveOutcome(media')
<1>1. SaveOutcome(media)
  BY DEF IInv, TypeOK, SaveOutcome
<1>2. CASE pc = "finish"
  BY <1>1, <1>2 DEF Partial
<1>3. CASE pc = "erase"
  BY <1>1, <1>3, OtherWritten DEF Partial, Blank
<1>4. CASE pc = "write"
  <2>1. PICK left \in Torn(Bad, Good(ACTIVE_FLAG, env)) :
          media' = [media EXCEPT ![flash_addr_new] = left]
    BY <1>4 DEF Partial
  <2> QED BY <2>1, OtherWritten DEF Torn
<1>5. CASE pc = "obsolete"
  BY <1>1, <1>5, InUseObsoleted DEF Partial
<1> QED BY <1>2, <1>3, <1>4, <1>5 DEF Saving

\* ... and what it does to the rest of the sectors
LEMMA PartialRest ==
  ASSUME TypeOK, Partial
  PROVE  /\ rest' \in [Copies -> {"kept", "buffered", "lost"}]
         /\ \A c \in Copies : rest'[c] # "buffered"
<1>1. PICK erased \in BOOLEAN :
        rest' = [c \in Copies |->
                   IF \/ rest[c] = "buffered"
                      \/ pc = "erase" /\ SharedSector /\ erased
                           /\ c = flash_addr_new
                   THEN "lost" ELSE rest[c]]
  BY DEF Partial
<1> QED BY <1>1 DEF TypeOK
-----------------------------------------------------------------------------
(***************************************************************************)
(* What a load does to the flags: the copy chosen stays so.                *)
(***************************************************************************)
\* What a load may find in flash after it marked a copy
LoadOutcome(copies) ==
  /\ copies \in [Copies -> Copy] /\ FlagsKnown(copies)
  /\ Chosen(copies) = flash_addr /\ copies[flash_addr].crc
  /\ copies[flash_addr].data = media[flash_addr].data

LEMMA LoadOutcomeInFlash ==
  ASSUME IInv, pc \in {"repair", "activate"}, NEW copies, LoadOutcome(copies)
  PROVE  /\ InFlash(copies) = media[flash_addr].data
         /\ InFlash(copies) = InFlash(media)
<1>1. ~NoneValid(copies) /\ ~NoneValid(media) /\ Chosen(media) = flash_addr
  BY AddrType DEF IInv, LoadOutcome, NoneValid
<1> QED BY <1>1 DEF InFlash, LoadOutcome

LEMMA RepairedOutcome ==
  ASSUME IInv, pc \in {"repair", "activate"}
  PROVE  /\ LoadOutcome(media)
         /\ LoadOutcome(Repaired)
         /\ Repaired[flash_addr_new].crc =>
              Repaired[flash_addr_new].flags = OBSOLETE_FLAG
<1>1. LoadOutcome(media)
  BY DEF IInv, TypeOK, LoadOutcome
<1>2. CASE Repaired = media
  BY <1>1, <1>2, AddrType, FlaggedType DEF Repaired, IInv
<1>3. CASE Repaired # media
  <2> DEFINE after == Flagged(flash_addr_new, OBSOLETE_FLAG)
  <2>1. Repaired = after /\ media[flash_addr_new].crc
    BY <1>3 DEF Repaired
  <2>2. /\ after \in [Copies -> Copy] /\ FlagsKnown(after)
        /\ after[flash_addr_new].flags = OBSOLETE_FLAG
        /\ after[flash_addr_new].crc = media[flash_addr_new].crc
        /\ after[flash_addr] = media[flash_addr]
    BY FlaggedType, AddrType, OtherCopy DEF IInv
  <2> HIDE DEF after
  <2>3. Chosen(after) = flash_addr
    BY <2>1, <2>2, AddrType, FlagValues
    DEF IInv, Chosen, FlagsKnown, flash_addr_new, Other, Copies, ENV_VALID,
        ENV_REDUND
  <2> QED BY <1>1, <2>1, <2>2, <2>3 DEF LoadOutcome
<1> QED BY <1>2, <1>3

LEMMA ActivatedOutcome ==
  ASSUME IInv, pc \in {"repair", "activate"}
  PROVE  LoadOutcome(Activated)
           /\ Activated[flash_addr_new] = media[flash_addr_new]
<1>1. LoadOutcome(media)
  BY RepairedOutcome
<1>2. CASE Activated = media
  BY <1>1, <1>2
<1>3. CASE Activated # media
  <2> DEFINE after == Flagged(flash_addr, ACTIVE_FLAG)
  <2>1. Activated = after /\ media[flash_addr].flags # ACTIVE_FLAG
          /\ media[flash_addr].flags % 2 = 1
    BY <1>3 DEF Activated
  <2>2. /\ after \in [Copies -> Copy] /\ FlagsKnown(after)
        /\ after[flash_addr].flags = ACTIVE_FLAG
        /\ after[flash_addr].crc = media[flash_addr].crc
        /\ after[flash_addr].data = media[flash_addr].data
        /\ after[flash_addr_new] = media[flash_addr_new]
    BY FlaggedType, AddrType DEF IInv
  <2> HIDE DEF after
  <2>3. flash_addr = ENV_VALID
    BY <2>1, AddrType, FlagValues DEF IInv, FlagsKnown
  <2>4. Chosen(after) = flash_addr
    BY <2>2, <2>3, AddrType, FlagValues
    DEF IInv, Chosen, FlagsKnown, flash_addr_new, Other, Copies, ENV_VALID,
        ENV_REDUND
  <2> QED BY <1>1, <2>1, <2>2, <2>4 DEF LoadOutcome
<1> QED BY <1>2, <1>3
-----------------------------------------------------------------------------
LEMMA InitIInv == Init => IInv
<1> SUFFICES ASSUME Init PROVE IInv
  OBVIOUS
<1>1. {ACTIVE_FLAG, ErasedFlag} \in SUBSET Flags
  BY FlagValues
<1>2. media \in [Copies -> Copy]
  BY <1>1, FactoryType DEF Init
<1>3. TypeOK
  BY <1>2, ChosenIsValid, PowerOnValues DEF Init, TypeOK
<1>4. FlagsKnown(media)
  <2>1. PICK first \in {Bad} \cup {Good(f, v) : f \in {ACTIVE_FLAG, ErasedFlag},
                                                v \in Vals} :
          media = [c \in Copies |-> IF c = ENV_VALID THEN first ELSE Bad]
    BY DEF Init, FactoryMedia
  <2>2. first.crc => first.flags \in {ACTIVE_FLAG, ErasedFlag}
    BY <2>1 DEF Good, Bad
  <2> QED BY <2>1, <2>2 DEF FlagsKnown, Bad
<1> QED
  BY <1>3, <1>4
  DEF Init, IInv, Durable, OtherObsolete, RestInFlash, Booting, Saving

\* A load keeps the invariant.
LEMMA LoadIInv ==
  ASSUME IInv, Probe \/ LoadRepair \/ LoadActivate
  PROVE  IInv'
<1>1. CASE Probe
  <2>1. /\ media' = media /\ rest' = rest /\ env' = env /\ ret' = ret
        /\ silent' = silent
        /\ degraded' = degraded /\ unrepaired' = unrepaired /\ pc = "off"
        /\ env = Default /\ ~degraded
    BY <1>1 DEF Probe, IInv, Booting
  <2>2. CASE NoneValid(media)
    <3>1. /\ pc' = "idle" /\ saved' = Default /\ maybe' = {}
          /\ flash_addr' = flash_addr
      BY <1>1, <2>2 DEF Probe
    <3>2. TypeOK'
      BY <2>1, <3>1, PowerOnValues DEF IInv, TypeOK
    <3>3. Durable'
      BY <2>1, <2>2, <3>1 DEF Durable, InFlash
    <3>4. /\ ~media[flash_addr].crc /\ ~media[Other(flash_addr)].crc
          /\ Kept(media', flash_addr', saved')
          /\ Harmless(media', flash_addr', maybe')
      BY <2>1, <2>2, <3>1, AddrType DEF NoneValid, Kept, Harmless, IInv
    <3>5. OtherObsolete'
      BY <2>1, <2>2 DEF OtherObsolete, NoneValid, Copies
    <3>6. RestInFlash'
      BY <2>1, <3>1 DEF IInv, RestInFlash
    <3> QED BY <2>1, <3>1, <3>2, <3>3, <3>4, <3>5, <3>6
            DEF IInv, Booting, Saving
  <2>3. CASE ~NoneValid(media)
    <3>1. /\ pc' = "repair" /\ saved' = saved /\ maybe' = maybe
          /\ flash_addr' = Chosen(media)
      BY <1>1, <2>3 DEF Probe
    <3>2. flash_addr' \in Copies /\ media'[flash_addr'].crc
      BY <2>1, <2>3, <3>1, ChosenIsValid DEF IInv, TypeOK
    <3>3. TypeOK'
      BY <2>1, <3>1, <3>2 DEF IInv, TypeOK
    <3>4. Durable' /\ FlagsKnown(media') /\ RestInFlash' /\ OtherObsolete'
      BY <2>1, <3>1 DEF IInv, Durable, RestInFlash, OtherObsolete
    <3> QED BY <2>1, <3>1, <3>2, <3>3, <3>4 DEF IInv, Booting, Saving
  <2> QED BY <2>2, <2>3
<1>2. CASE LoadRepair
  <2>1. /\ pc = "repair" /\ pc' = "activate" /\ rest' = rest /\ env' = env
        /\ flash_addr' = flash_addr /\ ret' = ret /\ degraded' = degraded
        /\ saved' = saved /\ maybe' = maybe /\ env = Default /\ ~degraded
        /\ silent' = silent
    BY <1>2 DEF LoadRepair, historyVars, IInv, Booting
  <2>2. /\ media' \in {media, Repaired}
        /\ unrepaired' = (unrepaired \/ media' # Repaired)
    BY <1>2 DEF LoadRepair, TryWriting
  <2>3. LoadOutcome(media')
    BY <2>1, <2>2, RepairedOutcome
  <2>4. TypeOK'
    BY <2>1, <2>2, <2>3 DEF IInv, TypeOK, LoadOutcome
  <2>5. Durable'
    BY <2>1, <2>3, LoadOutcomeInFlash DEF IInv, Durable
  <2>6. OtherObsolete'
    BY <2>1, <2>2, RepairedOutcome, AddrType
    DEF OtherObsolete, flash_addr_new, IInv
  <2>7. RestInFlash'
    BY <2>1 DEF IInv, RestInFlash
  <2> QED BY <2>1, <2>3, <2>4, <2>5, <2>6, <2>7
          DEF IInv, LoadOutcome, Booting, Saving
<1>3. CASE LoadActivate
  <2>1. /\ pc = "activate" /\ pc' = "idle" /\ rest' = rest
        /\ flash_addr' = flash_addr /\ ret' = ret /\ silent' = silent
    BY <1>3 DEF LoadActivate
  <2>2. /\ media' \in {media, Activated}
        /\ unrepaired' = (unrepaired \/ media' # Activated)
    BY <1>3 DEF LoadActivate, TryWriting
  <2>3. LoadOutcome(media') /\ media'[flash_addr_new] = media[flash_addr_new]
    BY <2>1, <2>2, ActivatedOutcome, RepairedOutcome
  <2>4. PICK parsed \in BOOLEAN :
          /\ env' = IF parsed THEN media[flash_addr].data ELSE Default
          /\ degraded' = ~parsed
          /\ saved' = IF parsed THEN env' ELSE saved
          /\ maybe' = IF parsed THEN {} ELSE maybe
    BY <1>3 DEF LoadActivate
  <2>5. media[flash_addr].data \in Envs /\ Default \in Envs
    BY AddrType, PowerOnValues DEF IInv, Copy
  <2>6. TypeOK'
    BY <2>1, <2>2, <2>3, <2>4, <2>5 DEF IInv, TypeOK, LoadOutcome
  <2>7. InFlash(media') = media[flash_addr].data /\ InFlash(media') = InFlash(media)
    BY <2>1, <2>3, LoadOutcomeInFlash
  <2>8. Durable'
    BY <2>4, <2>7 DEF IInv, Durable
  <2>9. ~degraded' => /\ Kept(media', flash_addr', saved')
                      /\ Harmless(media', flash_addr', maybe')
    BY <2>1, <2>3, <2>4 DEF LoadOutcome, Kept, Harmless
  <2>10. OtherObsolete'
    <3>1. SUFFICES ASSUME ~unrepaired', \A c \in Copies : media'[c].crc
                   PROVE  media'[flash_addr_new].flags = OBSOLETE_FLAG
      BY <2>1 DEF OtherObsolete, flash_addr_new
    <3>2. \A c \in Copies : media[c].crc
      <4>1. media[flash_addr].crc
        BY <2>1 DEF IInv
      <4>2. media[flash_addr_new].crc
        BY <2>3, <3>1, AddrType DEF IInv
      <4> QED BY <4>1, <4>2, AddrType DEF IInv
    <3> QED BY <2>1, <2>2, <2>3, <3>1, <3>2 DEF IInv, OtherObsolete
  <2>11. RestInFlash'
    BY <2>1 DEF IInv, RestInFlash
  <2> QED BY <2>1, <2>3, <2>6, <2>8, <2>9, <2>10, <2>11
          DEF IInv, LoadOutcome, Booting, Saving
<1> QED BY <1>1, <1>2, <1>3

\* A step of a save that completes, up to the last, keeps the invariant.
LEMMA SaveStepIInv ==
  ASSUME IInv, Erase \/ Write \/ Obsolete
  PROVE  IInv'
<1>1. /\ pc \in Saving /\ pc' \in {"write", "obsolete", "finish"}
      /\ pc \in {"erase", "write", "obsolete"}
      /\ env' = env /\ flash_addr' = flash_addr /\ ret' = ret
      /\ silent' = silent
      /\ degraded' = degraded /\ saved' = saved /\ maybe' = maybe
      /\ unrepaired' = unrepaired /\ flash_addr_new' = flash_addr_new
  BY DEF Erase, Write, Obsolete, historyVars, Saving, flash_addr_new
<1>2. SaveOutcome(media')
  <2>1. CASE Erase
    BY <2>1, OtherWritten DEF Erase, Blank
  <2>2. CASE Write
    BY <2>2, OtherWritten DEF Write
  <2>3. CASE Obsolete
    BY <2>3, InUseObsoleted DEF Obsolete
  <2> QED BY <2>1, <2>2, <2>3
<1>3. /\ media' \in [Copies -> Copy] /\ FlagsKnown(media')
      /\ InFlash(media') \in {saved} \cup maybe
      /\ ~degraded => /\ Kept(media', flash_addr, saved)
                      /\ Harmless(media', flash_addr, maybe)
  BY <1>1, <1>2, OutcomeIsSafe DEF SaveOutcome
<1>4. rest' \in [Copies -> {"kept", "buffered", "lost"}]
  <2>1. rest \in [Copies -> {"kept", "buffered", "lost"}]
          /\ flash_addr_new \in Copies
    BY AddrType DEF IInv, TypeOK
  <2> QED BY <2>1 DEF Erase, Write, Obsolete
<1>5. TypeOK'
  BY <1>1, <1>3, <1>4 DEF IInv, TypeOK
<1>6. Durable'
  BY <1>1, <1>3 DEF Durable
<1>7. pc' \in {"obsolete", "finish"} =>
        media'[flash_addr_new] = Good(ACTIVE_FLAG, env)
  <2>1. CASE Erase
    BY <2>1 DEF Erase
  <2>2. CASE Write
    BY <2>2, AddrType DEF Write, IInv, TypeOK
  <2>3. CASE Obsolete
    BY <2>3, FlaggedType, AddrType DEF Obsolete, IInv
  <2> QED BY <2>1, <2>2, <2>3
<1>8. pc' = "finish" => media'[flash_addr].flags = OBSOLETE_FLAG
  <2>1. CASE Obsolete
    BY <2>1, FlaggedType, AddrType DEF Obsolete, IInv
  <2> QED BY <2>1 DEF Erase, Write
<1>9. OtherObsolete' /\ RestInFlash'
  BY <1>1 DEF OtherObsolete, RestInFlash
<1> QED BY <1>1, <1>3, <1>5, <1>6, <1>7, <1>8, <1>9
        DEF IInv, Booting, Saving

\* So does its last step.
LEMMA FinishIInv == ASSUME IInv, Finish PROVE IInv'
<1>1. /\ pc = "finish" /\ pc' = "idle" /\ flash_addr' = flash_addr_new
      /\ media' = media /\ env' = env /\ unrepaired' = unrepaired
      /\ ret' = "ok" /\ saved' = env /\ maybe' = {} /\ degraded' = FALSE
      /\ silent' = silent
      /\ rest' = [c \in Copies |->
                    IF rest[c] = "buffered" THEN "kept" ELSE rest[c]]
  BY DEF Finish, Saved
<1>2. /\ flash_addr_new \in Copies /\ flash_addr \in Copies
      /\ Other(flash_addr_new) = flash_addr
      /\ flash_addr_new' = flash_addr
  BY <1>1, AddrType, OtherCopy DEF IInv, flash_addr_new
<1>3. /\ media[flash_addr_new].crc /\ media[flash_addr_new].data = env
      /\ media[flash_addr_new].flags = ACTIVE_FLAG
      /\ media[flash_addr].flags = OBSOLETE_FLAG
  BY <1>1 DEF IInv, Good
<1>4. TypeOK'
  BY <1>1, <1>2 DEF IInv, TypeOK
<1>5. Chosen(media) = flash_addr_new
  BY <1>2, <1>3, ActiveChosen DEF IInv, TypeOK
<1>6. Durable'
  BY <1>1, <1>2, <1>3, <1>5 DEF Durable, InFlash, NoneValid
<1>7. Kept(media', flash_addr', saved') /\ Harmless(media', flash_addr', maybe')
  BY <1>1, <1>3, <1>5 DEF Kept, Harmless
<1>8. OtherObsolete'
  BY <1>1, <1>2, <1>3 DEF OtherObsolete
<1>9. RestInFlash'
  BY <1>1 DEF IInv, TypeOK, RestInFlash
<1> QED BY <1>1, <1>4, <1>6, <1>7, <1>8, <1>9 DEF IInv, Booting, Saving

\* A save that fails keeps the invariant, whether it is noticed or not.
LEMMA SaveFailsIInv ==
  ASSUME IInv, SaveFails \/ SaveFailsUnnoticed
  PROVE  IInv'
<1>1. /\ pc \in Saving /\ pc' = "idle" /\ env' = env
      /\ flash_addr' = flash_addr /\ degraded' = degraded
      /\ saved' = saved /\ maybe' = maybe /\ ret' \in {"ok", "error"}
      /\ silent' = silent
      /\ unrepaired' = (unrepaired \/ pc # "erase")
      /\ flash_addr_new' = flash_addr_new
  BY DEF SaveFails, SaveFailsUnnoticed, historyVars, Saving, flash_addr_new
<1>2. Partial \/ (pc = "erase" /\ media' = media /\ rest' = rest)
  BY DEF SaveFails, SaveFailsUnnoticed
<1>3. SaveOutcome(media')
  <2>1. SaveOutcome(media)
    BY DEF IInv, TypeOK, SaveOutcome
  <2> QED BY <1>1, <1>2, <2>1, PartialOutcome
<1>4. /\ media' \in [Copies -> Copy] /\ FlagsKnown(media')
      /\ InFlash(media') \in {saved} \cup maybe
      /\ ~degraded => /\ Kept(media', flash_addr, saved)
                      /\ Harmless(media', flash_addr, maybe)
  BY <1>1, <1>3, OutcomeIsSafe DEF SaveOutcome
<1>5. /\ rest' \in [Copies -> {"kept", "buffered", "lost"}]
      /\ \A c \in Copies : rest'[c] # "buffered"
  BY <1>2, PartialRest DEF IInv, TypeOK, RestInFlash
<1>6. TypeOK'
  BY <1>1, <1>4, <1>5 DEF IInv, TypeOK
<1>7. Durable'
  BY <1>1, <1>4 DEF Durable
<1>8. OtherObsolete'
  <2>1. CASE pc = "erase"
    <3>1. media' \in {media, Blank}
      BY <1>2, <2>1 DEF Partial
    <3>2. ~Blank[flash_addr_new].crc
      BY AddrType DEF IInv, TypeOK, Blank, Bad
    <3>3. CASE media' = Blank
      BY <1>1, <3>2, <3>3, AddrType DEF OtherObsolete, IInv
    <3>4. CASE media' = media
      BY <1>1, <2>1, <3>4 DEF OtherObsolete, IInv
    <3> QED BY <3>1, <3>3, <3>4
  <2>2. CASE pc # "erase"
    BY <1>1, <2>2 DEF OtherObsolete
  <2> QED BY <2>1, <2>2
<1>9. RestInFlash'
  BY <1>5 DEF RestInFlash
<1> QED BY <1>1, <1>4, <1>6, <1>7, <1>8, <1>9 DEF IInv, Booting, Saving

\* A power failure keeps it, wherever it strikes.
LEMMA PowerFailIInv == ASSUME IInv, PowerFail PROVE IInv'
<1>1. /\ pc # "off" /\ Partial /\ pc' = "off" /\ env' = Default
      /\ flash_addr' = ENV_VALID /\ ret' = "none" /\ degraded' = FALSE
      /\ unrepaired' = FALSE /\ saved' = saved /\ maybe' = maybe
      /\ silent' = silent
  BY DEF PowerFail
<1>2. /\ media' \in [Copies -> Copy] /\ FlagsKnown(media')
      /\ InFlash(media') \in {saved} \cup maybe
  <2>1. CASE pc \in Saving
    BY <1>1, <2>1, PartialOutcome, OutcomeIsSafe DEF SaveOutcome
  <2>2. CASE pc \in {"repair", "activate"}
    <3>1. media' \in {media, Repaired, Activated}
      BY <1>1, <2>2 DEF Partial
    <3>2. LoadOutcome(media')
      BY <2>2, <3>1, RepairedOutcome, ActivatedOutcome
    <3> QED BY <2>2, <3>2, LoadOutcomeInFlash DEF LoadOutcome, IInv, Durable
  <2>3. CASE pc = "idle"
    BY <1>1, <2>3 DEF Partial, IInv, TypeOK, Durable
  <2> QED BY <1>1, <2>1, <2>2, <2>3 DEF IInv, TypeOK, Saving
<1>3. /\ rest' \in [Copies -> {"kept", "buffered", "lost"}]
      /\ \A c \in Copies : rest'[c] # "buffered"
  BY <1>1, PartialRest DEF IInv
<1>4. TypeOK'
  BY <1>1, <1>2, <1>3, PowerOnValues DEF IInv, TypeOK
<1>5. Durable'
  BY <1>1, <1>2 DEF Durable
<1>6. OtherObsolete' /\ RestInFlash'
  BY <1>1, <1>3 DEF OtherObsolete, RestInFlash
<1> QED BY <1>1, <1>2, <1>4, <1>5, <1>6 DEF IInv, Booting, Saving

LEMMA NextIInv == ASSUME IInv, [Next]_vars PROVE IInv'
<1>1. CASE Probe \/ LoadRepair \/ LoadActivate
  BY <1>1, LoadIInv
<1>2. CASE SetEnv
  <2>1. /\ pc = "idle" /\ pc' = pc /\ media' = media /\ rest' = rest
        /\ flash_addr' = flash_addr /\ degraded' = degraded /\ saved' = saved
        /\ maybe' = maybe /\ unrepaired' = unrepaired /\ env' \in Envs
        /\ ret' = "none" /\ silent' = silent
    BY <1>2 DEF SetEnv, historyVars
  <2>2. TypeOK' /\ Durable' /\ OtherObsolete' /\ RestInFlash'
    BY <2>1 DEF IInv, TypeOK, Durable, OtherObsolete, RestInFlash, flash_addr_new
  <2> QED BY <2>1, <2>2 DEF IInv, Booting, Saving
<1>3. CASE SaveBegin
  <2>1. /\ pc = "idle" /\ pc' = "erase" /\ media' = media /\ rest' = rest
        /\ env' = env /\ flash_addr' = flash_addr /\ ret' = ret
        /\ silent' = silent
        /\ degraded' = degraded /\ saved' = saved /\ unrepaired' = unrepaired
        /\ maybe' = IF degraded THEN Envs ELSE maybe \cup {env}
    BY <1>3 DEF SaveBegin
  <2>2. /\ maybe \subseteq maybe' /\ maybe' \subseteq Envs
        /\ env' \in maybe' /\ (degraded' => maybe' = Envs)
    BY <2>1 DEF IInv, TypeOK
  <2>3. TypeOK' /\ Durable' /\ OtherObsolete' /\ RestInFlash'
    BY <2>1, <2>2
    DEF IInv, TypeOK, Durable, OtherObsolete, RestInFlash, flash_addr_new
  <2>4. ~degraded' => /\ Kept(media', flash_addr', saved')
                      /\ Harmless(media', flash_addr', maybe')
    BY <2>1, <2>2 DEF IInv, Booting, Harmless
  <2> QED BY <2>1, <2>2, <2>3, <2>4 DEF IInv, Booting, Saving
<1>4. CASE Erase \/ Write \/ Obsolete
  BY <1>4, SaveStepIInv
<1>5. CASE Finish
  BY <1>5, FinishIInv
<1>6. CASE SaveFails \/ SaveFailsUnnoticed
  BY <1>6, SaveFailsIInv
<1>7. CASE PowerFail
  BY <1>7, PowerFailIInv
<1>8. CASE UNCHANGED vars
  <2>1. TypeOK' /\ Durable' /\ OtherObsolete' /\ RestInFlash'
          /\ flash_addr_new' = flash_addr_new
    BY <1>8 DEF vars, historyVars, IInv, TypeOK, Durable, OtherObsolete,
                RestInFlash, flash_addr_new
  <2> QED BY <1>8, <2>1 DEF vars, historyVars, IInv
<1> QED
  BY <1>1, <1>2, <1>3, <1>4, <1>5, <1>6, <1>7, <1>8 DEF Next

THEOREM Invariance == Spec => []IInv
BY InitIInv, NextIInv, PTL DEF Spec

\* The variables keep their types, and the data of others in a shared sector
\* is in RAM only while a save is under way.
THEOREM NeighbourAlwaysSafe == Spec => []NeighbourSafe
<1>1. IInv => NeighbourSafe
  BY DEF IInv, NeighbourSafe, NeighbourPutBack, RestInFlash
<1> QED BY <1>1, Invariance, PTL

\* Whatever step of a load or a save power or the flash fails at, the next
\* boot finds the last environment saved or loaded, or one whose save did not
\* complete.
THEOREM DurableAlways == Spec => []Durable
<1>1. IInv => Durable
  BY DEF IInv
<1> QED BY <1>1, Invariance, PTL

\* Unless a write failed the flags name one copy while no save is under way.
THEOREM OneActiveAlways == Spec => []OneActive
<1>1. IInv => OneActive
  BY DEF IInv, OneActive, OtherObsolete
<1> QED BY <1>1, Invariance, PTL

-----------------------------------------------------------------------------
\* What a save reported is true: on a board that is not silent, 0 is returned by
\* Finish only, and what was reported is forgotten when the environment is
\* edited or the board reset.
ReportInv ==
  /\ pc \in Booting => ret = "none"
  /\ ~silent => SuccessIsSaved

LEMMA ReportIsTrue == Spec => []ReportInv
<1>1. Init => ReportInv
  BY DEF Init, ReportInv, SuccessIsSaved
<1>2. ASSUME IInv, ReportInv, [Next]_vars
      PROVE  ReportInv'
  <2>1. CASE Probe \/ LoadRepair \/ LoadActivate
    BY <1>2, <2>1
    DEF Probe, LoadRepair, LoadActivate, ReportInv, SuccessIsSaved, Booting
  <2>2. CASE SetEnv \/ SaveBegin \/ Erase \/ Write \/ Obsolete \/ SaveFails
    BY <1>2, <2>2
    DEF SetEnv, SaveBegin, Erase, Write, Obsolete, SaveFails, ReportInv,
        SuccessIsSaved, Booting
  <2>3. CASE Finish
    <3>1. /\ pc' = "idle" /\ saved' = env /\ maybe' = {} /\ env' = env
      BY <2>3 DEF Finish, Saved
    <3>2. Durable'
      BY <1>2, <2>3, FinishIInv DEF IInv
    <3> QED BY <3>1, <3>2 DEF ReportInv, SuccessIsSaved, Booting, Durable
  <2>4. CASE SaveFailsUnnoticed
    BY <1>2, <2>4 DEF SaveFailsUnnoticed, ReportInv, Booting
  <2>5. CASE PowerFail
    BY <2>5 DEF PowerFail, ReportInv, SuccessIsSaved
  <2>6. CASE UNCHANGED vars
    BY <1>2, <2>6 DEF vars, historyVars, ReportInv, SuccessIsSaved
  <2> QED BY <1>2, <2>1, <2>2, <2>3, <2>4, <2>5, <2>6 DEF Next
<1> QED BY <1>1, <1>2, Invariance, PTL DEF Spec

\* Every step of the store is a step of the promise, or changes nothing of it:
\* a boot ends when the environment is imported, or at once when there is
\* none, and a save is done when the pointers are swapped.
LEMMA StepKeepsPromise ==
  ASSUME IInv, ~silent, [Next]_vars
  PROVE  [Promise!PromiseNext]_(Promise!promiseVars)
<1>1. CASE Probe
  <2>1. env' = env /\ degraded' = degraded /\ pc = "off" /\ env = Default
          /\ ~degraded
    BY <1>1 DEF Probe, IInv, Booting
  <2>2. CASE NoneValid(media)
    <3>1. pc' = "idle" /\ saved' = Default /\ maybe' = {}
      BY <1>1, <2>2 DEF Probe
    <3>2. Default \in {saved} \cup maybe
      BY <2>2 DEF IInv, Durable, InFlash
    <3>3. degraded' = FALSE
      BY <2>1 DEF IInv, TypeOK
    <3> QED BY <2>1, <3>1, <3>2, <3>3
            DEF Promise!PromiseNext, Promise!CleanBoot
  <2>3. CASE ~NoneValid(media)
    BY <1>1, <2>1, <2>3 DEF Probe, Promise!promiseVars
  <2> QED BY <2>2, <2>3
<1>2. CASE LoadRepair
  BY <1>2 DEF LoadRepair, historyVars, Promise!promiseVars
<1>3. CASE LoadActivate
  <2>1. pc = "activate" /\ pc' = "idle"
    BY <1>3 DEF LoadActivate
  <2>2. PICK parsed \in BOOLEAN :
          /\ env' = IF parsed THEN media[flash_addr].data ELSE Default
          /\ degraded' = ~parsed
          /\ saved' = IF parsed THEN env' ELSE saved
          /\ maybe' = IF parsed THEN {} ELSE maybe
    BY <1>3 DEF LoadActivate
  <2>3. CASE parsed
    <3>1. media[flash_addr].data \in {saved} \cup maybe
      BY <2>1, RepairedOutcome, LoadOutcomeInFlash DEF IInv, Durable
    <3> QED BY <2>1, <2>2, <2>3, <3>1 DEF Promise!PromiseNext, Promise!CleanBoot
  <2>4. CASE ~parsed
    BY <2>1, <2>2, <2>4, PowerOnValues
    DEF Envs, Promise!Envs, Promise!PromiseNext, Promise!DegradedBoot
  <2> QED BY <2>3, <2>4
<1>4. CASE SetEnv
  BY <1>4 DEF SetEnv, Envs, historyVars,
              Promise!PromiseNext, Promise!Edit, Promise!Envs
<1>5. CASE SaveBegin
  BY <1>5 DEF SaveBegin, Envs, Promise!Envs,
              Promise!PromiseNext, Promise!SaveBegin
<1>6. CASE Erase \/ Write \/ Obsolete
  BY <1>6 DEF Erase, Write, Obsolete, historyVars, Promise!promiseVars
<1>7. CASE Finish
  BY <1>7 DEF Finish, Saved, IInv, Saving,
              Promise!PromiseNext, Promise!SaveDone
<1>8. CASE SaveFails
  BY <1>8 DEF SaveFails, historyVars, Promise!promiseVars
<1>9. ~SaveFailsUnnoticed
  BY DEF SaveFailsUnnoticed
<1>10. CASE PowerFail
  <2>1. pc # "off" /\ pc' = "off" /\ env' = Default /\ degraded' = FALSE
          /\ saved' = saved /\ maybe' = maybe
    BY <1>10 DEF PowerFail
  <2>2. CASE pc \in {"repair", "activate"}
    BY <2>1, <2>2 DEF IInv, TypeOK, Booting, Promise!promiseVars
  <2>3. CASE pc \notin {"repair", "activate"}
    BY <2>1, <2>3 DEF Promise!PromiseNext, Promise!PowerOff
  <2> QED BY <2>2, <2>3
<1>11. CASE UNCHANGED vars
  BY <1>11 DEF vars, historyVars, Promise!promiseVars
<1> QED
  BY <1>1, <1>2, <1>3, <1>4, <1>5, <1>6, <1>7, <1>8, <1>9, <1>10, <1>11
  DEF Next

\* On a board where no error goes unreported, success is reported only of what
\* the next boot finds, and the redundant environment in NOR flash implements
\* EnvPromise, whatever else fails.
THEOREM StoreKeepsPromise == Spec => KeepsPromise
<1>1. Init => Promise!PromiseInit
  <2>1. {ACTIVE_FLAG, ErasedFlag} \in SUBSET Flags
    BY FlagValues
  <2> QED BY <2>1, ChosenIsValid, FactoryType
          DEF Init, Promise!PromiseInit, Promise!Envs, Envs
<1>2. IInv /\ [Next]_vars =>
        [~silent => Promise!PromiseNext]_(Promise!promiseVars)
  BY StepKeepsPromise
<1>3. ReportInv => (~silent => SuccessIsSaved)
  BY DEF ReportInv
<1> QED BY <1>1, <1>2, <1>3, Invariance, ReportIsTrue, PTL
        DEF Spec, KeepsPromise
=============================================================================
