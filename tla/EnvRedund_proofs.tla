-------------------------- MODULE EnvRedund_proofs --------------------------
(***************************************************************************)
(* Lemmas about the choice between the two copies of an environment.       *)
(***************************************************************************)
EXTENDS EnvRedund, TLAPS

\* A serial number is older than its successor and not newer, across the wrap
\* of the flags byte too (the special cases of env_import_redund()).  With
\* FlagMax = 1 it would be both.
LEMMA SerialOrder ==
  ASSUME NEW f \in Flags
  PROVE  /\ NextSerial(f) \in Flags
         /\ SecondIsNewer(f, NextSerial(f))
         /\ ~SecondIsNewer(NextSerial(f), f)
BY FlagMaxAssumption DEF Flags, NextSerial, SecondIsNewer

\* The other copy is the other one.
LEMMA OtherCopy ==
  ASSUME NEW c \in Copies
  PROVE  Other(c) \in Copies /\ Other(c) # c /\ Copies = {c, Other(c)}
BY DEF Copies, Other, ENV_VALID, ENV_REDUND

\* The copies written and left behind have their type.
LEMMA CopyType ==
  /\ Bad \in Copy
  /\ \A f \in Flags, v \in Envs : Good(f, v) \in Copy
BY FlagMaxAssumption DEF Bad, Good, Copy, Flags, Envs

\* The copy picked is one whose CRC matches, if there is one.
LEMMA PickIsValid ==
  ASSUME NEW media \in [Copies -> Copy], ~NoneValid(media)
  PROVE  Pick(media) \in Copies /\ media[Pick(media)].crc
BY DEF Pick, NoneValid, Copies, ENV_VALID, ENV_REDUND

\* When the copy that is not in use is written in full with the successor of
\* the serial number in use, it is the one the next boot picks.
LEMMA NewCopyPicked ==
  ASSUME NEW media \in [Copies -> Copy], NEW after \in [Copies -> Copy],
         NEW c \in Copies, NEW f \in Flags, NEW v \in Envs,
         ~NoneValid(media) => Pick(media) = c /\ media[c].flags = f,
         after[c] = media[c],
         after[Other(c)] = Good(NextSerial(f), v)
  PROVE  ~NoneValid(after) /\ Pick(after) = Other(c) /\ Stored(after) = v
<1>1. after[Other(c)].crc /\ after[Other(c)].flags = NextSerial(f)
         /\ after[Other(c)].data = v
  BY DEF Good
<1>2. ~NoneValid(after)
  BY <1>1, OtherCopy DEF NoneValid
<1>3. Pick(after) = Other(c)
  <2>1. CASE ~media[c].crc
    BY <2>1, <1>1 DEF Pick, Other, Copies, ENV_VALID, ENV_REDUND
  <2>2. CASE media[c].crc
    <3>1. ~NoneValid(media)
      BY <2>2 DEF NoneValid
    <3>2. after[c].flags = f
      BY <3>1
    <3> QED
      BY <2>2, <3>2, <1>1, SerialOrder
      DEF Pick, Other, Copies, ENV_VALID, ENV_REDUND
  <2> QED BY <2>1, <2>2
<1> QED BY <1>1, <1>2, <1>3 DEF Stored

\* When the write of the copy that is not in use is interrupted, the copy in
\* use stays the one the next boot picks.
LEMMA TornCopyIgnored ==
  ASSUME NEW media \in [Copies -> Copy], NEW after \in [Copies -> Copy],
         NEW c \in Copies,
         ~NoneValid(media) => Pick(media) = c,
         after[c] = media[c],
         ~after[Other(c)].crc
  PROVE  /\ Stored(after) = Stored(media)
         /\ NoneValid(after) <=> NoneValid(media)
         /\ ~NoneValid(after) => Pick(after) = c
<1>1. CASE NoneValid(media)
  <2>1. NoneValid(after)
    BY <1>1, OtherCopy DEF NoneValid
  <2> QED BY <1>1, <2>1 DEF Stored
<1>2. CASE ~NoneValid(media)
  <2>1. media[c].crc
    BY <1>2, PickIsValid
  <2>2. ~NoneValid(after)
    BY <2>1 DEF NoneValid
  <2>3. Pick(after) = c
    BY <2>1 DEF Pick, Other, Copies, ENV_VALID, ENV_REDUND
  <2> QED BY <1>2, <2>2, <2>3 DEF Stored
<1> QED BY <1>1, <1>2

\* A boot that reads both copies and can import them loads what is stored, and
\* its serial number and copy in use are those of the copy it picked.
LEMMA ImportClean ==
  ASSUME NEW media \in [Copies -> Copy], NEW valid \in Copies,
         NEW serial \in Flags
  PROVE  LET i == Import(media, Copies, TRUE, valid, serial)
         IN /\ i.data = Stored(media)
            /\ i.valid \in Copies
            /\ i.serial \in Flags
            /\ ~NoneValid(media) => /\ i.valid = Pick(media)
                                    /\ i.serial = media[Pick(media)].flags
<1>1. Copies # {}
  BY DEF Copies
<1>2. CASE NoneValid(media)
  BY <1>1, <1>2 DEF Import, Stored
<1>3. CASE ~NoneValid(media)
  <2>1. Pick(media) \in Copies /\ media[Pick(media)].crc
           /\ media[Pick(media)] \in Copy
    BY <1>3, PickIsValid
  <2>2. media[Pick(media)].flags \in Flags
    BY <2>1 DEF Copy
  <2> QED BY <1>1, <1>3, <2>1, <2>2 DEF Import, Stored
<1> QED BY <1>2, <1>3

\* What is stored is an environment.
LEMMA StoredType ==
  ASSUME NEW media \in [Copies -> Copy]
  PROVE  Stored(media) \in Envs
<1>1. CASE NoneValid(media)
  BY <1>1 DEF Stored, Envs
<1>2. CASE ~NoneValid(media)
  BY <1>2, PickIsValid DEF Stored, Copy
<1> QED BY <1>1, <1>2

\* What any boot loads is an environment, and one of the two copies in use.
LEMMA ImportType ==
  ASSUME NEW media \in [Copies -> Copy], NEW readable \in SUBSET Copies,
         NEW parsed \in BOOLEAN, NEW valid \in Copies, NEW serial \in Flags
  PROVE  LET i == Import(media, readable, parsed, valid, serial)
         IN i.data \in Envs /\ i.valid \in Copies /\ i.serial \in Flags
<1>1. Default \in Envs
  BY DEF Envs
<1>2. CASE readable = {} \/ (readable = Copies /\ NoneValid(media))
  BY <1>1, <1>2 DEF Import
<1>3. CASE readable = Copies /\ ~NoneValid(media)
  <2>1. Pick(media) \in Copies /\ media[Pick(media)] \in Copy /\ Copies # {}
    BY <1>3, PickIsValid DEF Copies
  <2> QED BY <1>1, <1>3, <2>1 DEF Import, Copy
<1>4. CASE readable # {} /\ readable # Copies
  <2> DEFINE k == CHOOSE j \in readable : TRUE
  <2>1. k \in Copies /\ media[k] \in Copy
    BY <1>4
  <2> QED BY <1>1, <1>4, <2>1 DEF Import, Copy
<1> QED BY <1>2, <1>3, <1>4

\* The values of RAM after a reset.
LEMMA PowerOnValues == Default \in Envs /\ ENV_VALID \in Copies /\ 0 \in Flags
BY FlagMaxAssumption DEF Envs, Copies, Flags

\* A medium from the factory has the type of a medium.
LEMMA FactoryType ==
  ASSUME NEW flags \in SUBSET Flags, NEW m \in FactoryMedia(flags)
  PROVE  m \in [Copies -> Copy]
<1>1. PICK first \in {Bad} \cup {Good(f, v) : f \in flags, v \in Vals} :
        m = [c \in Copies |-> IF c = ENV_VALID THEN first ELSE Bad]
  BY DEF FactoryMedia
<1>2. first \in Copy
  BY CopyType DEF Envs
<1> DEFINE contents(c) == IF c = ENV_VALID THEN first ELSE Bad
<1>3. \A c \in Copies : contents(c) \in Copy
  BY <1>2, CopyType
<1>4. m = [c \in Copies |-> contents(c)]
  BY <1>1
<1> HIDE DEF contents
<1> QED BY <1>3, <1>4

=============================================================================
