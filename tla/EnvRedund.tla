------------------------------ MODULE EnvRedund ------------------------------
(***************************************************************************)
(* The part of env/common.c that every redundant environment shares: two   *)
(* copies on the medium, each a CRC over the data and a byte of flags the  *)
(* CRC does not cover, and the choice between them when they are loaded.   *)
(*                                                                         *)
(* Abstractions: the data of an environment is a model value; the CRC is   *)
(* taken to tell a complete copy from an interrupted one; a copy whose CRC *)
(* does not match is one value, Bad, for no code path reads the flags or   *)
(* the data of such a copy to any effect.                                  *)
(***************************************************************************)
EXTENDS Naturals

CONSTANTS
  Vals,       \* the environments a user can save
  Default,    \* default_environment
  FlagMax     \* the largest value of the flags byte (255 in the code)

ASSUME DefaultAssumption == Default \notin Vals
ASSUME FlagMaxAssumption == FlagMax \in Nat /\ FlagMax >= 2

Envs == Vals \cup {Default}
Flags == 0 .. FlagMax

\* enum env_valid: which of the two copies is in use.
ENV_VALID == 1
ENV_REDUND == 2

Copies == {ENV_VALID, ENV_REDUND}
Other(c) == IF c = ENV_VALID THEN ENV_REDUND ELSE ENV_VALID

\* env_t as it is found on the medium.
Copy == [crc : BOOLEAN, flags : Flags, data : Envs]
Bad == [crc |-> FALSE, flags |-> 0, data |-> Default]
Good(f, v) == [crc |-> TRUE, flags |-> f, data |-> v]

\* Mutated form: the serial number kept in an int.
NextSerial_Wide(f) == f + 1

\* unsigned char arithmetic on the serial number.
NextSerial(f) == IF f = FlagMax THEN 0 ELSE f + 1

\* Mutated form: no special case for the wrap.
SecondIsNewer_NoWrap(f1, f2) == f2 > f1

\* Of two copies with matching CRCs the second is taken when its flags are
\* the greater, except that a serial number that wrapped to 0 follows FlagMax.
SecondIsNewer(f1, f2) ==
  \/ f1 = FlagMax /\ f2 = 0
  \/ f2 > f1 /\ ~(f1 = 0 /\ f2 = FlagMax)

\* The copy taken when both could be read and at least one CRC matches.
Pick(media) ==
  IF \/ ~media[ENV_VALID].crc
     \/ /\ media[ENV_REDUND].crc
        /\ SecondIsNewer(media[ENV_VALID].flags, media[ENV_REDUND].flags)
  THEN ENV_REDUND ELSE ENV_VALID

NoneValid(media) == \A c \in Copies : ~media[c].crc

\* The environment a boot finds when both copies can be read.
Stored(media) == IF NoneValid(media) THEN Default ELSE media[Pick(media)].data

(***************************************************************************)
(* env_import_redund(): the environment imported, the copy in use          *)
(* (gd->env_valid) and the serial number (env_flags) that result from the  *)
(* copies that could be read, given the values the last two had before.    *)
(* parsed: himport_r() had the memory it needs.                            *)
(***************************************************************************)
Import(media, readable, parsed, valid, serial) ==
  IF readable = {} \/ (readable = Copies /\ NoneValid(media))
  THEN [data |-> Default, valid |-> valid, serial |-> serial]
  ELSE LET c == IF readable = Copies
                THEN Pick(media) ELSE CHOOSE k \in readable : TRUE
       IN [data |-> IF media[c].crc /\ parsed THEN media[c].data ELSE Default,
           valid |-> c,
           serial |-> IF readable = Copies THEN media[c].flags ELSE serial]

\* A medium that left the factory: blank, or one image written to the first
\* copy by a tool, with one of these flags.
FactoryMedia(flags) ==
  {[c \in Copies |-> IF c = ENV_VALID THEN first ELSE Bad] :
     first \in {Bad} \cup {Good(f, v) : f \in flags, v \in Vals}}

\* What a write of copy "new" over "old" may leave when it is interrupted or
\* reports an error: nothing done, some blocks written, or all of them.
Torn(old, new) == {old, Bad, new}

=============================================================================
