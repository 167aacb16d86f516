------------------------------ MODULE MCEnvMmc ------------------------------
(***************************************************************************)
(* EnvMmc and EnvDriver for TLC, side by side: they share no state, and a  *)
(* behaviour is one of either.                                             *)
(*                                                                         *)
(* EnvMmc: two environments besides the default, a flags byte that wraps   *)
(* after FlagMax = 4, so that every phase of the serial number and every   *)
(* distance across the wrap occurs, and cards with and without errors.     *)
(* EnvDriver: every build with up to three locations, each driver with any *)
(* combination of operations.                                              *)
(***************************************************************************)
EXTENDS EnvMmc, EnvDriver

VARIABLE moves   \* which of the two this behaviour is about

\* The one that does not move: a card never written, a build without drivers.
CardRests == media = [c \in Copies |-> Bad] /\ errors = {}
DriversRest ==
  driver = [p \in Prios |-> [init |-> "absent", load |-> FALSE, save |-> FALSE]]

MCInit ==
  /\ Init /\ DriverInit
  /\ \/ moves = "store" /\ DriversRest
     \/ moves = "drivers" /\ CardRests

MCNext ==
  \/ moves = "store" /\ Next /\ UNCHANGED <<moves, driverVars>>
  \/ moves = "drivers" /\ DriverNext /\ UNCHANGED <<moves, vars>>

MCSpec == MCInit /\ [][MCNext]_<<moves, vars, driverVars>>
=============================================================================
