------------------------------ MODULE MCDevice ------------------------------
(***************************************************************************)
(* A bus with a device b and a hub on it, and a device a on the hub.  Both *)
(* devices are of one uclass, and a has an alias for number 0.  All others *)
(* probe a themselves (as a bridge does, or the user of a clock or of a    *)
(* regulator), so that a may be met before its hub and its bus are active. *)
(***************************************************************************)
EXTENDS Device

CONSTANTS bus, hub, a, b, root

MCParent == [d \in Devices |-> CASE d = bus -> root [] d = a -> hub [] OTHER -> bus]
MCUclass == [d \in Devices |-> IF d \in {bus, hub} THEN "bus" ELSE "dev"]
MCReqSeq == [d \in Devices |-> IF d = a THEN 0 ELSE -1]
MCUses == [d \in Devices |-> IF d = a THEN {} ELSE {a}]
=============================================================================
