----------------------------- MODULE MCBlkCache -----------------------------
(***************************************************************************)
(* BlkCache for TLC: an eMMC and a device with larger blocks, two hardware *)
(* partitions of two blocks, and caches of at most two nodes of at most    *)
(* two blocks, so that lists fill, buffers change hands and runs overlap.  *)
(***************************************************************************)
EXTENDS BlkCache

CONSTANTS emmc, disk

MCDevs == {emmc, disk}
MCBlksz == [d \in MCDevs |-> IF d = emmc THEN 1 ELSE 2]
=============================================================================
