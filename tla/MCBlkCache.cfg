SPECIFICATION Spec
CONSTANTS
  emmc = emmc
  disk = disk
  Devs <- MCDevs
  HwParts = {0, 1}
  NumBlocks = 2
  Blksz <- MCBlksz
  Contents = {0, 1}
  Limits = {0, 1, 2}
INVARIANTS
  ListSound
  Coherent
