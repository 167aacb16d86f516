CONSTANTS
  b1 = b1
  b2 = b2
  b3 = b3
  Num = 2
  IdxMod = 4
  Buffers = {b1, b2, b3}
  Size <- MCSize
  Outgoing = {b1}
  KeepsOrder = TRUE
SPECIFICATION Spec
PROPERTIES KickedIsTaken
