---- MODULE MCVirtQueue ----
EXTENDS VirtQueue
CONSTANTS b1, b2, b3
MCSize == [b \in Buffers |-> IF b = b3 THEN 2 ELSE 1]
====
