---- MODULE MCFastbootUdp ----
EXTENDS FastbootUdp
====
