---- MODULE MCNetLoop ----
EXTENDS NetLoop
====
