---------------------------- MODULE NetLoopState ----------------------------
(***************************************************************************)
(* ... and what NetLoop and Dhcp, which follow net_loop() from one         *)
(* operation to the next, have in common besides.                          *)
(***************************************************************************)
EXTENDS NetState

VARIABLES
  phase,          \* what net_loop() looks at next; "command" outside of it
  netretry,       \* of the environment
  active,         \* is an interface started?
  net_ip,         \* "none", or where our address is from: "own" (the
                  \* environment) or "ll" in NetLoop, a server in Dhcp
  time_handler    \* "none", or whose: "ping" or "ll" in NetLoop, "bootp" or
                  \* "again" in Dhcp
=============================================================================
