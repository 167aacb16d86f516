------------------------------ MODULE NetLoop -------------------------------
(***************************************************************************)
(* net_loop() (net/net.c) running one operation after another: a ping      *)
(* (net/ping.c), which must first learn an Ethernet address by ARP         *)
(* (net/arp.c), or a search for a link-local address (net/link_local.c),   *)
(* on one of several Ethernet interfaces.  One iteration of the loop looks *)
(* at the ARP timer, at the packets received, at ctrl-C, at the timeout    *)
(* handler and then at net_state.  Nearly all of the state is static: what *)
(* one operation leaves behind meets the next.                             *)
(*                                                                         *)
(* link_local_receive_arp() is called from nowhere, so that no packet      *)
(* moves the link-local states and RATE_LIMIT_PROBE and DEFEND are never   *)
(* entered.                                                                *)
(***************************************************************************)
EXTENDS Integers, FiniteSetsExt, NetLoopState

CONSTANTS
  Ifs,                \* Ethernet interfaces
  ARP_TIMEOUT_COUNT, PROBE_NUM, ANNOUNCE_NUM

ASSUME NetLoopAssumption ==
  {Ifs, ARP_TIMEOUT_COUNT, PROBE_NUM, ANNOUNCE_NUM} \subseteq Nat \ {0}

Interfaces == 0 .. Ifs - 1
NoIf == Ifs

VARIABLES
  protocol,       \* of the running net_loop(), or "none"
  ethrotate,      \* of the environment
  llipaddr,       \* of the environment, as a search finds it: "valid" (or
                  \* unset) or "invalid"
  net_restarted, net_restart_wrap,
  current, first_failed,    \* the interface in use
  fresh,          \* time_start was set in this iteration
  \* ARP, and the one packet that waits for it.
  waiting, arp_wait_try,
  net_tx_packet,  \* what the buffer holds: "none", "ping" or "reply"
  net_ping_ip,    \* was it ever set?
  \* Link-local.
  ll_state, nprobes, nclaims,
  \* History, for the properties only: of this operation, and of this search.
  answered, tried, probes, claims

envVars == <<netretry, ethrotate, llipaddr>>
ethVars == <<current, first_failed, active, net_restart_wrap>>
tryVars == <<net_try_count, net_restarted>>
arpVars == <<waiting, arp_wait_try, net_tx_packet>>
llVars == <<ll_state, nprobes, nclaims>>
llHistory == <<probes, claims>>
vars == <<protocol, phase, net_state, envVars, tryVars, ethVars, net_ip,
          time_handler, fresh, arpVars, net_ping_ip, llVars, answered, tried,
          llHistory>>

Init ==
  /\ protocol = "none" /\ phase = "command" /\ net_state = "CONTINUE"
  /\ netretry = "no" /\ ethrotate = TRUE /\ llipaddr = "valid"
  /\ net_try_count = 1 /\ net_restarted = FALSE /\ net_restart_wrap = FALSE
  /\ current = 0 /\ first_failed = NoIf /\ active = FALSE
  /\ net_ip \in {"none", "own"}
  /\ time_handler = "none" /\ fresh = FALSE
  /\ waiting = FALSE /\ arp_wait_try = 0 /\ net_tx_packet = "none"
  /\ net_ping_ip = FALSE
  /\ ll_state = "DISABLED" /\ nprobes = 0 /\ nclaims = 0
  /\ answered = FALSE /\ tried = {} /\ probes = 0 /\ claims = 0
-----------------------------------------------------------------------------
(***************************************************************************)
(* Interfaces.  eth_init() starts the current interface or, when it may    *)
(* rotate, the first after it that starts.                                 *)
(***************************************************************************)
After(i, k) == (i + k) % Ifs

\* Mutated form: the interface that failed first is not noted.
Another_NoFirst(first_restart, e) ==
  LET next == After(e.current, 1)
  IN IF ~ethrotate THEN e
     ELSE [e EXCEPT !.current = next, !.wrap = @ \/ e.failed = next]

\* eth_try_another(first_restart)
Another(first_restart, e) ==
  LET next == After(e.current, 1)
      first == IF first_restart THEN e.current ELSE e.failed
  IN IF ~ethrotate THEN e
     ELSE [e EXCEPT !.current = next, !.failed = first,
                    !.wrap = @ \/ first = next]

\* eth_init() from e on, when the interfaces of good start: it tries another
\* until one does, or until it is back
EthInit(e, good) ==
  LET reach == IF ethrotate THEN Ifs ELSE 1
      hops == {k \in 0 .. reach - 1 : After(e.current, k) \in good}
      used == IF hops = {} THEN reach ELSE Min(hops)
  IN [e EXCEPT !.active = hops # {},
               !.current = IF ethrotate THEN After(@, used) ELSE @,
               !.wrap = @ \/ (ethrotate /\ e.failed \in {After(e.current, k) : k \in 1 .. used})]

Eth == [current |-> current, failed |-> first_failed,
        wrap |-> net_restart_wrap, active |-> FALSE]

\* The way out of net_loop()
Return ==
  /\ protocol' = "none"
  /\ phase' = "command"
  /\ net_state' = "CONTINUE"
  /\ fresh' = FALSE
  /\ net_try_count' = 1 /\ net_restarted' = FALSE
  /\ answered' = FALSE /\ tried' = {} /\ probes' = 0 /\ claims' = 0
  /\ llipaddr' = "valid"
  /\ UNCHANGED <<netretry, ethrotate, net_ping_ip, llVars, net_ip>>

\* ... with net_cleanup_loop()
Leave ==
  /\ Return
  /\ time_handler' = "none"

\* ... with eth_halt()
Halted ==
  /\ active' = FALSE
  /\ UNCHANGED <<current, first_failed, net_restart_wrap>>
-----------------------------------------------------------------------------
\* setenv ipaddr, netretry or ethrotate
SetEnv ==
  /\ phase = "command"
  /\ \/ net_ip' \in {"none", "own"} /\ UNCHANGED <<netretry, ethrotate>>
     \/ netretry' \in {"no", "once", "yes"} /\ UNCHANGED <<net_ip, ethrotate>>
     \/ ethrotate' \in BOOLEAN /\ UNCHANGED <<net_ip, netretry>>
  /\ UNCHANGED <<protocol, phase, net_state, llipaddr, tryVars, ethVars,
                 time_handler, fresh, arpVars, net_ping_ip, llVars, answered,
                 tried, llHistory>>

\* net_loop(p) up to its restart label; without an interface it returns
Enter(p) ==
  /\ phase = "command"
  /\ \E good \in SUBSET Interfaces :
       LET e == EthInit(Eth, good)
       IN /\ current' = e.current
          /\ net_restart_wrap' = e.wrap
          /\ active' = e.active
  /\ net_ping_ip' = (net_ping_ip \/ p = "PING")
  /\ IF active' THEN protocol' = p /\ phase' = "start"
     ELSE UNCHANGED <<protocol, phase>>
  /\ llipaddr' \in IF protocol' = "LINKLOCAL" THEN {"valid", "invalid"}
                   ELSE {"valid"}
  /\ UNCHANGED <<net_state, netretry, ethrotate, tryVars, first_failed, net_ip,
                 time_handler, fresh, arpVars, llVars, answered, tried,
                 llHistory>>

\* From the restart label: net_check_prereq() refuses
Refused ==
  /\ phase = "start"
  /\ protocol = "PING"
  /\ net_ip = "none"
  /\ Return /\ Halted
  /\ UNCHANGED <<time_handler, arpVars>>

\* ... or ping_start()
PingStart ==
  /\ phase = "start"
  /\ protocol = "PING"
  /\ net_ip # "none"
  /\ phase' = "arp"
  /\ net_state' = "CONTINUE"
  /\ time_handler' = "ping"
  /\ waiting' = TRUE /\ arp_wait_try' = 1 /\ net_tx_packet' = "ping"
  /\ tried' = tried \cup (IF active THEN {current} ELSE {})
  /\ UNCHANGED <<protocol, envVars, tryVars, ethVars, net_ip, fresh,
                 net_ping_ip, llVars, answered, llHistory>>

\* configure_wait() with timeout_ms = 0: the random delay may be 0 too, and a
\* timeout of 0 is no timeout
RandomWait == time_handler' \in {"none", "ll"}

\* Mutated form: the probes of an earlier search count.
LinkLocalStart_KeepsProbes ==
  /\ phase = "start"
  /\ protocol = "LINKLOCAL"
  /\ llipaddr = "valid"
  /\ phase' = "arp"
  /\ net_state' = "CONTINUE"
  /\ ll_state' = "PROBE" /\ nclaims' = 0
  /\ RandomWait
  /\ tried' = tried \cup (IF active THEN {current} ELSE {})
  /\ probes' = 0 /\ claims' = 0
  /\ UNCHANGED <<protocol, envVars, tryVars, ethVars, net_ip, fresh, nprobes,
                 arpVars, net_ping_ip, answered>>

\* ... or link_local_start()
LinkLocalStart ==
  /\ phase = "start"
  /\ protocol = "LINKLOCAL"
  /\ llipaddr = "valid"
  /\ phase' = "arp"
  /\ net_state' = "CONTINUE"
  /\ ll_state' = "PROBE" /\ nprobes' = 0 /\ nclaims' = 0
  /\ RandomWait
  /\ tried' = tried \cup (IF active THEN {current} ELSE {})
  /\ probes' = 0 /\ claims' = 0
  /\ UNCHANGED <<protocol, envVars, tryVars, ethVars, net_ip, fresh, arpVars,
                 net_ping_ip, answered>>

\* ... which refuses an address outside of 169.254/16
LinkLocalRefused ==
  /\ phase = "start"
  /\ protocol = "LINKLOCAL"
  /\ llipaddr = "invalid"
  /\ phase' = "arp"
  /\ net_state' = "FAIL"
  /\ tried' = tried \cup (IF active THEN {current} ELSE {})
  /\ UNCHANGED <<protocol, envVars, tryVars, ethVars, net_ip, time_handler,
                 fresh, arpVars, net_ping_ip, llVars, answered, llHistory>>
-----------------------------------------------------------------------------
\* arp_timeout_check(), nothing to do
ArpQuiet ==
  /\ phase = "arp"
  /\ fresh' = waiting
  /\ phase' = "receive"
  /\ UNCHANGED <<protocol, net_state, envVars, tryVars, ethVars, net_ip,
                 time_handler, arpVars, net_ping_ip, llVars, answered, tried,
                 llHistory>>

\* Mutated form: the tries are not counted.
ArpExpires_Uncounted ==
  /\ phase = "arp"
  /\ waiting
  /\ fresh' = TRUE
  /\ UNCHANGED <<arp_wait_try, net_state>>
  /\ phase' = "receive"
  /\ UNCHANGED <<protocol, envVars, tryVars, ethVars, net_ip, time_handler,
                 waiting, net_tx_packet, net_ping_ip, llVars, answered, tried,
                 llHistory>>

\* arp_timeout_check() after ARP_TIMEOUT: it asks again or gives up
ArpExpires ==
  /\ phase = "arp"
  /\ waiting
  /\ fresh' = TRUE
  /\ IF arp_wait_try + 1 >= ARP_TIMEOUT_COUNT
     THEN arp_wait_try' = 0 /\ net_state' = "FAIL"
     ELSE arp_wait_try' = arp_wait_try + 1 /\ UNCHANGED net_state
  /\ phase' = "receive"
  /\ UNCHANGED <<protocol, envVars, tryVars, ethVars, net_ip, time_handler,
                 waiting, net_tx_packet, net_ping_ip, llVars, answered, tried,
                 llHistory>>

\* arp_receive(): the reply that was waited for
ArpReply ==
  /\ phase = "receive" /\ active
  /\ net_ip # "none"
  /\ waiting
  /\ waiting' = FALSE
  /\ UNCHANGED <<protocol, phase, net_state, envVars, tryVars, ethVars, net_ip,
                 time_handler, fresh, arp_wait_try, net_tx_packet, net_ping_ip,
                 llVars, answered, tried, llHistory>>

\* Mutated form of net_get_async_tx_pkt_buf(): always the same buffer.
AsyncTx_Same == "reply"

\* net_get_async_tx_pkt_buf(): net_tx_packet after an answer was built in it,
\* or in ARP's own buffer
AsyncTx == IF waiting THEN net_tx_packet ELSE "reply"

\* An ARP or an echo request is answered
Request ==
  /\ phase = "receive" /\ active
  /\ net_ip # "none"
  /\ net_tx_packet' = AsyncTx
  /\ UNCHANGED <<protocol, phase, net_state, envVars, tryVars, ethVars, net_ip,
                 time_handler, fresh, waiting, arp_wait_try, net_ping_ip,
                 llVars, answered, tried, llHistory>>

\* Mutated form: the answer of any host will do.
EchoReply_Any(own) ==
  /\ phase = "receive" /\ active
  /\ net_ping_ip
  /\ net_state' = "SUCCESS"
  /\ answered' = (answered \/ own)
  /\ UNCHANGED <<protocol, phase, envVars, tryVars, ethVars, net_ip,
                 time_handler, fresh, arpVars, net_ping_ip, llVars, tried,
                 llHistory>>

\* ping_receive() of an echo reply, from net_ping_ip (own) or another host:
\* perhaps late, and whatever the operation is
EchoReply(own) ==
  /\ phase = "receive" /\ active
  /\ net_ping_ip
  /\ net_state' = IF own THEN "SUCCESS" ELSE net_state
  /\ answered' = (answered \/ own)
  /\ UNCHANGED <<protocol, phase, envVars, tryVars, ethVars, net_ip,
                 time_handler, fresh, arpVars, net_ping_ip, llVars, tried,
                 llHistory>>

\* eth_rx() returns
Received ==
  /\ phase = "receive"
  /\ phase' = "timer"
  /\ UNCHANGED <<protocol, net_state, envVars, tryVars, ethVars, net_ip,
                 time_handler, fresh, arpVars, net_ping_ip, llVars, answered,
                 tried, llHistory>>

\* ctrl-C
Abort ==
  /\ phase = "timer"
  /\ waiting' = FALSE
  /\ Leave /\ Halted
  /\ UNCHANGED <<arp_wait_try, net_tx_packet>>
-----------------------------------------------------------------------------
TimerQuiet ==
  /\ phase = "timer"
  /\ phase' = "state"
  /\ UNCHANGED <<protocol, net_state, envVars, tryVars, ethVars, net_ip,
                 time_handler, fresh, arpVars, net_ping_ip, llVars, answered,
                 tried, llHistory>>

\* net_loop() takes the handler away and calls it: ping_timeout_handler()
PingTimeout ==
  /\ phase = "timer" /\ ~fresh
  /\ time_handler = "ping"
  /\ time_handler' = "none"
  /\ active' = FALSE
  /\ net_state' = "FAIL"
  /\ phase' = "state"
  /\ UNCHANGED <<protocol, envVars, tryVars, current, first_failed,
                 net_restart_wrap, net_ip, fresh, arpVars, net_ping_ip, llVars,
                 answered, tried, llHistory>>

\* link_local_timeout() in PROBE: probe once more, or announce
Probe ==
  /\ ll_state = "PROBE"
  /\ IF nprobes < PROBE_NUM
     THEN /\ nprobes' = nprobes + 1
          /\ probes' = probes + 1
          /\ UNCHANGED <<ll_state, nclaims, claims>>
     ELSE /\ ll_state' = "ANNOUNCE"
          /\ nclaims' = 0
          /\ claims' = claims + 1
          /\ UNCHANGED <<nprobes, probes>>
  /\ time_handler' = "ll"
  /\ UNCHANGED <<net_state, net_ip>>

\* ... in ANNOUNCE: announce once more, or take the address
Announce ==
  /\ ll_state = "ANNOUNCE"
  /\ UNCHANGED <<nprobes, probes>>
  /\ IF nclaims < ANNOUNCE_NUM
     THEN /\ nclaims' = nclaims + 1
          /\ claims' = claims + 1
          /\ time_handler' = "ll"
          /\ UNCHANGED <<ll_state, net_state, net_ip>>
     ELSE /\ ll_state' = "MONITOR"
          /\ net_ip' = "ll"
          /\ time_handler' = "none"
          /\ net_state' = "SUCCESS"
          /\ UNCHANGED <<nclaims, claims>>

LinkLocalTimeout ==
  /\ phase = "timer" /\ ~fresh
  /\ time_handler = "ll"
  /\ Probe \/ Announce
  /\ phase' = "state"
  /\ UNCHANGED <<protocol, envVars, tryVars, ethVars, fresh, arpVars,
                 net_ping_ip, answered, tried>>
-----------------------------------------------------------------------------
Continue ==
  /\ phase = "state"
  /\ net_state = "CONTINUE"
  /\ phase' = "arp"
  /\ UNCHANGED <<protocol, net_state, envVars, tryVars, ethVars, net_ip,
                 time_handler, fresh, arpVars, net_ping_ip, llVars, answered,
                 tried, llHistory>>

Success ==
  /\ phase = "state"
  /\ net_state = "SUCCESS"
  /\ Leave /\ Halted
  /\ UNCHANGED arpVars

\* netretry allows another try
MayRetry ==
  \/ netretry = "yes"
  \/ net_try_count <= IF netretry = "once" THEN 1 ELSE 0

\* FAIL, and net_start_again() refuses another try
Fail ==
  /\ phase = "state"
  /\ net_state = "FAIL"
  /\ ~MayRetry
  /\ Leave /\ Halted
  /\ UNCHANGED arpVars

\* What net_start_again() makes of the interfaces
Moved(good) == EthInit(Another(~net_restarted, Eth), good)

\* FAIL, and net_start_again() goes on with another interface.  When netretry
\* is "yes", net_try_count is not looked at.
Restart ==
  /\ phase = "state"
  /\ net_state = "FAIL"
  /\ MayRetry
  /\ \E good \in SUBSET Interfaces :
       /\ ~Moved(good).wrap
       /\ current' = Moved(good).current
       /\ first_failed' = Moved(good).failed
       /\ active' = Moved(good).active
  /\ net_try_count' = IF netretry = "yes" THEN net_try_count ELSE net_try_count + 1
  /\ net_restarted' = TRUE
  /\ phase' = "start"
  /\ UNCHANGED <<protocol, net_state, envVars, net_restart_wrap, net_ip,
                 time_handler, fresh, arpVars, net_ping_ip, llVars, answered,
                 tried, llHistory>>

\* ... or finds that it has been through all of them: it sets a timer to start
\* again, but leaves the state FAIL, and net_loop() ends
Wrapped ==
  /\ phase = "state"
  /\ net_state = "FAIL"
  /\ MayRetry
  /\ \E good \in SUBSET Interfaces :
       /\ Moved(good).wrap
       /\ current' = Moved(good).current
       /\ first_failed' = Moved(good).failed
       /\ active' = Moved(good).active
  /\ net_restart_wrap' = FALSE
  /\ Leave
  /\ UNCHANGED arpVars

Next ==
  \/ SetEnv
  \/ Enter("PING") \/ Enter("LINKLOCAL")
  \/ Refused \/ PingStart \/ LinkLocalStart \/ LinkLocalRefused
  \/ ArpQuiet \/ ArpExpires
  \/ ArpReply \/ Request \/ EchoReply(TRUE) \/ EchoReply(FALSE) \/ Received
  \/ Abort \/ TimerQuiet \/ PingTimeout \/ LinkLocalTimeout
  \/ Continue \/ Success \/ Fail \/ Restart \/ Wrapped

\* The loop goes on, whatever arrives, and time passes
Fairness ==
  /\ WF_vars(Refused \/ PingStart \/ LinkLocalStart \/ LinkLocalRefused)
  /\ WF_vars(ArpQuiet \/ ArpExpires) /\ SF_vars(ArpExpires)
  /\ WF_vars(Received)
  /\ WF_vars(TimerQuiet) /\ SF_vars(PingTimeout)
  /\ WF_vars(Continue \/ Success \/ Fail \/ Restart \/ Wrapped)

Spec == Init /\ [][Next]_vars /\ Fairness
-----------------------------------------------------------------------------
\* Every variable has its type.
TypeOK ==
  /\ protocol \in {"none", "PING", "LINKLOCAL"}
  /\ phase \in {"command", "start", "arp", "receive", "timer", "state"}
  /\ net_state \in {"CONTINUE", "SUCCESS", "FAIL"}
  /\ netretry \in {"no", "once", "yes"} /\ ethrotate \in BOOLEAN
  /\ llipaddr \in {"valid", "invalid"}
  /\ net_try_count \in 1 .. 2
  /\ {net_restarted, net_restart_wrap, active} \subseteq BOOLEAN
  /\ current \in Interfaces /\ first_failed \in Interfaces \cup {NoIf}
  /\ net_ip \in {"none", "own", "ll"}
  /\ time_handler \in {"none", "ping", "ll"}
  /\ {fresh, waiting, net_ping_ip, answered} \subseteq BOOLEAN
  /\ arp_wait_try \in 0 .. ARP_TIMEOUT_COUNT
  /\ net_tx_packet \in {"none", "ping", "reply"}
  /\ ll_state \in {"DISABLED", "PROBE", "ANNOUNCE", "MONITOR"}
  /\ nprobes \in 0 .. PROBE_NUM /\ nclaims \in 0 .. ANNOUNCE_NUM
  /\ tried \subseteq Interfaces
  /\ probes \in 0 .. PROBE_NUM /\ claims \in 0 .. ANNOUNCE_NUM + 1

\* The packet that waits for an ARP reply stays in net_tx_packet until it is
\* sent, over every answer to somebody else, timeout and retry, and into the
\* next operation (net_get_async_tx_pkt_buf, arp_receive).
WaitingPacketKept == waiting => net_tx_packet = "ping"

\* A ping that succeeds has heard from the host it asked, in this operation,
\* whatever earlier operations left in the handlers and timers (net_loop,
\* ping_receive).
PingIsAnswered ==
  (protocol = "PING" /\ net_state = "SUCCESS") => answered

\* The address of a link-local search is taken after all of its probes and
\* announcements, counted since this search or its restart began
\* (link_local_start, link_local_timeout).
AddressWasClaimed ==
  [][ll_state # "MONITOR" /\ ll_state' = "MONITOR" =>
       net_ip' = "ll" /\ probes = PROBE_NUM /\ claims = ANNOUNCE_NUM + 1]_vars

\* When interfaces rotate, an operation starts at most once on each: an
\* interface that failed is not tried again (eth_try_another, eth_init,
\* net_start_again).
NoneTriedTwice ==
  (phase = "start" /\ ethrotate /\ active) => current \notin tried

\* A ping that does not retry for ever ends: with an answer, by its own timer,
\* or when ARP gives up (net_loop, arp_timeout_check, ping_timeout_handler).
PingEnds ==
  (protocol = "PING" /\ (netretry # "yes" \/ ethrotate)) ~> protocol = "none"

\* What holds in every state: the types, and the packet that waits for an
\* address.
PacketSafe == TypeOK /\ WaitingPacketKept
=============================================================================
