--------------------------- MODULE NetLoop_proofs ---------------------------
(***************************************************************************)
(* What net_loop() and three of the protocols it runs guarantee for every  *)
(* value of the constants: NetLoop, then Dhcp, TftpGet and FastbootUdp.    *)
(* They stand in one module because the first three speak of the same      *)
(* net_state and net_try_count (NetState), and all of them rest on the     *)
(* same few facts about least numbers, quotients and sequences.            *)
(*                                                                         *)
(* NetLoop, for any number of interfaces, retries, probes and              *)
(* announcements: the loop's state is static and outlives each operation,  *)
(* so that the invariant says above all what an operation may not find of  *)
(* the one before: a handler, an outcome, a count.  That interfaces are    *)
(* not tried twice is an argument about a ring: the one that failed first  *)
(* is where it is counted from.                                            *)
(***************************************************************************)
EXTENDS NetLoop, Dhcp, TftpGet, FastbootUdp,
        WellFoundedInduction, SequenceTheorems, TLAPS

\* A non-empty set of natural numbers has a least member.
LEMMA LeastNatural ==
  ASSUME NEW T \in SUBSET Nat, T # {}
  PROVE  \E n \in T : \A m \in T : n <= m
<1> DEFINE R == OpToRel(<, Nat)
<1>1. IsWellFoundedOn(R, Nat)
  BY NatLessThanWellFounded
<1>2. \A m, n \in Nat : m < n => <<m, n>> \in R
  BY DEF OpToRel
<1> HIDE DEF R
<1>3. PICK n \in T : \A m \in T : ~ (<<m, n>> \in R)
  BY <1>1, WFMin
<1>4. ASSUME NEW m \in T PROVE n <= m
  <2>1. m \in Nat /\ n \in Nat
    OBVIOUS
  <2>2. ~ (<<m, n>> \in R)
    BY <1>3
  <2>3. ~ (m < n)
    BY <1>2, <2>1, <2>2
  <2> QED BY <2>1, <2>3
<1> QED BY <1>4

LEMMA IfsType == Ifs \in Nat \ {0} /\ PROBE_NUM \in Nat \ {0}
                   /\ ANNOUNCE_NUM \in Nat \ {0} /\ ARP_TIMEOUT_COUNT \in Nat \ {0}
BY NetLoopAssumption

-----------------------------------------------------------------------------
(***************************************************************************)
(* The ring of interfaces.                                                 *)
(***************************************************************************)
\* How many steps around the ring lead from f to i
Dist(f, i) == IF f <= i THEN i - f ELSE i - f + Ifs

\* Less than once around the ring, "After" either stays below Ifs or wraps.
LEMMA AfterValue ==
  ASSUME NEW i \in Interfaces, NEW k \in 0 .. Ifs
  PROVE  /\ After(i, k) = IF i + k < Ifs THEN i + k ELSE i + k - Ifs
         /\ After(i, k) \in Interfaces
<1>1. Ifs \in Nat \ {0} /\ i \in 0 .. Ifs - 1
  BY IfsType DEF Interfaces
<1>2. CASE i + k < Ifs
  <2>1. i + k \in 0 .. Ifs - 1
    BY <1>1, <1>2
  <2>2. (i + k) % Ifs = i + k
    BY <1>1, <2>1
  <2> QED BY <1>2, <2>1, <2>2 DEF After, Interfaces
<1>3. CASE ~(i + k < Ifs)
  <2>1. i + k \in Ifs .. 2 * Ifs - 1
    BY <1>1, <1>3
  <2>2. (i + k) % Ifs = i + k - Ifs
    BY <1>1, <2>1
  <2>3. i + k - Ifs \in 0 .. Ifs - 1
    BY <1>1, <2>1
  <2> QED BY <1>3, <2>2, <2>3 DEF After, Interfaces
<1> QED BY <1>2, <1>3

LEMMA DistType ==
  ASSUME NEW f \in Interfaces, NEW i \in Interfaces
  PROVE  Dist(f, i) \in 0 .. Ifs - 1
BY IfsType DEF Dist, Interfaces

EthRec == [current : Interfaces, failed : Interfaces \cup {NoIf},
           wrap : BOOLEAN, active : BOOLEAN]

\* eth_init() moves on by some number of interfaces and notes whether it met
\* the one that failed first on its way.
LEMMA EthInitFields ==
  ASSUME NEW e \in EthRec, NEW good
  PROVE  LET r == EthInit(e, good)
         IN /\ r \in EthRec
            /\ r.failed = e.failed
            /\ \E used \in 0 .. Ifs :
                 /\ r.current = IF ethrotate THEN After(e.current, used)
                                ELSE e.current
                 /\ r.wrap <=> \/ e.wrap
                               \/ ethrotate /\ \E k \in 1 .. used :
                                                 e.failed = After(e.current, k)
<1> DEFINE c == e.current
           f == e.failed
           reach == IF ethrotate THEN Ifs ELSE 1
           hops == {k \in 0 .. reach - 1 : After(c, k) \in good}
           used == IF hops = {} THEN reach ELSE Min(hops)
           r == EthInit(e, good)
<1>1. reach \in Nat /\ reach <= Ifs /\ Ifs \in Nat
  BY IfsType
<1>2. r = [e EXCEPT !.active = hops # {},
                    !.current = IF ethrotate THEN After(@, used) ELSE @,
                    !.wrap = @ \/ (ethrotate /\ e.failed \in
                                     {After(e.current, k) : k \in 1 .. used})]
  BY DEF EthInit
<1>3. /\ r = [current |-> IF ethrotate THEN After(c, used) ELSE c,
              failed |-> f,
              wrap |-> (e.wrap \/ (ethrotate /\ f \in {After(c, k) : k \in 1 .. used})),
              active |-> (hops # {})]
  <2> HIDE DEF used, r, hops
  <2> QED BY <1>2 DEF EthRec
<1>4. used \in 0 .. Ifs
  <2>1. CASE hops = {}
    BY <1>1, <2>1
  <2>2. CASE hops # {}
    <3>1. hops \in SUBSET Nat /\ hops \subseteq 0 .. Ifs
      BY <1>1
    <3> HIDE DEF hops
    <3>2. \E x \in hops : \A y \in hops : x <= y
      BY <2>2, <3>1, LeastNatural
    <3>3. Min(hops) \in hops
      BY <3>2 DEF Min
    <3> QED BY <2>2, <3>1, <3>3
  <2> QED BY <2>1, <2>2
<1> HIDE DEF used, r, hops
<1>5. /\ r.current = IF ethrotate THEN After(c, used) ELSE c
      /\ r.failed = f
      /\ r.wrap <=> e.wrap \/ (ethrotate /\ \E k \in 1 .. used : f = After(c, k))
  BY <1>3
<1>6. After(c, used) \in Interfaces /\ c \in Interfaces
        /\ f \in Interfaces \cup {NoIf}
  BY <1>4, AfterValue DEF EthRec
<1>7. r \in EthRec
  <2> HIDE DEF c, f
  <2> QED BY <1>3, <1>6 DEF EthRec
<1> QED BY <1>4, <1>5, <1>7 DEF r

\* The interface that counts as the first to fail when the next is tried
FirstFailed == IF ~net_restarted THEN current ELSE first_failed

LEMMA MovedType ==
  ASSUME TypeOK, NEW good
  PROVE  Another(~net_restarted, Eth) \in EthRec /\ Moved(good) \in EthRec
<1>1. /\ current \in Interfaces /\ first_failed \in Interfaces \cup {NoIf}
      /\ net_restart_wrap \in BOOLEAN
  BY DEF TypeOK
<1>2. Eth \in EthRec
  BY <1>1 DEF Eth, EthRec
<1>3. After(current, 1) \in Interfaces
  BY <1>1, IfsType, AfterValue
<1>4. Another(~net_restarted, Eth) \in EthRec
  BY <1>1, <1>2, <1>3 DEF Another, Eth, EthRec
<1> QED BY <1>4, EthInitFields DEF Moved

\* While the first interface to fail is not met again, the next one to be tried
\* is further round the ring (eth_try_another, eth_init).
LEMMA MovedOn ==
  ASSUME TypeOK, ethrotate, NEW good, ~Moved(good).wrap,
         FirstFailed \in Interfaces
  PROVE  /\ Moved(good).failed = FirstFailed
         /\ Dist(FirstFailed, Moved(good).current) > Dist(FirstFailed, current)
<1> DEFINE f == FirstFailed
           next == After(current, 1)
           wrap == net_restart_wrap \/ f = next
           r == Moved(good)
<1>1. /\ Ifs \in Nat \ {0} /\ current \in 0 .. Ifs - 1 /\ f \in 0 .. Ifs - 1
      /\ net_restart_wrap \in BOOLEAN
  BY IfsType DEF TypeOK, Interfaces
<1>2. /\ next \in Interfaces
      /\ next = IF current + 1 < Ifs THEN current + 1 ELSE current + 1 - Ifs
  BY <1>1, AfterValue DEF Interfaces
<1> DEFINE e == Another(~net_restarted, Eth)
<1>3. e.current = next /\ e.failed = f /\ (e.wrap <=> wrap) /\ e \in EthRec
  <2>1. e = [current |-> next, failed |-> f, wrap |-> wrap, active |-> FALSE]
    BY DEF Another, Eth, FirstFailed
  <2>2. e \in EthRec
    BY MovedType
  <2> HIDE DEF e, next, f, wrap
  <2> QED BY <2>1, <2>2
<1>4. r = EthInit(e, good)
  BY DEF Moved
<1> HIDE DEF e, next, f, r
<1>5. PICK used \in 0 .. Ifs :
        /\ r.current = After(next, used)
        /\ r.failed = f
        /\ r.wrap <=> wrap \/ \E k \in 1 .. used : f = After(next, k)
  <2> HIDE DEF wrap
  <2> QED BY <1>3, <1>4, EthInitFields
<1>6. f # next /\ \A k \in 1 .. used : f # After(next, k)
  <2>1. ~r.wrap
    BY DEF r
  <2> QED BY <1>5, <2>1
<1>7. used \in Nat /\ used <= Ifs /\ next \in 0 .. Ifs - 1
  BY <1>1, <1>2, <1>5 DEF Interfaces
<1>8. ASSUME NEW k \in 0 .. used
      PROVE  f # IF next + k < Ifs THEN next + k ELSE next + k - Ifs
  <2>1. k \in 0 .. Ifs /\ (k = 0 \/ k \in 1 .. used)
    BY <1>1, <1>7
  <2>2. After(next, k) = IF next + k < Ifs THEN next + k ELSE next + k - Ifs
    BY <1>2, <2>1, AfterValue
  <2>3. CASE k = 0
    BY <1>1, <1>6, <1>7, <2>3
  <2>4. CASE k \in 1 .. used
    BY <1>6, <2>2, <2>4
  <2> QED BY <2>1, <2>3, <2>4
<1>9. r.current = IF next + used < Ifs THEN next + used ELSE next + used - Ifs
  BY <1>2, <1>5, AfterValue
<1>10. Dist(f, r.current) > Dist(f, current)
  <2> DEFINE d == IF f <= next THEN f - next + Ifs ELSE f - next
  <2>1. d \in Nat /\ d <= Ifs /\ (d # Ifs => f = IF next + d < Ifs THEN next + d ELSE next + d - Ifs)
    BY <1>1, <1>7
  <2>2. f # next
    BY <1>6
  <2>3. d > used
    <3>1. d # Ifs
      BY <1>1, <1>7, <2>2
    <3>2. d \notin 0 .. used
      BY <1>8, <2>1, <3>1
    <3> QED BY <1>7, <2>1, <3>2
  <2> QED BY <1>1, <1>2, <1>7, <1>9, <2>2, <2>3 DEF Dist
<1> QED BY <1>5, <1>10 DEF f, r

-----------------------------------------------------------------------------
\* Between two operations nothing waits for one: no outcome, no handler.
Idle ==
  /\ protocol = "none" <=> phase = "command"
  /\ phase = "command" =>
       /\ net_state = "CONTINUE"
       /\ time_handler = "none"
       /\ ~net_restarted
       /\ tried = {}

\* A ping that net_check_prereq() refuses has set no handler yet.
Unprepared ==
  protocol = "PING" /\ net_ip = "none" =>
    phase = "start" /\ time_handler = "none"

\* The link-local timer runs in a search only, and the counts it goes by are
\* those of this search.
Counting ==
  time_handler = "ll" =>
    /\ protocol = "LINKLOCAL"
    /\ ll_state = "PROBE" => probes = nprobes /\ claims = 0
    /\ ll_state = "ANNOUNCE" => probes = PROBE_NUM /\ claims = nclaims + 1

\* The interfaces tried lie on the ring between the one that failed first and
\* the one in use.
Walk ==
  ethrotate /\ phase # "command" =>
    IF net_restarted
    THEN /\ first_failed \in Interfaces
         /\ \A i \in tried :
              IF phase = "start"
              THEN Dist(first_failed, i) < Dist(first_failed, current)
              ELSE Dist(first_failed, i) <= Dist(first_failed, current)
    ELSE tried \subseteq IF phase = "start" THEN {} ELSE {current}

\* The inductive invariant.  Counting is needed for the types of the counts
\* already, Idle for PingIsAnswered, and Walk says where NoneTriedTwice only
\* says whether.
IInv ==
  /\ TypeOK
  /\ WaitingPacketKept
  /\ PingIsAnswered
  /\ Idle
  /\ Unprepared
  /\ Counting
  /\ Walk

\* At first there is nothing to keep apart.
LEMMA InitIInv == Init => IInv
<1> SUFFICES ASSUME Init PROVE IInv
  OBVIOUS
<1>1. TypeOK
  <2>1. /\ current \in Interfaces /\ first_failed \in Interfaces \cup {NoIf}
        /\ net_try_count \in 1 .. 2
    BY IfsType DEF Init, Interfaces
  <2>2. /\ arp_wait_try \in 0 .. ARP_TIMEOUT_COUNT
        /\ nprobes \in 0 .. PROBE_NUM /\ nclaims \in 0 .. ANNOUNCE_NUM
        /\ probes \in 0 .. PROBE_NUM /\ claims \in 0 .. ANNOUNCE_NUM + 1
    BY IfsType DEF Init
  <2> QED BY <2>1, <2>2 DEF Init, TypeOK
<1> QED BY <1>1 DEF Init, IInv, WaitingPacketKept, PingIsAnswered, Idle,
                    Unprepared, Counting, Walk

\* Whatever way an operation ends, only "waiting" and the interfaces outlive it.
LEMMA LeaveIInv ==
  ASSUME IInv, Return, time_handler' = "none", waiting' \in {waiting, FALSE},
         UNCHANGED <<arp_wait_try, net_tx_packet>>,
         current' \in Interfaces, first_failed' \in Interfaces \cup {NoIf},
         active' \in BOOLEAN, net_restart_wrap' \in BOOLEAN
  PROVE  IInv'
<1>1. /\ protocol' = "none" /\ phase' = "command" /\ net_state' = "CONTINUE"
      /\ time_handler' = "none" /\ fresh' = FALSE
      /\ net_try_count' = 1 /\ net_restarted' = FALSE /\ llipaddr' = "valid"
      /\ answered' = FALSE /\ tried' = {} /\ probes' = 0 /\ claims' = 0
      /\ UNCHANGED <<netretry, ethrotate, net_ping_ip, ll_state, nprobes,
                     nclaims, net_ip, arp_wait_try, net_tx_packet>>
  BY DEF Return, llVars
<1>2. waiting' \in BOOLEAN /\ (waiting' => waiting)
  <2>1. waiting \in BOOLEAN
    BY DEF IInv, TypeOK
  <2>2. CASE waiting' = waiting
    BY <2>1, <2>2
  <2>3. CASE waiting' = FALSE
    BY <2>3
  <2> QED BY <2>2, <2>3
<1>3. TypeOK'
  <2>1. /\ net_try_count' \in 1 .. 2 /\ probes' \in 0 .. PROBE_NUM
        /\ claims' \in 0 .. ANNOUNCE_NUM + 1
    BY <1>1, IfsType
  <2> QED BY <1>1, <1>2, <2>1 DEF IInv, TypeOK
<1>4. WaitingPacketKept'
  BY <1>1, <1>2 DEF IInv, WaitingPacketKept
<1>5. PingIsAnswered' /\ Idle' /\ Unprepared' /\ Counting' /\ Walk'
  BY <1>1 DEF PingIsAnswered, Idle, Unprepared, Counting, Walk
<1> QED BY <1>3, <1>4, <1>5 DEF IInv

\* The steps of the loop that only go on to what it looks at next
LEMMA PhaseIInv ==
  ASSUME IInv,
         \/ ArpQuiet \/ Received \/ TimerQuiet \/ Continue
         \/ ArpReply \/ Request \/ EchoReply(TRUE) \/ EchoReply(FALSE)
         \/ ArpExpires \/ PingTimeout
  PROVE  IInv'
<1>1. CASE ArpQuiet
  BY <1>1 DEF ArpQuiet, IInv, TypeOK, WaitingPacketKept, PingIsAnswered, Idle,
      Unprepared, Counting, Walk, envVars, tryVars, ethVars, arpVars, llVars,
      llHistory
<1>2. CASE Received
  BY <1>2 DEF Received, IInv, TypeOK, WaitingPacketKept, PingIsAnswered, Idle,
      Unprepared, Counting, Walk, envVars, tryVars, ethVars, arpVars, llVars,
      llHistory
<1>3. CASE TimerQuiet
  BY <1>3 DEF TimerQuiet, IInv, TypeOK, WaitingPacketKept, PingIsAnswered, Idle,
      Unprepared, Counting, Walk, envVars, tryVars, ethVars, arpVars, llVars,
      llHistory
<1>4. CASE Continue
  BY <1>4 DEF Continue, IInv, TypeOK, WaitingPacketKept, PingIsAnswered, Idle,
      Unprepared, Counting, Walk, envVars, tryVars, ethVars, arpVars, llVars,
      llHistory
<1>5. CASE ArpReply
  <2>1. TypeOK'
    <3>1. waiting' = FALSE /\ UNCHANGED <<fresh, net_ping_ip, answered>>
      BY <1>5 DEF ArpReply
    <3>2. {fresh, waiting, net_ping_ip, answered}' \subseteq BOOLEAN
      BY <3>1 DEF IInv, TypeOK
    <3>3. UNCHANGED <<protocol, phase, net_state, netretry, ethrotate, llipaddr,
                      net_try_count, net_restarted, net_restart_wrap, active,
                      current, first_failed, net_ip, time_handler, arp_wait_try,
                      net_tx_packet, ll_state, nprobes, nclaims, tried, probes,
                      claims>>
      BY <1>5 DEF ArpReply, envVars, tryVars, ethVars, llVars, llHistory
    <3> QED BY <3>2, <3>3 DEF IInv, TypeOK
  <2>2. /\ WaitingPacketKept' /\ PingIsAnswered' /\ Idle' /\ Unprepared'
        /\ Counting'
    BY <1>5 DEF ArpReply, IInv, WaitingPacketKept, PingIsAnswered, Idle,
         Unprepared, Counting, envVars, tryVars, ethVars, llVars, llHistory
  <2>3. Walk'
    BY <1>5 DEF ArpReply, IInv, Walk, envVars, tryVars, ethVars, llVars
  <2> QED BY <2>1, <2>2, <2>3 DEF IInv
<1>6. CASE Request
  BY <1>6 DEF Request, AsyncTx, IInv, TypeOK, WaitingPacketKept, PingIsAnswered,
       Idle,
       Unprepared, Counting, Walk, envVars, tryVars, ethVars, llVars, llHistory
<1>7. CASE EchoReply(TRUE)
  <2>1. TypeOK'
    BY <1>7 DEF EchoReply, IInv, TypeOK, envVars, tryVars, ethVars, arpVars, llVars,
         llHistory
  <2>2. /\ WaitingPacketKept' /\ PingIsAnswered' /\ Idle' /\ Unprepared'
        /\ Counting'
    BY <1>7 DEF EchoReply, IInv, WaitingPacketKept, PingIsAnswered, Idle,
        Unprepared, Counting, envVars, tryVars, ethVars, arpVars, llVars,
        llHistory
  <2>3. Walk'
    BY <1>7 DEF EchoReply, IInv, Walk, envVars, tryVars, ethVars, arpVars, llVars
  <2> QED BY <2>1, <2>2, <2>3 DEF IInv
<1>8. CASE EchoReply(FALSE)
  BY <1>8 DEF EchoReply, IInv, TypeOK, WaitingPacketKept, PingIsAnswered, Idle,
      Unprepared, Counting, Walk, envVars, tryVars, ethVars, arpVars, llVars,
      llHistory
<1>9. CASE ArpExpires
  BY <1>9, IfsType DEF ArpExpires, IInv, TypeOK, WaitingPacketKept,
       PingIsAnswered, Idle,
       Unprepared, Counting, Walk, envVars, tryVars, ethVars, llVars, llHistory
<1>10. CASE PingTimeout
  <2>1. TypeOK'
    <3>1. active' = FALSE /\ UNCHANGED <<net_restarted, net_restart_wrap>>
      BY <1>10 DEF PingTimeout, tryVars
    <3>2. {net_restarted, net_restart_wrap, active}' \subseteq BOOLEAN
      BY <3>1 DEF IInv, TypeOK
    <3>3. /\ time_handler' = "none" /\ net_state' = "FAIL" /\ phase' = "state"
          /\ UNCHANGED <<protocol, netretry, ethrotate, llipaddr, net_try_count,
                         current,
                         first_failed, net_ip, fresh, waiting, arp_wait_try,
                         net_tx_packet, net_ping_ip, ll_state, nprobes, nclaims,
                         answered, tried, probes, claims>>
      BY <1>10 DEF PingTimeout, envVars, tryVars, arpVars, llVars, llHistory
    <3> QED BY <3>2, <3>3 DEF IInv, TypeOK
  <2>2. /\ WaitingPacketKept' /\ PingIsAnswered' /\ Idle' /\ Unprepared'
        /\ Counting'
    BY <1>10 DEF PingTimeout, IInv, WaitingPacketKept, PingIsAnswered, Idle,
         Unprepared, Counting, envVars, tryVars, arpVars, llVars, llHistory
  <2>3. Walk'
    BY <1>10 DEF PingTimeout, IInv, Walk, envVars, tryVars, arpVars, llVars
  <2> QED BY <2>1, <2>2, <2>3 DEF IInv
<1> QED BY <1>1, <1>2, <1>3, <1>4, <1>5, <1>6, <1>7, <1>8, <1>9, <1>10

\* The ways out of an operation
LEMMA EndIInv ==
  ASSUME IInv,
         Refused \/ Abort \/ Success \/ Fail \/ Wrapped
  PROVE  IInv'
<1>1. /\ current \in Interfaces /\ first_failed \in Interfaces \cup {NoIf}
      /\ net_restart_wrap \in BOOLEAN /\ FALSE \in BOOLEAN
  BY DEF IInv, TypeOK
<1>2. CASE Refused \/ Success \/ Fail
  <2>1. /\ Return /\ time_handler' = "none" /\ active' = FALSE
        /\ UNCHANGED <<waiting, arp_wait_try, net_tx_packet, current,
                       first_failed, net_restart_wrap>>
    BY <1>2 DEF IInv, Unprepared, Refused, Success, Fail, Halted, Leave, arpVars
  <2> QED BY <1>1, <2>1, LeaveIInv
<1>3. CASE Abort
  <2>1. /\ Return /\ time_handler' = "none" /\ active' = FALSE
        /\ waiting' = FALSE
        /\ UNCHANGED <<arp_wait_try, net_tx_packet, current,
                       first_failed, net_restart_wrap>>
    BY <1>3 DEF Abort, Halted, Leave
  <2> QED BY <1>1, <2>1, LeaveIInv
<1>4. CASE Wrapped
  <2>1. PICK good \in SUBSET Interfaces :
          /\ current' = Moved(good).current
          /\ first_failed' = Moved(good).failed
          /\ active' = Moved(good).active
    BY <1>4 DEF Wrapped
  <2>2. Moved(good) \in EthRec
    BY MovedType DEF IInv
  <2>3. /\ Return /\ time_handler' = "none" /\ net_restart_wrap' = FALSE
        /\ UNCHANGED <<waiting, arp_wait_try, net_tx_packet>>
    BY <1>4 DEF Wrapped, Leave, arpVars
  <2>4. /\ current' \in Interfaces /\ first_failed' \in Interfaces \cup {NoIf}
        /\ active' \in BOOLEAN
    BY <2>1, <2>2 DEF EthRec
  <2> QED BY <1>1, <2>3, <2>4, LeaveIInv
<1> QED BY <1>2, <1>3, <1>4

\* An operation begins on an interface that works, or not at all; none was
\* tried before.
LEMMA EnterIInv ==
  ASSUME IInv, NEW p \in {"PING", "LINKLOCAL"}, Enter(p)
  PROVE  IInv'
<1>1. PICK good \in SUBSET Interfaces :
        /\ current' = EthInit(Eth, good).current
        /\ net_restart_wrap' = EthInit(Eth, good).wrap
        /\ active' = EthInit(Eth, good).active
  BY DEF Enter
<1>2. EthInit(Eth, good) \in EthRec
  <2>1. Eth \in EthRec
    BY DEF Eth, EthRec, IInv, TypeOK
  <2> QED BY <2>1, EthInitFields
<1>3. /\ current' \in Interfaces /\ net_restart_wrap' \in BOOLEAN
      /\ active' \in BOOLEAN
  BY <1>1, <1>2 DEF EthRec
<1>4. net_ping_ip' \in BOOLEAN
  BY DEF Enter
<1>5. /\ phase = "command"
      /\ \/ protocol' = p /\ phase' = "start"
         \/ protocol' = protocol /\ phase' = phase
      /\ llipaddr' \in {"valid", "invalid"}
      /\ UNCHANGED <<net_state, netretry, ethrotate, net_try_count,
                     net_restarted, first_failed, net_ip, time_handler, fresh,
                     waiting, arp_wait_try, net_tx_packet, ll_state, nprobes,
                     nclaims, answered, tried, probes, claims>>
  BY DEF Enter, envVars, tryVars, arpVars, llVars, llHistory
<1>6. TypeOK'
  <2>1. protocol' \in {"none", "PING", "LINKLOCAL"}
          /\ phase' \in {"command", "start", "arp", "receive", "timer", "state"}
    BY <1>5 DEF IInv, TypeOK
  <2> QED BY <1>3, <1>4, <1>5, <2>1 DEF IInv, TypeOK
<1>7. WaitingPacketKept' /\ PingIsAnswered' /\ Idle' /\ Unprepared' /\ Counting'
  BY <1>5 DEF IInv, WaitingPacketKept, PingIsAnswered, Idle,
       Unprepared, Counting
<1>8. Walk'
  BY <1>5 DEF IInv, Idle, Unprepared, Walk
<1> QED BY <1>6, <1>7, <1>8 DEF IInv

\* Once an operation has started, the interface in use is among those tried.
LEMMA StartWalk ==
  ASSUME IInv, phase = "start", phase' = "arp",
         tried' = tried \cup (IF active THEN {current} ELSE {}),
         UNCHANGED <<ethrotate, net_restarted, current, first_failed>>
  PROVE  Walk' /\ tried' \subseteq Interfaces
<1>1. /\ tried \subseteq Interfaces /\ current \in Interfaces
      /\ Ifs \in Nat \ {0}
  BY IfsType DEF IInv, TypeOK
<1>2. tried' \subseteq Interfaces
  BY <1>1
<1>3. ASSUME ethrotate, net_restarted
      PROVE  /\ first_failed \in Interfaces
             /\ \A i \in tried' : Dist(first_failed, i) <= Dist(first_failed, current)
  <2>1. /\ first_failed \in Interfaces
        /\ \A i \in tried : Dist(first_failed, i) < Dist(first_failed, current)
    BY <1>3 DEF IInv, Walk
  <2>2. ASSUME NEW i \in tried'
        PROVE  Dist(first_failed, i) <= Dist(first_failed, current)
    <3>1. Dist(first_failed, i) \in Int /\ Dist(first_failed, current) \in Int
      BY <1>1, <1>2, <2>1, DistType
    <3>2. i \in tried \/ i = current
      BY <2>2
    <3> QED BY <2>1, <3>1, <3>2
  <2> QED BY <2>1, <2>2
<1>4. ASSUME ethrotate, ~net_restarted PROVE tried' \subseteq {current}
  BY <1>4 DEF IInv, Walk
<1> QED BY <1>2, <1>3, <1>4 DEF Walk

\* ping_start() and link_local_start(): what they leave alone is what Counting
\* and WaitingPacketKept are about.
LEMMA StartIInv ==
  ASSUME IInv, PingStart \/ LinkLocalStart \/ LinkLocalRefused
  PROVE  IInv'
<1>1. Walk' /\ tried' \subseteq Interfaces
  BY StartWalk DEF PingStart, LinkLocalStart, LinkLocalRefused, envVars, tryVars,
       ethVars
<1>2. CASE PingStart
  <2>1. /\ phase' = "arp" /\ protocol = "PING" /\ net_state' = "CONTINUE"
        /\ net_ip # "none"
        /\ time_handler' = "ping"
        /\ waiting' = TRUE /\ arp_wait_try' = 1 /\ net_tx_packet' = "ping"
        /\ UNCHANGED <<protocol, netretry, ethrotate, llipaddr, net_try_count,
                       net_restarted, net_restart_wrap, active, current,
                       first_failed, net_ip, fresh, net_ping_ip, ll_state,
                       nprobes, nclaims, answered, probes, claims>>
    BY <1>2 DEF PingStart, envVars, tryVars, ethVars, llVars, llHistory
  <2>2. TypeOK'
    <3>1. {fresh, waiting, net_ping_ip, answered}' \subseteq BOOLEAN
      BY <2>1 DEF IInv, TypeOK
    <3>2. arp_wait_try' \in 0 .. ARP_TIMEOUT_COUNT
      BY <2>1, IfsType
    <3> QED BY <1>1, <2>1, <3>1, <3>2 DEF IInv, TypeOK
  <2>3. /\ WaitingPacketKept' /\ PingIsAnswered' /\ Idle' /\ Unprepared'
        /\ Counting'
    BY <2>1 DEF IInv, WaitingPacketKept, PingIsAnswered, Idle,
         Unprepared, Counting
  <2> QED BY <1>1, <2>2, <2>3 DEF IInv
<1>3. CASE LinkLocalStart
  <2>1. /\ phase' = "arp" /\ protocol = "LINKLOCAL" /\ net_state' = "CONTINUE"
        /\ ll_state' = "PROBE" /\ nprobes' = 0 /\ nclaims' = 0
        /\ probes' = 0 /\ claims' = 0
        /\ time_handler' \in {"none", "ll"}
        /\ UNCHANGED <<protocol, netretry, ethrotate, llipaddr, net_try_count,
                       net_restarted, net_restart_wrap, active, current,
                       first_failed, net_ip, fresh, waiting, arp_wait_try,
                       net_tx_packet, net_ping_ip, answered>>
    BY <1>3 DEF LinkLocalStart, RandomWait, envVars, tryVars, ethVars, arpVars
  <2>2. TypeOK'
    <3>1. /\ nprobes' \in 0 .. PROBE_NUM /\ nclaims' \in 0 .. ANNOUNCE_NUM
          /\ probes' \in 0 .. PROBE_NUM /\ claims' \in 0 .. ANNOUNCE_NUM + 1
      BY <2>1, IfsType
    <3> QED BY <1>1, <2>1, <3>1 DEF IInv, TypeOK
  <2>3. /\ WaitingPacketKept' /\ PingIsAnswered' /\ Idle' /\ Unprepared'
        /\ Counting'
    BY <2>1 DEF IInv, WaitingPacketKept, PingIsAnswered, Idle,
         Unprepared, Counting
  <2> QED BY <1>1, <2>2, <2>3 DEF IInv
<1>4. CASE LinkLocalRefused
  <2>1. /\ phase' = "arp" /\ protocol = "LINKLOCAL" /\ net_state' = "FAIL"
        /\ UNCHANGED <<protocol, netretry, ethrotate, llipaddr, net_try_count,
                       net_restarted, net_restart_wrap, active, current,
                       first_failed, net_ip, time_handler, fresh, waiting,
                       arp_wait_try, net_tx_packet, net_ping_ip, ll_state,
                       nprobes, nclaims, answered, probes, claims>>
    BY <1>4 DEF LinkLocalRefused, envVars, tryVars, ethVars, arpVars, llVars,
         llHistory
  <2>2. TypeOK'
    BY <1>1, <2>1 DEF IInv, TypeOK
  <2>3. /\ WaitingPacketKept' /\ PingIsAnswered' /\ Idle' /\ Unprepared'
        /\ Counting'
    BY <2>1 DEF IInv, WaitingPacketKept, PingIsAnswered, Idle, Unprepared,
         Counting
  <2> QED BY <1>1, <2>2, <2>3 DEF IInv
<1> QED BY <1>2, <1>3, <1>4

\* The link-local timer: one more probe or announcement, or the address.
LEMMA LinkLocalIInv ==
  ASSUME IInv, LinkLocalTimeout
  PROVE  IInv'
<1>1. /\ phase = "timer" /\ phase' = "state"
      /\ protocol = "LINKLOCAL"
      /\ ll_state = "PROBE" => probes = nprobes /\ claims = 0
      /\ ll_state = "ANNOUNCE" => probes = PROBE_NUM /\ claims = nclaims + 1
      /\ UNCHANGED <<protocol, netretry, ethrotate, llipaddr, net_try_count,
                     net_restarted, net_restart_wrap, active, current,
                     first_failed, fresh, waiting, arp_wait_try,
                     net_tx_packet, net_ping_ip, answered, tried>>
  BY DEF LinkLocalTimeout, IInv, Counting, envVars, tryVars, ethVars, arpVars
<1>2. /\ nprobes \in 0 .. PROBE_NUM /\ nclaims \in 0 .. ANNOUNCE_NUM
      /\ PROBE_NUM \in Nat /\ ANNOUNCE_NUM \in Nat
      /\ probes \in 0 .. PROBE_NUM /\ claims \in 0 .. ANNOUNCE_NUM + 1
  BY IfsType DEF IInv, TypeOK
<1>3. SUFFICES /\ ll_state' \in {"PROBE", "ANNOUNCE", "MONITOR"}
               /\ net_state' \in {"CONTINUE", "SUCCESS", "FAIL"}
               /\ net_ip' \in {"none", "own", "ll"}
               /\ time_handler' \in {"none", "ll"}
               /\ nprobes' \in 0 .. PROBE_NUM /\ nclaims' \in 0 .. ANNOUNCE_NUM
               /\ probes' \in 0 .. PROBE_NUM /\ claims' \in 0 .. ANNOUNCE_NUM + 1
               /\ Counting'
  <2>1. ASSUME /\ ll_state' \in {"PROBE", "ANNOUNCE", "MONITOR"}
               /\ net_state' \in {"CONTINUE", "SUCCESS", "FAIL"}
               /\ net_ip' \in {"none", "own", "ll"}
               /\ time_handler' \in {"none", "ll"}
               /\ nprobes' \in 0 .. PROBE_NUM /\ nclaims' \in 0 .. ANNOUNCE_NUM
               /\ probes' \in 0 .. PROBE_NUM /\ claims' \in 0 .. ANNOUNCE_NUM + 1
        PROVE  TypeOK'
    BY <1>1, <2>1 DEF IInv, TypeOK
  <2>2. WaitingPacketKept' /\ PingIsAnswered' /\ Idle' /\ Unprepared'
    BY <1>1 DEF IInv, WaitingPacketKept, PingIsAnswered, Idle, Unprepared
  <2>3. Walk'
    BY <1>1 DEF IInv, Walk
  <2> QED BY <2>1, <2>2, <2>3 DEF IInv
<1>4. CASE Probe
  <2>1. /\ ll_state = "PROBE" /\ time_handler' = "ll"
        /\ UNCHANGED <<net_state, net_ip>>
    BY <1>4 DEF Probe
  <2>2. CASE nprobes < PROBE_NUM
    <3>1. /\ nprobes' = nprobes + 1 /\ probes' = probes + 1
          /\ UNCHANGED <<ll_state, nclaims, claims>>
      BY <1>4, <2>2 DEF Probe
    <3> QED BY <1>1, <1>2, <2>1, <2>2, <3>1 DEF Counting, IInv, TypeOK
  <2>3. CASE ~(nprobes < PROBE_NUM)
    <3>1. /\ ll_state' = "ANNOUNCE" /\ nclaims' = 0 /\ claims' = claims + 1
          /\ UNCHANGED <<nprobes, probes>>
      BY <1>4, <2>3 DEF Probe
    <3> QED BY <1>1, <1>2, <2>1, <2>3, <3>1 DEF Counting, IInv, TypeOK
  <2> QED BY <2>2, <2>3
<1>5. CASE Announce
  <2>1. ll_state = "ANNOUNCE" /\ UNCHANGED <<nprobes, probes>>
    BY <1>5 DEF Announce
  <2>2. CASE nclaims < ANNOUNCE_NUM
    <3>1. /\ nclaims' = nclaims + 1 /\ claims' = claims + 1
          /\ time_handler' = "ll"
          /\ UNCHANGED <<ll_state, net_state, net_ip>>
      BY <1>5, <2>2 DEF Announce
    <3> QED BY <1>1, <1>2, <2>1, <2>2, <3>1 DEF Counting, IInv, TypeOK
  <2>3. CASE ~(nclaims < ANNOUNCE_NUM)
    <3>1. /\ ll_state' = "MONITOR" /\ net_ip' = "ll" /\ time_handler' = "none"
          /\ net_state' = "SUCCESS" /\ UNCHANGED <<nclaims, claims>>
      BY <1>5, <2>3 DEF Announce
    <3> QED BY <1>1, <1>2, <2>1, <2>3, <3>1 DEF Counting
  <2> QED BY <2>2, <2>3
<1> QED BY <1>4, <1>5 DEF LinkLocalTimeout

\* Another interface is tried: one further round the ring than all before.
LEMMA RestartIInv ==
  ASSUME IInv, Restart
  PROVE  IInv'
<1>1. PICK good \in SUBSET Interfaces :
        /\ ~Moved(good).wrap
        /\ current' = Moved(good).current
        /\ first_failed' = Moved(good).failed
        /\ active' = Moved(good).active
  BY DEF Restart
<1>2. /\ current' \in Interfaces /\ first_failed' \in Interfaces \cup {NoIf}
      /\ active' \in BOOLEAN
  BY <1>1, MovedType DEF IInv, EthRec
<1>3. /\ phase = "state" /\ phase' = "start" /\ net_state = "FAIL"
      /\ net_restarted' = TRUE
      /\ UNCHANGED <<protocol, net_state, netretry, ethrotate, llipaddr,
                     net_restart_wrap, net_ip, time_handler, fresh, waiting,
                     arp_wait_try, net_tx_packet, net_ping_ip, ll_state,
                     nprobes, nclaims, answered, tried, probes, claims>>
  BY DEF Restart, envVars, arpVars, llVars, llHistory
<1>4. net_try_count' \in 1 .. 2
  <2>1. net_try_count \in 1 .. 2 /\ netretry \in {"no", "once", "yes"}
    BY DEF IInv, TypeOK
  <2>2. netretry = "yes" \/ net_try_count <= 1
    BY <2>1 DEF Restart, MayRetry
  <2>3. net_try_count' = IF netretry = "yes" THEN net_try_count ELSE net_try_count + 1
    BY DEF Restart
  <2> QED BY <2>1, <2>2, <2>3
<1>5. TypeOK'
  <2>1. {net_restarted, net_restart_wrap, active}' \subseteq BOOLEAN
    BY <1>2, <1>3 DEF IInv, TypeOK
  <2> QED BY <1>2, <1>3, <1>4, <2>1 DEF IInv, TypeOK
<1>6. WaitingPacketKept' /\ PingIsAnswered' /\ Idle' /\ Unprepared' /\ Counting'
  BY <1>3 DEF IInv, WaitingPacketKept, PingIsAnswered, Idle,
       Unprepared, Counting
<1>7. Walk'
  <2> SUFFICES ASSUME ethrotate
               PROVE  /\ first_failed' \in Interfaces
                      /\ \A i \in tried : Dist(first_failed', i)
                                            < Dist(first_failed', current')
    BY <1>3 DEF Walk
  <2>1. /\ FirstFailed \in Interfaces /\ tried \subseteq Interfaces
        /\ current \in Interfaces /\ Ifs \in Nat \ {0}
    BY <1>3, IfsType DEF IInv, Walk, TypeOK, FirstFailed
  <2>2. \A i \in tried : Dist(FirstFailed, i) <= Dist(FirstFailed, current)
    <3>1. CASE net_restarted
      BY <1>3, <3>1 DEF IInv, Walk, FirstFailed
    <3>2. CASE ~net_restarted
      <4>1. tried \subseteq {current}
        BY <1>3, <3>2 DEF IInv, Walk
      <4>2. Dist(FirstFailed, current) \in Int
        BY <2>1, DistType
      <4> QED BY <4>1, <4>2
    <3> QED BY <3>1, <3>2
  <2>3. /\ first_failed' = FirstFailed
        /\ Dist(FirstFailed, current') > Dist(FirstFailed, current)
    BY <1>1, <2>1, MovedOn DEF IInv
  <2>4. ASSUME NEW i \in tried
        PROVE  Dist(FirstFailed, i) < Dist(FirstFailed, current')
    <3> DEFINE x == Dist(FirstFailed, i)
               y == Dist(FirstFailed, current)
               z == Dist(FirstFailed, current')
    <3>1. x \in Int /\ y \in Int /\ z \in Int
      BY <1>2, <2>1, DistType
    <3>2. x <= y /\ z > y
      BY <2>2, <2>3
    <3> HIDE DEF x, y, z
    <3>3. x < z
      BY <3>1, <3>2
    <3> QED BY <3>3 DEF x, z
  <2> QED BY <2>1, <2>3, <2>4
<1> QED BY <1>5, <1>6, <1>7 DEF IInv

\* Every step of the loop, and of the commands around it, keeps the invariant.
LEMMA NextIInv == IInv /\ [Next]_vars => IInv'
<1> SUFFICES ASSUME IInv, [Next]_vars PROVE IInv'
  OBVIOUS
<1>1. CASE SetEnv
  <2>1. /\ phase = "command"
        /\ net_ip' \in {net_ip, "none", "own"}
        /\ netretry' \in {netretry, "no", "once", "yes"}
        /\ ethrotate' \in BOOLEAN
        /\ UNCHANGED <<llipaddr, protocol, phase, net_state, net_try_count,
                       net_restarted, net_restart_wrap, active, current,
                       first_failed, time_handler, fresh, waiting,
                       arp_wait_try, net_tx_packet, net_ping_ip, ll_state,
                       nprobes, nclaims, answered, tried, probes, claims>>
    <3>1. ethrotate \in BOOLEAN
      BY DEF IInv, TypeOK
    <3> QED BY <1>1, <3>1 DEF SetEnv, tryVars, ethVars, arpVars, llVars,
              llHistory
  <2>2. TypeOK'
    BY <2>1 DEF IInv, TypeOK
  <2> QED BY <2>1, <2>2 DEF IInv, WaitingPacketKept, PingIsAnswered, Idle,
                            Unprepared, Counting, Walk
<1>2. CASE Enter("PING") \/ Enter("LINKLOCAL")
  BY <1>2, EnterIInv
<1>3. CASE PingStart \/ LinkLocalStart \/ LinkLocalRefused
  BY <1>3, StartIInv
<1>4. CASE Refused \/ Abort \/ Success \/ Fail \/ Wrapped
  BY <1>4, EndIInv
<1>5. CASE \/ ArpQuiet \/ Received \/ TimerQuiet \/ Continue
           \/ ArpReply \/ Request \/ EchoReply(TRUE) \/ EchoReply(FALSE)
           \/ ArpExpires \/ PingTimeout
  BY <1>5, PhaseIInv
<1>6. CASE LinkLocalTimeout
  BY <1>6, LinkLocalIInv
<1>7. CASE Restart
  BY <1>7, RestartIInv
<1>8. CASE UNCHANGED vars
  BY <1>8 DEF vars, envVars, tryVars, ethVars, arpVars, llVars, llHistory, IInv,
       TypeOK, WaitingPacketKept, PingIsAnswered, Idle,
       Unprepared, Counting, Walk
<1> QED BY <1>1, <1>2, <1>3, <1>4, <1>5, <1>6, <1>7, <1>8 DEF Next

\* The inductive invariant holds in every reachable state.
THEOREM Invariance == Spec => []IInv
BY InitIInv, NextIInv, PTL DEF Spec

\* The types, and the packet that waits for an Ethernet address: no answer to
\* another host is built over it, in this operation or a later one
\* (net_get_async_tx_pkt_buf).
THEOREM PacketAlwaysSafe == Spec => []PacketSafe
<1>1. IInv => PacketSafe
  BY DEF IInv, PacketSafe
<1> QED BY <1>1, Invariance, PTL

\* A ping succeeds on its own answer only (ping_receive), whatever the
\* operations before it left behind.
THEOREM PingAlwaysAnswered == Spec => []PingIsAnswered
<1>1. IInv => PingIsAnswered
  BY DEF IInv
<1> QED BY <1>1, Invariance, PTL

\* With any number of interfaces, an operation starts on each at most once
\* while they rotate (eth_try_another, eth_init, net_start_again).
THEOREM NeverTriedTwice == Spec => []NoneTriedTwice
<1>1. IInv => NoneTriedTwice
  <2> SUFFICES ASSUME IInv, phase = "start", ethrotate, current \in tried
               PROVE  FALSE
    BY DEF NoneTriedTwice
  <2>1. net_restarted /\ first_failed \in Interfaces /\ current \in Interfaces
          /\ Dist(first_failed, current) < Dist(first_failed, current)
    BY DEF IInv, Walk, TypeOK
  <2>2. Dist(first_failed, current) \in Int
    BY <2>1, IfsType, DistType
  <2> QED BY <2>1, <2>2
<1> QED BY <1>1, Invariance, PTL

\* The address of a search is taken after PROBE_NUM probes and
\* ANNOUNCE_NUM + 1 announcements of that search (link_local_timeout).
THEOREM AddressAlwaysClaimed == Spec => AddressWasClaimed
<1>1. ASSUME IInv, [Next]_vars, ll_state # "MONITOR", ll_state' = "MONITOR"
      PROVE  net_ip' = "ll" /\ probes = PROBE_NUM /\ claims = ANNOUNCE_NUM + 1
  <2>1. LinkLocalTimeout
    BY <1>1 DEF Next, vars, llVars, Return, Leave, SetEnv, Enter, Refused,
         PingStart, LinkLocalStart, LinkLocalRefused, ArpQuiet, ArpExpires,
         ArpReply, Request, EchoReply,
         Received, Abort, TimerQuiet, PingTimeout, Continue, Success, Fail,
         Restart, Wrapped
  <2>2. Announce
    BY <1>1, <2>1 DEF LinkLocalTimeout, Probe
  <2>3. /\ ll_state = "ANNOUNCE" /\ ~(nclaims < ANNOUNCE_NUM) /\ net_ip' = "ll"
    BY <1>1, <2>2 DEF Announce
  <2>4. /\ probes = PROBE_NUM /\ claims = nclaims + 1
        /\ nclaims \in 0 .. ANNOUNCE_NUM /\ ANNOUNCE_NUM \in Nat
    BY <1>1, <2>1, <2>3, IfsType DEF LinkLocalTimeout, IInv, Counting, TypeOK
  <2> QED BY <2>3, <2>4
<1>2. IInv /\ [Next]_vars =>
        [ll_state # "MONITOR" /\ ll_state' = "MONITOR" =>
           net_ip' = "ll" /\ probes = PROBE_NUM /\ claims = ANNOUNCE_NUM + 1]_vars
  BY <1>1
<1> QED BY <1>2, Invariance, PTL DEF Spec, AddressWasClaimed

-----------------------------------------------------------------------------
(***************************************************************************)
(* Dhcp, for any number of restarts, retransmissions and remembered        *)
(* transaction IDs: an address comes from an answer to a request of this   *)
(* very command.  The invariant ties the remembered IDs to the requests    *)
(* counted in sent: an ID is an age, and grows with each of them.          *)
(***************************************************************************)
\* A transaction ID that bootp_ids remembers is one this command sent, or one
\* of an earlier command: its age is below the number of requests sent.
AgeKnown(a) == a < sent \/ a = Old

\* Only IDs of sent requests are remembered; with an address no request is
\* repeated; and the address is leased for a request of one's own.
LeaseOwnInv ==
  /\ \A i \in DOMAIN bootp_ids : AgeKnown(bootp_ids[i])
  /\ net_ip # "none" => time_handler # "bootp"
  /\ LeaseIsOwn

\* The inductive invariant.
LeaseInv == DhcpTypeOK /\ LeaseOwnInv

\* What the assumption on the constants says, number by number.
LEMMA LeaseNumbers ==
  /\ {IdCache, LongWords, ReplyLifetime} \subseteq Nat \ {0}
  /\ LongWords <= IdCache
  /\ MaxRetransmits \in Nat
  /\ "none" \notin Servers
  /\ Old = ReplyLifetime + 1
BY DhcpAssumption DEF Old

\* Ages are capped.
LEMMA OlderType ==
  ASSUME NEW a \in 0 .. Old
  PROVE  Older(a) \in 0 .. Old
BY LeaseNumbers DEF Older

\* bootp_add_id() keeps the array within CONFIG_BOOTP_ID_CACHE_SIZE, even with
\* memmove() given words for bytes, and adds no ID but the new one.
LEMMA AddIdKeeps ==
  ASSUME NEW n \in 0 .. IdCache, NEW ids \in [1 .. n -> 0 .. Old]
  PROVE  /\ AddId(ids) \in UNION {[1 .. k -> 0 .. Old] : k \in 0 .. IdCache}
         /\ \A i \in DOMAIN AddId(ids) :
              AddId(ids)[i] = 0 \/ \E j \in DOMAIN ids : AddId(ids)[i] = ids[j]
<1>1. ids \in Seq(0 .. Old) /\ Len(ids) = n /\ n \in Nat
  BY LeaseNumbers
<1>2. 0 \in 0 .. Old
  BY LeaseNumbers
<1>3. CASE n < IdCache
  <2> DEFINE t == Append(ids, 0)
  <2>1. AddId(ids) = t
    BY <1>1, <1>3 DEF AddId
  <2>0. /\ t \in Seq(0 .. Old) /\ Len(t) = n + 1
        /\ \A i \in 1 .. n : t[i] = ids[i]
        /\ t[n + 1] = 0
    <3> HIDE DEF Old
    <3> QED BY <1>1, <1>2
  <2>2. /\ t \in [1 .. n + 1 -> 0 .. Old]
        /\ \A i \in 1 .. n : t[i] = ids[i]
        /\ t[n + 1] = 0
    <3> HIDE DEF t, Old
    <3> QED BY <2>0, LenProperties
  <2>3. n + 1 \in 0 .. IdCache
    BY <1>1, <1>3, LeaseNumbers
  <2> HIDE DEF t
  <2>4. ASSUME NEW i \in 1 .. n + 1
        PROVE  t[i] = 0 \/ \E j \in 1 .. n : t[i] = ids[j]
    <3>1. i = n + 1 \/ i \in 1 .. n
      BY <1>1
    <3> QED BY <2>2, <3>1
  <2> QED BY <2>1, <2>2, <2>3, <2>4
<1>4. CASE ~(n < IdCache)
  <2>1. n = IdCache
    BY <1>4, LeaseNumbers
  <2> DEFINE t == [i \in 1 .. IdCache |->
                     CASE i = IdCache -> 0
                       [] i <= IdCache - LongWords -> ids[i + 1]
                       [] OTHER -> ids[i]]
  <2>2. AddId(ids) = t
    BY <1>1, <2>1, LeaseNumbers DEF AddId
  <2>3. ASSUME NEW i \in 1 .. IdCache
        PROVE  t[i] \in 0 .. Old /\
                 (t[i] = 0 \/ \E j \in 1 .. n : t[i] = ids[j])
    <3>1. CASE i = IdCache
      <4>1. t[i] = 0
        BY <3>1, LeaseNumbers
      <4> QED BY <1>2, <4>1
    <3>2. CASE i # IdCache /\ i <= IdCache - LongWords
      <4>1. i + 1 \in 1 .. n
        BY <2>1, <3>2, LeaseNumbers
      <4>2. t[i] = ids[i + 1]
        BY <3>2
      <4> QED BY <4>1, <4>2
    <3>3. CASE i # IdCache /\ ~(i <= IdCache - LongWords)
      <4>1. t[i] = ids[i] /\ i \in 1 .. n
        BY <2>1, <3>3
      <4> QED BY <4>1
    <3> QED BY <3>1, <3>2, <3>3
  <2>4. t \in [1 .. IdCache -> 0 .. Old]
    <3>1. t = [i \in 1 .. IdCache |-> t[i]]
      OBVIOUS
    <3> HIDE DEF t
    <3> QED BY <2>3, <3>1
  <2>5. IdCache \in 0 .. IdCache
    BY LeaseNumbers
  <2> HIDE DEF t
  <2> QED BY <2>2, <2>3, <2>4, <2>5
<1> QED BY <1>3, <1>4, LeaseNumbers

\* BootpRequest() remembers the new ID and ages the others: all are still of
\* requests that were sent.
LEMMA RequestKeeps ==
  ASSUME DhcpTypeOK, NEW ids, NEW before \in 0 .. Old,
         ids \in UNION {[1 .. n -> 0 .. Old] : n \in 0 .. IdCache},
         \A i \in DOMAIN ids : ids[i] < before \/ ids[i] = Old,
         BootpRequest(ids, before)
  PROVE  /\ bootp_ids' \in UNION {[1 .. n -> 0 .. Old] : n \in 0 .. IdCache}
         /\ \A i \in DOMAIN bootp_ids' : bootp_ids'[i] < sent' \/
              bootp_ids'[i] = Old
         /\ sent' \in 0 .. Old
         /\ dhcp_requests' \subseteq Ids \X Servers
<1> DEFINE aged == [i \in DOMAIN ids |-> Older(ids[i])]
<1>1. PICK n \in 0 .. IdCache : ids \in [1 .. n -> 0 .. Old]
  OBVIOUS
<1>2. aged \in [1 .. n -> 0 .. Old]
  BY <1>1, OlderType
<1>3. bootp_ids' = AddId(aged) /\ sent' = Older(before)
        /\ dhcp_requests' \subseteq Ids \X Servers
  BY DEF BootpRequest
<1>4. sent' \in 0 .. Old /\ sent' > 0
  BY <1>3, OlderType, LeaseNumbers DEF Older
<1>5. ASSUME NEW i \in 1 .. n PROVE aged[i] < sent' \/ aged[i] = Old
  <2>1. ids[i] \in 0 .. Old /\ aged[i] = Older(ids[i])
    BY <1>1
  <2>2. ids[i] < before \/ ids[i] = Old
    BY <1>1
  <2> QED BY <1>3, <2>1, <2>2, LeaseNumbers DEF Older
<1>6. DOMAIN aged = 1 .. n
  BY <1>2
<1> HIDE DEF aged
<1>7. /\ bootp_ids' \in UNION {[1 .. k -> 0 .. Old] : k \in 0 .. IdCache}
      /\ \A i \in DOMAIN bootp_ids' :
           bootp_ids'[i] = 0 \/ \E j \in DOMAIN aged : bootp_ids'[i] = aged[j]
  BY <1>2, <1>3, AddIdKeeps
<1> QED BY <1>3, <1>4, <1>5, <1>6, <1>7

\* U-Boot starts in the invariant.
LEMMA LeaseInvInit ==
  ASSUME DhcpInit
  PROVE  LeaseInv
<1>1. bootp_ids \in [1 .. 0 -> 0 .. Old] /\ 0 \in 0 .. IdCache
  BY LeaseNumbers DEF DhcpInit
<1>2. DhcpTypeOK
  <2>1. bootp_ids \in UNION {[1 .. n -> 0 .. Old] : n \in 0 .. IdCache}
    BY <1>1
  <2>2. timeouts \in 0 .. MaxRetransmits /\ sent \in 0 .. Old
    BY LeaseNumbers DEF DhcpInit
  <2>3. net_try_count \in 1 .. 2 /\ dhcp_requests \subseteq Ids \X Servers
    BY DEF DhcpInit
  <2>4. {autoload, active} \subseteq BOOLEAN
    BY DEF DhcpInit
  <2>5. {net_ip, dhcp_server_ip} \subseteq Servers \cup {"none"}
    BY DEF DhcpInit
  <2>6. /\ phase \in {"command", "start", "loop"}
        /\ net_state \in {"CONTINUE", "SUCCESS", "FAIL", "RESTART"}
        /\ netretry \in {"no", "once", "yes"}
        /\ time_handler \in {"none", "bootp", "again"}
        /\ udp_handler \in {"none", "dhcp", "tftp"}
        /\ dhcp_state \in {"INIT", "SELECTING", "REQUESTING", "BOUND"}
    BY DEF DhcpInit
  <2> QED BY <2>1, <2>2, <2>3, <2>4, <2>5, <2>6 DEF DhcpTypeOK
<1> QED BY <1>1, <1>2 DEF DhcpInit, LeaseInv, LeaseOwnInv, LeaseIsOwn

\* What net_start_again() changes.
LEMMA LeaseStartAgain ==
  ASSUME DhcpTypeOK, DhcpStartAgain
  PROVE  /\ active' \in BOOLEAN
         /\ net_state' \in {"CONTINUE", "SUCCESS", "FAIL", "RESTART"}
         /\ net_try_count' \in 1 .. 2
         /\ time_handler' \in {time_handler, "again"}
         /\ udp_handler' \in {udp_handler, "none"}
<1>1. active' \in BOOLEAN
  BY DEF DhcpStartAgain
<1>2. net_try_count' \in 1 .. 2
  <2>1. net_try_count \in 1 .. 2 /\ netretry \in {"no", "once", "yes"}
    BY DEF DhcpTypeOK
  <2>2. CASE net_try_count' = net_try_count \/ net_try_count' = 1
    BY <2>1, <2>2
  <2>3. CASE net_try_count' = net_try_count + 1 /\ netretry # "yes" /\ ~Refuses
    BY <2>1, <2>3 DEF Refuses
  <2> QED BY <2>2, <2>3 DEF DhcpStartAgain
<1> QED BY <1>1, <1>2 DEF DhcpStartAgain, DhcpTypeOK

\* Every handler, timeout and way out of net_loop() keeps the invariant.
LEMMA LeaseInvNext ==
  ASSUME LeaseInv, [DhcpNext]_dhcpVars
  PROVE  LeaseInv'
<1>1. DhcpTypeOK /\ LeaseOwnInv
  BY DEF LeaseInv
<1>2. CASE DhcpEnter
  <2>1. DhcpTypeOK'
    BY <1>1, <1>2 DEF DhcpEnter, DhcpTypeOK
  <2>2. LeaseOwnInv'
    BY <1>1, <1>2 DEF DhcpEnter, LeaseOwnInv, AgeKnown, LeaseIsOwn
  <2> QED BY <2>1, <2>2 DEF LeaseInv
<1>3. CASE Start
  <2>1. /\ phase' = "loop" /\ net_state' = "CONTINUE" /\ net_ip' = "none"
        /\ timeouts' = 0 /\ BootpRequest(<<>>, 0)
        /\ UNCHANGED <<dhcpEnvVars, net_try_count, active, dhcp_server_ip>>
    BY <1>3 DEF Start, Reset
  <2>2. <<>> \in UNION {[1 .. n -> 0 .. Old] : n \in 0 .. IdCache}
    <3>1. <<>> \in [1 .. 0 -> 0 .. Old] /\ 0 \in 0 .. IdCache
      BY LeaseNumbers
    <3> QED BY <3>1
  <2>3. DOMAIN <<>> = {} /\ 0 \in 0 .. Old
    BY LeaseNumbers
  <2>4. /\ bootp_ids' \in UNION {[1 .. n -> 0 .. Old] : n \in 0 .. IdCache}
        /\ \A i \in DOMAIN bootp_ids' : bootp_ids'[i] < sent' \/
             bootp_ids'[i] = Old
        /\ sent' \in 0 .. Old /\ dhcp_requests' \subseteq Ids \X Servers
    BY <1>1, <2>1, <2>2, <2>3, RequestKeeps
  <2>5. DhcpTypeOK'
    BY <1>1, <2>1, <2>4, LeaseNumbers DEF DhcpTypeOK, BootpRequest, dhcpEnvVars
  <2> QED BY <2>1, <2>4, <2>5 DEF LeaseInv, LeaseOwnInv, AgeKnown, LeaseIsOwn
<1>4. ASSUME NEW id \in Ids, NEW s \in Servers, Select(id, s) PROVE LeaseInv'
  <2>1. DhcpTypeOK'
    BY <1>1, <1>4 DEF Select, DhcpTypeOK, dhcpEnvVars
  <2>2. net_ip = "none"
    BY <1>1, <1>4 DEF Select, LeaseOwnInv, LeaseIsOwn
  <2> QED BY <1>1, <1>4, <2>1, <2>2
          DEF Select, LeaseInv, LeaseOwnInv, AgeKnown, LeaseIsOwn
<1>5. ASSUME NEW id \in Ids, NEW s \in Servers, Ack(id, s) PROVE LeaseInv'
  <2>1. DhcpTypeOK'
    BY <1>1, <1>5 DEF Ack, AutoLoad, DhcpTypeOK, dhcpEnvVars
  <2>2. id < sent
    <3>1. PICK i \in DOMAIN bootp_ids : bootp_ids[i] = id
      BY <1>5 DEF Ack, Hears, Known
    <3>2. id # Old
      BY LeaseNumbers DEF Ids
    <3> QED BY <1>1, <3>1, <3>2 DEF LeaseOwnInv, AgeKnown
  <2>3. LeaseIsOwn'
    BY <1>5, <2>2 DEF Ack, LeaseIsOwn
  <2>4. (\A i \in DOMAIN bootp_ids : AgeKnown(bootp_ids[i]))'
    BY <1>1, <1>5 DEF Ack, LeaseOwnInv, AgeKnown
  <2>5. time_handler' # "bootp"
    BY <1>5 DEF Ack
  <2> QED BY <2>1, <2>3, <2>4, <2>5 DEF LeaseInv, LeaseOwnInv
<1>6. CASE Retransmit
  <2>1. /\ time_handler = "bootp" /\ timeouts' = timeouts + 1
        /\ timeouts < MaxRetransmits
        /\ BootpRequest(bootp_ids, sent)
        /\ UNCHANGED <<phase, net_state, dhcpEnvVars, net_try_count, active,
             net_ip,
                       dhcp_server_ip>>
    BY <1>6 DEF Retransmit
  <2>2. /\ bootp_ids \in UNION {[1 .. n -> 0 .. Old] : n \in 0 .. IdCache}
        /\ sent \in 0 .. Old
        /\ \A i \in DOMAIN bootp_ids : bootp_ids[i] < sent \/ bootp_ids[i] = Old
    BY <1>1 DEF DhcpTypeOK, LeaseOwnInv, AgeKnown
  <2>3. /\ bootp_ids' \in UNION {[1 .. n -> 0 .. Old] : n \in 0 .. IdCache}
        /\ \A i \in DOMAIN bootp_ids' : bootp_ids'[i] < sent' \/
             bootp_ids'[i] = Old
        /\ sent' \in 0 .. Old /\ dhcp_requests' \subseteq Ids \X Servers
    BY <1>1, <2>1, <2>2, RequestKeeps
  <2>4. timeouts' \in 0 .. MaxRetransmits
    BY <1>1, <2>1, LeaseNumbers DEF DhcpTypeOK
  <2>5. DhcpTypeOK'
    BY <1>1, <2>1, <2>3, <2>4 DEF DhcpTypeOK, BootpRequest, dhcpEnvVars
  <2>6. net_ip' = "none"
    BY <1>1, <2>1 DEF LeaseOwnInv
  <2> QED BY <2>3, <2>5, <2>6 DEF LeaseInv, LeaseOwnInv, AgeKnown, LeaseIsOwn
<1>7. CASE GiveUp \/ Load \/ FailAgain
  <2>1. UNCHANGED <<dhcpEnvVars, dhcp_state, bootp_ids, timeouts, net_ip,
                    dhcp_server_ip, sent, dhcp_requests, phase>>
    BY <1>7 DEF GiveUp, Load, FailAgain
  <2>2. /\ active' \in BOOLEAN
        /\ net_state' \in {"CONTINUE", "SUCCESS", "FAIL", "RESTART"}
        /\ net_try_count' \in 1 .. 2
        /\ time_handler' \in {time_handler, "again"}
        /\ udp_handler' \in {udp_handler, "none"}
    <3>1. CASE DhcpStartAgain
      BY <1>1, <3>1, LeaseStartAgain
    <3>2. CASE ~DhcpStartAgain
      BY <1>1, <1>7, <3>2 DEF GiveUp, Load, FailAgain, DhcpTypeOK
    <3> QED BY <3>1, <3>2
  <2>3. DhcpTypeOK'
    BY <1>1, <2>1, <2>2 DEF DhcpTypeOK, dhcpEnvVars
  <2> QED BY <1>1, <2>1, <2>2, <2>3
          DEF LeaseInv, LeaseOwnInv, AgeKnown, LeaseIsOwn
<1>8. CASE PauseOver \/ DhcpRestart \/ DhcpAbort \/ DhcpSuccess \/ DhcpFail \/
             FailDespiteTimer
  <2>1. /\ UNCHANGED <<dhcpEnvVars, dhcp_state, bootp_ids, timeouts, net_ip,
                       dhcp_server_ip, sent, dhcp_requests, net_try_count>>
        /\ phase' \in {phase, "command", "start"}
        /\ net_state' \in {net_state, "CONTINUE", "RESTART"}
        /\ time_handler' \in {time_handler, "none"}
        /\ udp_handler' \in {udp_handler, "none"}
        /\ active' \in {active} \cup BOOLEAN
    BY <1>8 DEF PauseOver, DhcpRestart, DhcpAbort, DhcpSuccess, DhcpFail,
       FailDespiteTimer, DhcpLeave
  <2>2. DhcpTypeOK'
    BY <1>1, <2>1 DEF DhcpTypeOK, dhcpEnvVars
  <2> QED BY <1>1, <2>1, <2>2 DEF LeaseInv, LeaseOwnInv, AgeKnown, LeaseIsOwn
<1>9. CASE UNCHANGED dhcpVars
  BY <1>1, <1>9 DEF dhcpVars, dhcpEnvVars, LeaseInv, DhcpTypeOK, LeaseOwnInv,
     AgeKnown, LeaseIsOwn
<1> QED BY <1>2, <1>3, <1>4, <1>5, <1>6, <1>7, <1>8, <1>9 DEF DhcpNext

\* An address U-Boot uses is one a server gave it in an answer to a request of
\* this command, for any servers, ID cache and number of retries.
THEOREM LeaseAlwaysSound ==
  DhcpSpec => []LeaseSound
<1>1. DhcpInit => LeaseInv
  BY LeaseInvInit
<1>2. LeaseInv /\ [DhcpNext]_dhcpVars => LeaseInv'
  BY LeaseInvNext
<1>3. LeaseInv => LeaseSound
  BY DEF LeaseInv, LeaseOwnInv, LeaseSound
<1> QED BY <1>1, <1>2, <1>3, PTL DEF DhcpSpec

\* The ids of a try in the order of their requests, the newest last
Ordered(ids, n) ==
  /\ ids \in [1 .. n -> 0 .. Old]
  /\ \A i \in 1 .. n : ids[i] = IF n - i < Old THEN n - i ELSE Old

\* All ids of a try are known until the cache is full; after that, the newest is.
IdsRecent ==
  IF dhcp_state = "INIT" THEN time_handler # "bootp"
  ELSE \/ timeouts < IdCache /\ Ordered(bootp_ids, timeouts + 1)
       \/ /\ timeouts >= IdCache
          /\ bootp_ids \in [1 .. IdCache -> 0 .. Old]
          /\ bootp_ids[IdCache] = 0

\* What a request does to the cache before it is full ...
LEMMA RequestOrders ==
  ASSUME NEW n \in Nat, n < IdCache, NEW ids, Ordered(ids, n), NEW before,
         BootpRequest(ids, before)
  PROVE  Ordered(bootp_ids', n + 1)
<1> DEFINE aged == [i \in DOMAIN ids |-> Older(ids[i])]
<1>1. IdCache \in Nat \ {0} /\ Old \in Nat \ {0}
  BY LeaseNumbers
<1>2. aged \in [1 .. n -> 0 .. Old]
  BY OlderType DEF Ordered
<1>3. ASSUME NEW i \in 1 .. n
      PROVE  aged[i] = IF n - i + 1 < Old THEN n - i + 1 ELSE Old
  <2>1. aged[i] = Older(ids[i])
    BY DEF Ordered
  <2> DEFINE d == n - i
  <2>2. d \in Nat /\ ids[i] = IF d < Old THEN d ELSE Old
    BY DEF Ordered
  <2> HIDE DEF d
  <2>3. Older(ids[i]) = IF d + 1 < Old THEN d + 1 ELSE Old
    BY <1>1, <2>2 DEF Older
  <2> QED BY <2>1, <2>3 DEF d
<1>4. bootp_ids' = AddId(aged)
  BY DEF BootpRequest
<1> HIDE DEF aged
<1>5. aged \in Seq(0 .. Old) /\ Len(aged) = n
  <2> HIDE DEF Old
  <2>1. aged \in UNION {[1 .. m -> 0 .. Old] : m \in Nat}
    BY <1>2
  <2>2. aged \in Seq(0 .. Old)
    BY <2>1, SeqDef, Zenon
  <2>3. DOMAIN aged = 1 .. n
    BY <1>2
  <2> QED BY <2>2, <2>3, LenProperties
<1> DEFINE t == Append(aged, 0)
<1>6. AddId(aged) = t
  BY <1>5 DEF AddId
<1>7. /\ t \in Seq(0 .. Old) /\ Len(t) = n + 1
      /\ \A i \in 1 .. n : t[i] = aged[i]
      /\ t[n + 1] = 0
  <2> HIDE DEF Old
  <2>1. 0 \in 0 .. Old
    BY <1>1
  <2> QED BY <1>5, <2>1
<1>8. t \in [1 .. n + 1 -> 0 .. Old]
  <2> HIDE DEF t, Old
  <2> QED BY <1>7, LenProperties
<1> HIDE DEF t
<1>9. ASSUME NEW i \in 1 .. n + 1
      PROVE  t[i] = IF n + 1 - i < Old THEN n + 1 - i ELSE Old
  <2>1. CASE i = n + 1
    BY <1>1, <1>7, <2>1
  <2>2. CASE i # n + 1
    <3>1. i \in 1 .. n
      BY <2>2
    <3> QED BY <1>1, <1>3, <1>7, <3>1
  <2> QED BY <2>1, <2>2
<1> QED BY <1>4, <1>6, <1>8, <1>9 DEF Ordered

\* ... and once it is
LEMMA RequestIsNewest ==
  ASSUME NEW ids \in [1 .. IdCache -> 0 .. Old], NEW before,
         BootpRequest(ids, before)
  PROVE  /\ bootp_ids' \in [1 .. IdCache -> 0 .. Old]
         /\ bootp_ids'[IdCache] = 0
<1> DEFINE aged == [i \in DOMAIN ids |-> Older(ids[i])]
<1>1. /\ IdCache \in Nat \ {0} /\ Old \in Nat \ {0}
      /\ LongWords \in Nat \ {0} /\ LongWords <= IdCache
  BY LeaseNumbers
<1>2. aged \in [1 .. IdCache -> 0 .. Old]
  BY OlderType
<1>3. bootp_ids' = AddId(aged)
  BY DEF BootpRequest
<1> HIDE DEF aged
<1>4. Len(aged) = IdCache
  BY <1>1, <1>2
<1> DEFINE t == [i \in 1 .. IdCache |->
                   CASE i = IdCache -> 0
                     [] i <= IdCache - LongWords -> aged[i + 1]
                     [] OTHER -> aged[i]]
<1>5. AddId(aged) = t
  BY <1>1, <1>4 DEF AddId
<1>6. ASSUME NEW i \in 1 .. IdCache PROVE t[i] \in 0 .. Old
  <2>1. CASE i = IdCache
    BY <1>1, <2>1
  <2>2. CASE i # IdCache /\ i <= IdCache - LongWords
    <3>1. i + 1 \in 1 .. IdCache /\ t[i] = aged[i + 1]
      BY <1>1, <2>2
    <3> QED BY <1>2, <3>1
  <2>3. CASE i # IdCache /\ ~(i <= IdCache - LongWords)
    <3>1. t[i] = aged[i]
      BY <2>3
    <3> QED BY <1>2, <3>1
  <2> QED BY <2>1, <2>2, <2>3
<1>7. t[IdCache] = 0
  BY <1>1
<1>8. t = [i \in 1 .. IdCache |-> t[i]]
  OBVIOUS
<1> HIDE DEF t
<1> QED BY <1>3, <1>5, <1>6, <1>7, <1>8

\* RecentKept for every size of the cache and of a ulong, so that it holds of
\* 64-bit machines as well: the reply to the last request is heard, and while
\* the cache is not full those to the earlier ones of the try are, too.
THEOREM RecentAlwaysKept ==
  DhcpSpec => []RecentKept
<1> DEFINE Inv == LeaseInv /\ IdsRecent
<1>1. ASSUME DhcpInit PROVE Inv
  BY <1>1, LeaseInvInit DEF DhcpInit, IdsRecent
<1>2. ASSUME Inv, [DhcpNext]_dhcpVars PROVE Inv'
  <2>1. LeaseInv' /\ timeouts \in Nat
    BY <1>2, LeaseInvNext, LeaseNumbers DEF LeaseInv, DhcpTypeOK
  <2>2. IdCache \in Nat \ {0} /\ Old \in Nat \ {0}
    BY LeaseNumbers
  <2>3. CASE Start
    <3>1. BootpRequest(<<>>, 0) /\ timeouts' = 0 /\ dhcp_state' = "SELECTING"
      BY <2>3 DEF Start, Reset, BootpRequest
    <3>2. Ordered(<<>>, 0)
      BY DEF Ordered
    <3>3. Ordered(bootp_ids', 0 + 1)
      BY <2>2, <3>1, <3>2, RequestOrders
    <3> QED BY <2>1, <2>2, <3>1, <3>3 DEF IdsRecent, Ordered
  <2>4. CASE Retransmit
    <3>1. /\ BootpRequest(bootp_ids, sent) /\ timeouts' = timeouts + 1
          /\ dhcp_state' = "SELECTING" /\ time_handler = "bootp"
      BY <2>4 DEF Retransmit, BootpRequest
    <3>2. dhcp_state # "INIT"
      BY <1>2, <3>1 DEF IdsRecent
    <3>3. CASE timeouts + 1 < IdCache
      <4>1. Ordered(bootp_ids, timeouts + 1) /\ timeouts + 1 \in Nat
        BY <1>2, <2>1, <2>2, <3>2, <3>3 DEF IdsRecent
      <4>2. Ordered(bootp_ids', timeouts + 1 + 1)
        BY <3>1, <3>3, <4>1, RequestOrders
      <4>3. Ordered(bootp_ids', timeouts' + 1)
        BY <3>1, <4>2
      <4> QED BY <2>1, <3>1, <3>3, <4>3 DEF IdsRecent, Ordered
    <3>4. CASE ~(timeouts + 1 < IdCache)
      <4>1. timeouts < IdCache => timeouts + 1 = IdCache
        BY <2>1, <2>2, <3>4
      <4>2. bootp_ids \in [1 .. IdCache -> 0 .. Old]
        BY <1>2, <3>2, <4>1 DEF IdsRecent, Ordered
      <4>3. /\ bootp_ids' \in [1 .. IdCache -> 0 .. Old]
            /\ bootp_ids'[IdCache] = 0
        BY <3>1, <4>2, RequestIsNewest
      <4>4. timeouts' >= IdCache
        BY <2>1, <2>2, <3>1, <3>4
      <4> QED BY <2>1, <3>1, <4>3, <4>4 DEF IdsRecent
    <3> QED BY <3>3, <3>4
  <2>5. CASE ~Start /\ ~Retransmit
    <3>1. /\ UNCHANGED <<bootp_ids, timeouts>>
          /\ dhcp_state' = dhcp_state \/ dhcp_state' \in {"REQUESTING", "BOUND"}
          /\ dhcp_state = "INIT" => time_handler' # "bootp"
          /\ dhcp_state # "INIT" \/ dhcp_state' = dhcp_state
      <4>1. CASE \E id \in Ids, s \in Servers : Select(id, s) \/ Ack(id, s)
        BY <4>1 DEF Select, Ack
      <4>2. CASE DhcpEnter \/ PauseOver \/ DhcpAbort \/ DhcpSuccess \/ DhcpFail
                   \/ FailDespiteTimer \/ DhcpRestart
        BY <1>2, <4>2 DEF DhcpEnter, PauseOver, DhcpAbort, DhcpSuccess, DhcpFail,
           FailDespiteTimer, DhcpRestart, DhcpLeave, IdsRecent
      <4>3. CASE GiveUp \/ Load \/ FailAgain
        <5>1. UNCHANGED <<bootp_ids, timeouts, dhcp_state>>
          BY <4>3 DEF GiveUp, Load, FailAgain
        <5>2. time_handler' \in {time_handler, "again"}
          BY <4>3 DEF GiveUp, Load, FailAgain, DhcpStartAgain
        <5> QED BY <1>2, <5>1, <5>2 DEF IdsRecent
      <4>4. CASE UNCHANGED dhcpVars
        BY <1>2, <4>4 DEF dhcpVars, IdsRecent
      <4> QED BY <1>2, <2>5, <4>1, <4>2, <4>3, <4>4 DEF DhcpNext
    <3> QED BY <1>2, <2>1, <3>1 DEF IdsRecent, Ordered
  <2> QED BY <2>3, <2>4, <2>5
<1>3. ASSUME Inv PROVE RecentKept
  <2>1. timeouts \in Nat /\ IdCache \in Nat \ {0} /\ ReplyLifetime \in Nat \ {0}
          /\ Old = ReplyLifetime + 1
    BY <1>3, LeaseNumbers DEF LeaseInv, DhcpTypeOK
  <2>2. ASSUME NEW id \in Ids, dhcp_state \in {"SELECTING", "REQUESTING"},
               id = 0 \/ (id <= timeouts /\ timeouts < IdCache)
        PROVE  Known(id)
    <3>1. CASE timeouts < IdCache
      <4>1. Ordered(bootp_ids, timeouts + 1)
        BY <1>3, <2>1, <2>2, <3>1 DEF IdsRecent
      <4> DEFINE n == timeouts + 1
                 k == n - id
      <4>2. id \in Nat /\ id < Old /\ id <= timeouts
        BY <2>1, <2>2, <3>1 DEF Ids
      <4>3. k \in 1 .. n /\ n - k = id
        BY <2>1, <4>2
      <4>4. DOMAIN bootp_ids = 1 .. n /\ bootp_ids[k] = id
        BY <4>1, <4>2, <4>3 DEF Ordered
      <4> QED BY <4>3, <4>4 DEF Known
    <3>2. CASE ~(timeouts < IdCache)
      <4>1. id = 0 /\ IdCache \in 1 .. IdCache
        BY <2>1, <2>2, <3>2
      <4>2. bootp_ids \in [1 .. IdCache -> 0 .. Old] /\ bootp_ids[IdCache] = 0
        BY <1>3, <2>2, <3>2 DEF IdsRecent
      <4> QED BY <4>1, <4>2 DEF Known
    <3> QED BY <3>1, <3>2
  <2> QED BY <2>2 DEF RecentKept
<1> QED BY <1>1, <1>2, <1>3, PTL DEF DhcpSpec

-----------------------------------------------------------------------------
(***************************************************************************)
(* TftpGet, when the network keeps the packets of one port in order: the   *)
(* file that was loaded is whole.  First, quotients and rests, for the     *)
(* numbers of blocks.                                                      *)
(***************************************************************************)
\* Division with a rest, as SMT has it
LEMMA Quotient ==
  ASSUME NEW n \in Nat \ {0}, NEW a \in Nat
  PROVE  a \div n \in Nat /\ a % n \in 0 .. n - 1
           /\ a = n * (a \div n) + (a % n)
<1> DEFINE q == a \div n
           r == a % n
<1>1. q \in Int /\ r \in 0 .. n - 1
  OBVIOUS
<1>2. a = n * q + r
  OBVIOUS
<1> HIDE DEF q, r
<1>3. ASSUME q < 0 PROVE FALSE
  <2> DEFINE z == -1 - q
  <2>1. z \in Nat /\ q = -1 - z
    BY <1>1, <1>3
  <2> HIDE DEF z
  <2>2. n * (-1 - z) = -n - n * z /\ n * z \in Int /\ n * z >= 0
    BY <2>1
  <2> DEFINE m == n * z
  <2>3. a = -n - m + r /\ m \in Int /\ m >= 0
    BY <1>2, <2>1, <2>2
  <2> HIDE DEF m
  <2> QED BY <1>1, <2>3
<1>4. q \in Nat
  BY <1>1, <1>3
<1> QED BY <1>1, <1>2, <1>4 DEF q, r

\* And there is only one quotient and one rest.
LEMMA QuotientIs ==
  ASSUME NEW n \in Nat \ {0}, NEW a \in Nat, NEW q \in Nat,
         NEW r \in 0 .. n - 1,
         a = n * q + r
  PROVE  a \div n = q /\ a % n = r
<1> DEFINE p == a \div n
           s == a % n
<1>0. p \in Nat /\ s \in 0 .. n - 1 /\ a = n * p + s
  BY Quotient
<1> HIDE DEF p, s
<1>1. ASSUME NEW x \in Nat, NEW y \in Nat, x < y PROVE n * y >= n * x + n
  <2>1. PICK z \in Nat : y = x + 1 + z
    <3>1. y - x - 1 \in Nat /\ y = x + 1 + (y - x - 1)
      BY <1>1
    <3> QED BY <3>1
  <2>2. n * y = n * x + n + n * z
    BY <2>1
  <2>3. n * z >= 0 /\ n * z \in Int /\ n * x \in Int
    OBVIOUS
  <2> QED BY <2>2, <2>3
<1>2. n * q \in Int /\ n * p \in Int
  BY <1>0
<1>3. CASE q < p
  <2>1. n * p >= n * q + n
    BY <1>0, <1>1, <1>3
  <2> QED BY <1>0, <1>2, <2>1
<1>4. CASE p < q
  <2>1. n * q >= n * p + n
    BY <1>0, <1>1, <1>4
  <2> QED BY <1>0, <1>2, <2>1
<1>5. CASE p = q
  BY <1>0, <1>2, <1>5 DEF p, s
<1> QED BY <1>0, <1>3, <1>4, <1>5

\* From one block to the next its number goes up by one or wraps.
LEMMA NextNumber ==
  ASSUME NEW n \in Nat, n >= 2, NEW k \in Nat
  PROVE  /\ k % n \in 0 .. n - 1 /\ (k + 1) % n \in 0 .. n - 1
         /\ k \div n \in Nat /\ k % n # (k + 1) % n
         /\ \/ /\ (k + 1) % n = 0 /\ k % n # 0
               /\ (k + 1) \div n = (k \div n) + 1
            \/ /\ (k + 1) % n # 0
               /\ (k + 1) \div n = k \div n
<1> DEFINE q == k \div n
           r == k % n
<1>0. n \in Nat \ {0}
  OBVIOUS
<1>1. q \in Nat /\ r \in 0 .. n - 1 /\ k = n * q + r
  BY <1>0, Quotient
<1> HIDE DEF q, r
<1>2. n * q \in Int /\ n * (q + 1) = n * q + n
  BY <1>1
<1>3. CASE r = n - 1
  <2>1. k + 1 = n * (q + 1) + 0 /\ 0 \in 0 .. n - 1
    BY <1>1, <1>2, <1>3
  <2>2. (k + 1) \div n = q + 1 /\ (k + 1) % n = 0
    BY <1>1, <2>1, QuotientIs
  <2> QED BY <1>1, <1>3, <2>2 DEF q, r
<1>4. CASE r # n - 1
  <2>1. k + 1 = n * q + (r + 1) /\ r + 1 \in 0 .. n - 1
    BY <1>1, <1>2, <1>4
  <2>2. (k + 1) \div n = q /\ (k + 1) % n = r + 1
    BY <1>1, <2>1, QuotientIs
  <2> QED BY <1>1, <2>1, <2>2 DEF q, r
<1> QED BY <1>3, <1>4

\* What the assumption on the constants says, number by number
LEMMA TftpNumbers ==
  /\ SeqSize \in Nat \ {0} /\ SeqSize >= 2
  /\ FileLen \in Nat /\ MaxTimeouts \in Nat /\ Retries \in Nat
  /\ MemSizes \subseteq Nat
  /\ SmallBlock \in Nat \ {0} /\ BigBlock \in Nat \ {0} /\ ChanLen \in Nat \ {0}
BY TftpAssumption

\* The block sizes of a transfer, and its last block
BlockSizes == {SmallBlock, BigBlock}
LastOf(size) == FileLen \div size + 1

\* Where the client puts a block is where it was in the file.
LEMMA Offset ==
  ASSUME NEW size \in BlockSizes, NEW k \in Nat
  PROVE  ((k % SeqSize) - 1) * size + (k \div SeqSize) * SeqSize * size =
           (k - 1) * size
<1> DEFINE q == k \div SeqSize
           r == k % SeqSize
           m == q * SeqSize
<1>0. SeqSize \in Nat \ {0}
  BY TftpNumbers
<1>1. q \in Nat /\ r \in 0 .. SeqSize - 1 /\ k = SeqSize * q + r
  BY <1>0, Quotient
<1> HIDE DEF q, r
<1>2. m \in Nat /\ k = m + r
  BY <1>1, TftpNumbers
<1> HIDE DEF m
<1>3. size \in Nat
  BY TftpNumbers DEF BlockSizes
<1>4. k * size = m * size + r * size
  BY <1>1, <1>2, <1>3
<1>5. (k - 1) * size = k * size - size /\ (r - 1) * size = r * size - size
  BY <1>1, <1>3
<1>6. m * size \in Nat /\ r * size \in Nat /\ k * size \in Nat
  BY <1>1, <1>2, <1>3
<1>7. (r - 1) * size + m * size = (k - 1) * size
  BY <1>3, <1>4, <1>5, <1>6
<1> QED BY <1>7 DEF q, r, m

\* The blocks of the file, and what a wrap is worth
LEMMA Blocks ==
  ASSUME NEW size \in BlockSizes
  PROVE  /\ LastOf(size) \in Nat \ {0}
         /\ \A k \in 1 .. LastOf(size) :
              /\ (k - 1) * size \in 0 .. FileLen
              /\ (k \div SeqSize) * SeqSize * size \in 0 .. FileLen + size
              /\ k # LastOf(size) => k * size \in 0 .. FileLen
                                   /\ k * size = (k - 1) * size + size
              /\ k = LastOf(size) => FileLen - (k - 1) * size \in 0 .. size - 1
<1> DEFINE q == FileLen \div size
           r == FileLen % size
<1>0. size \in Nat \ {0} /\ FileLen \in Nat
  BY TftpNumbers DEF BlockSizes
<1>1. q \in Nat /\ r \in 0 .. size - 1 /\ FileLen = size * q + r
  BY <1>0, Quotient
<1>2. LastOf(size) = q + 1
  BY DEF LastOf
<1> HIDE DEF q, r
<1>3. ASSUME NEW k \in 1 .. q + 1
      PROVE  /\ (k - 1) * size \in 0 .. FileLen
             /\ (k \div SeqSize) * SeqSize * size \in 0 .. FileLen + size
             /\ k # q + 1 => k * size \in 0 .. FileLen
                             /\ k * size = (k - 1) * size + size
             /\ k = q + 1 => FileLen - (k - 1) * size \in 0 .. size - 1
  <2> DEFINE x == size * (k - 1)
             y == size * q
             z == size * (q - (k - 1))
  <2>0. k \in Nat /\ k - 1 \in Nat /\ q - (k - 1) \in Nat
    BY <1>1
  <2>1. x \in Nat /\ z \in Nat /\ y \in Nat /\ y = x + z /\ FileLen = y + r
    BY <1>0, <1>1, <2>0
  <2>2. (k - 1) * size = x /\ k * size = x + size
    BY <1>0, <2>0
  <2>3. k # q + 1 => z >= size
    <3>1. SUFFICES ASSUME k # q + 1 PROVE z >= size
      OBVIOUS
    <3>2. q - (k - 1) - 1 \in Nat
      BY <1>1, <3>1
    <3>3. size * (q - (k - 1) - 1) \in Nat
            /\ z = size * (q - (k - 1) - 1) + size
      BY <1>0, <1>1, <3>2
    <3> HIDE DEF z
    <3> QED BY <1>0, <2>1, <3>3
  <2>4. k = q + 1 => z = 0
    BY <1>0, <1>1
  <2>5. (k \div SeqSize) * SeqSize * size \in 0 .. k * size
    <3> DEFINE p == k \div SeqSize
               s == k % SeqSize
               m == p * SeqSize
    <3>0. SeqSize \in Nat \ {0}
      BY TftpNumbers
    <3>1. p \in Nat /\ s \in 0 .. SeqSize - 1 /\ k = SeqSize * p + s
      BY <2>0, <3>0, Quotient
    <3> HIDE DEF p, s
    <3>2. m \in Nat /\ k = m + s
      BY <3>1, TftpNumbers
    <3> HIDE DEF m
    <3>3. m * size \in Nat /\ s * size \in Nat /\ k * size = m * size + s * size
      BY <1>0, <3>1, <3>2
    <3>4. m * size \in 0 .. k * size
      BY <3>3
    <3> QED BY <3>4 DEF m, p
  <2> HIDE DEF x, y, z
  <2> QED BY <1>0, <1>1, <2>1, <2>2, <2>3, <2>4, <2>5
<1> QED BY <1>1, <1>2, <1>3

-----------------------------------------------------------------------------
(***************************************************************************)
(* The packets of a transfer, and a channel of them.                       *)
(***************************************************************************)
\* The packet of a server that sends in blocks of this size, at this block
Nth(size, k) ==
  Packet([phase |-> IF k = 0 THEN "oack" ELSE "data", size |-> size,
    block |-> k])

\* Where a block ends
End(size, k) == IF k = LastOf(size) THEN FileLen ELSE k * size

\* What is in a packet
LEMMA NthIs ==
  ASSUME NEW size, NEW k \in Nat
  PROVE  /\ k = 0 => Nth(size, k) = [op |-> "OACK", size |-> size]
         /\ k # 0 => Nth(size, k) =
                       [op |-> "DATA", block |-> k % SeqSize,
                         at |-> (k - 1) * size,
                        len |-> IF k =
                          LastOf(size) THEN FileLen - (k - 1) * size
                                ELSE size]
BY DEF Nth, Packet, LastBlock, LastOf

\* The packet a server sends is that of its block.
LEMMA PacketIs ==
  ASSUME NEW s, s.block \in Nat,
         s.phase = IF s.block = 0 THEN "oack" ELSE "data"
  PROVE  Packet(s) = Nth(s.size, s.block)
BY DEF Nth, Packet, LastBlock

\* A block is not taken for the next one.
LEMMA NthsDiffer ==
  ASSUME NEW size, NEW k \in Nat
  PROVE  Nth(size, k) # Nth(size, k + 1)
<1>1. CASE k = 0
  BY <1>1, NthIs
<1>2. CASE k # 0
  <2>1. Nth(size, k).block = k % SeqSize
          /\ Nth(size, k + 1).block = (k + 1) % SeqSize
    BY <1>2, NthIs
  <2>2. k % SeqSize # (k + 1) % SeqSize
    BY NextNumber, TftpNumbers
  <2> QED BY <2>1, <2>2
<1> QED BY <1>1, <1>2

\* Only x's
All(s, x) == \A i \in DOMAIN s : s[i] = x

\* First x's and then y's
Turns(s, x, y) ==
  /\ \A i \in DOMAIN s : s[i] \in {x, y}
  /\ \A i, j \in DOMAIN s : i < j /\ s[i] = y => s[j] = y

\* What is left when the first is taken,
LEMMA TurnsTail ==
  ASSUME NEW T, NEW s \in Seq(T), s # <<>>, NEW x, NEW y
  PROVE  /\ Turns(s, x, y) => Turns(Tail(s), x, y)
         /\ Turns(s, x, y) /\ Head(s) = y => All(s, y)
         /\ All(s, y) => All(Tail(s), y)
         /\ Tail(s) \in Seq(T) /\ Head(s) \in T
         /\ Head(s) = s[1] /\ 1 \in DOMAIN s
<1>1. /\ Tail(s) \in Seq(T) /\ DOMAIN s = 1 .. Len(s) /\ Len(s) \in Nat \ {0}
      /\ DOMAIN Tail(s) = 1 .. Len(s) - 1 /\ Head(s) = s[1]
      /\ \A i \in 1 .. Len(s) - 1 : Tail(s)[i] = s[i + 1]
  BY HeadTailProperties
<1>2. \A i \in 1 .. Len(s) - 1 : i + 1 \in 1 .. Len(s)
  BY <1>1
<1>3. Turns(s, x, y) => Turns(Tail(s), x, y)
  BY <1>1, <1>2 DEF Turns
<1>4. Turns(s, x, y) /\ Head(s) = y => All(s, y)
  BY <1>1 DEF Turns, All
<1>5. All(s, y) => All(Tail(s), y)
  BY <1>1, <1>2 DEF All
<1> QED BY <1>1, <1>3, <1>4, <1>5

\* and when one is put behind,
LEMMA TurnsAppend ==
  ASSUME NEW T, NEW s \in Seq(T), NEW x, NEW y, NEW z \in T
  PROVE  /\ Append(s, z) \in Seq(T)
         /\ Turns(s, x, y) /\ z = y => Turns(Append(s, z), x, y)
         /\ All(s, z) => All(Append(s, z), z)
         /\ x # y /\ All(s, x) /\ z = x => Turns(Append(s, z), x, y)
<1>1. /\ Append(s, z) \in Seq(T) /\ DOMAIN s = 1 .. Len(s) /\ Len(s) \in Nat
      /\ DOMAIN Append(s, z) = 1 .. Len(s) + 1
      /\ \A i \in 1 .. Len(s) : Append(s, z)[i] = s[i]
      /\ Append(s, z)[Len(s) + 1] = z
  BY AppendProperties
<1>2. \A i \in 1 .. Len(s) + 1 : i \in 1 .. Len(s) \/ i = Len(s) + 1
  BY <1>1
<1> QED BY <1>1, <1>2 DEF Turns, All

\* before the first y,
LEMMA TurnsFromAll ==
  ASSUME NEW s, NEW x, NEW y, x # y, All(s, x)
  PROVE  Turns(s, x, y)
BY DEF Turns, All

\* and when nothing is on its way.
LEMMA TurnsEmpty ==
  ASSUME NEW x, NEW y
  PROVE  Turns(<<>>, x, y) /\ All(<<>>, x)
BY DEF Turns, All

-----------------------------------------------------------------------------
(***************************************************************************)
(* The invariant.                                                          *)
(***************************************************************************)
\* The block before, of which packets may still be on their way
Before(k) == IF k = 0 THEN 0 ELSE k - 1

\* The file up to here is in memory.
Has(n) == \A u \in 0 .. n - 1 : u \in DOMAIN mem /\ mem[u] = u

\* Between us and a server that has come to this block: packets of the last
\* two blocks, and acknowledgements of them.  The newer block is acknowledged
\* only when it is stored, and nothing older is then on its way.
Channel(t, size, k) ==
  /\ Turns(down[t], Nth(size, Before(k)), Nth(size, k))
  /\ Turns(up[t], Before(k) % SeqSize, k % SeqSize)
  /\ (\E i \in DOMAIN up[t] : up[t][i] = k % SeqSize) =>
       Has(End(size, k)) /\ All(down[t], Nth(size, k))

\* How far a server has come, what is on its way to us and from us, and what is
\* in memory by then
ServerInv(t) ==
  LET s == srv[t] IN
  /\ s.port <= tftp.our_port
  /\ s.block \in 0 .. LastOf(s.size)
  /\ s.phase = "free" => down[t] = <<>> /\ up[t] = <<>>
  /\ s.phase = "refused" => up[t] = <<>> /\ \A i \in DOMAIN down[t] :
       down[t][i].op = "ERROR"
  /\ s.phase = "oack" => s.block = 0
  /\ s.phase \in {"data", "done"} => s.block # 0
  /\ s.phase \in {"oack", "data", "done"} =>
       Channel(t, s.size, s.block) /\ Has(Before(s.block) * s.size)
  /\ s.phase = "done" => s.block = LastOf(s.size) /\ Has(FileLen)

\* A server we have not answered
Fresh(t) ==
  /\ up[t] = <<>>
  /\ srv[t].phase = "data" => srv[t].block = 1 /\ srv[t].size = SmallBlock
  /\ srv[t].phase # "done"

\* The server we load from, and what we have received from it
Loading(r, k) ==
  LET s == srv[r] IN
  /\ s.port = tftp.our_port /\ s.phase \in {"oack", "data", "done"}
  /\ tftp.block_size = s.size
  /\ tftp.cur_block = k % SeqSize
  /\ tftp.state = "OACK" => k = 0
  /\ tftp.state = "DATA" =>
       /\ k # 0 /\ tftp.prev_block = k % SeqSize
       /\ tftp.wrap_offset = (k \div SeqSize) * SeqSize * s.size
  /\ \/ /\ k = s.block
        /\ All(down[r], Nth(s.size, k))
        /\ Has(End(s.size, k)) \/ net_state \in {"FAIL", "RESTART"}
     \/ /\ k + 1 = s.block /\ s.phase = "data"
        /\ All(up[r], k % SeqSize)

\* The state of tftp_handler(), and that of the server it hears
ClientInv ==
  /\ tftp.state = "SEND_RRQ" =>
       /\ tftp.remote_port = WellKnown
       /\ tftp.cur_block = 0 /\ tftp.block_size = SmallBlock
  /\ tftp.state # "SEND_RRQ" =>
       /\ tftp.remote_port \in Tids
       /\ \E k \in Nat : Loading(tftp.remote_port, k)

\* Every server; those of other ports of ours are not heard any more, and of
\* this port only one was answered.
ServersInv ==
  \A t \in Tids :
    /\ ServerInv(t)
    /\ t # tftp.remote_port /\ srv[t].port = tftp.our_port => Fresh(t)

\* The port of a try is older than the try to come, and timeouts are counted up
\* to the limit.
TryInv ==
  /\ requests \subseteq 1 .. tftp.our_port
  /\ tftp.our_port <= net_try_count
  /\ net_state = "RESTART" \/ timer = "again" => tftp.our_port < net_try_count
  /\ tftp.timeout_count > MaxTimeouts =>
       timer = "again" \/ net_state # "CONTINUE"

\* What is in memory, and net_boot_file_size
FileInv ==
  /\ InPlace
  /\ net_boot_file_size <= FileLen
  /\ net_state = "SUCCESS" \/ result = "ok" =>
       net_boot_file_size = FileLen /\ Has(FileLen)

\* What may be on its way from a server
Wires ==
  {Nth(size, k) : size \in BlockSizes, k \in Nat}
    \cup [op : {"ERROR"}, fatal : BOOLEAN]

\* The client's variables, and what a server has come to
Transfers ==
  [state : {"SEND_RRQ", "OACK", "DATA"},
   remote_port : Tids \cup {WellKnown}, our_port : Ports,
   cur_block : 0 .. SeqSize - 1, prev_block : 0 .. SeqSize - 1,
   wrap_offset : Nat, block_size : BlockSizes,
   timeout_count : 0 .. MaxTimeouts + 1]
Services ==
  [phase : {"free", "refused", "oack", "data", "done"},
   port : Ports, size : BlockSizes, block : Nat]

\* Types that TftpTypeOK does not state
NetTypes ==
  /\ tftp \in Transfers
  /\ requests \subseteq Ports
  /\ srv \in [Tids -> Services]
  /\ down \in [Tids -> Seq(Wires)]
  /\ up \in [Tids -> Seq(0 .. SeqSize - 1)]

\* The inductive invariant
TftpInv ==
  TftpTypeOK /\ NetTypes /\ ServersInv /\ ClientInv /\ TryInv /\ FileInv

-----------------------------------------------------------------------------
\* What is in memory stays there.
MemKept ==
  /\ DOMAIN mem \subseteq DOMAIN mem'
  /\ \A u \in DOMAIN mem : mem[u] = u => mem'[u] = u

\* What we have we keep.
LEMMA HasKept ==
  ASSUME MemKept, NEW n, Has(n)
  PROVE  Has(n)'
BY DEF MemKept, Has

\* A channel that keeps the order gives its first packet.
LEMMA HeadRemoved ==
  ASSUME NEW T, NEW s \in Seq(T), s # <<>>
  PROVE  RemoveAt(s, 1) = Tail(s)
<1>1. Len(s) \in Nat \ {0}
  BY EmptySeq, LenProperties
<1>2. SubSeq(s, 1, 0) = <<>>
  BY <1>1, SubSeqProperties, EmptySeq
<1>3. Tail(s) = SubSeq(s, 2, Len(s)) /\ Tail(s) \in Seq(T)
  BY <1>1, HeadTailProperties
<1>4. <<>> \o Tail(s) = Tail(s)
  BY <1>3, ConcatEmptySeq
<1>5. RemoveAt(s, 1) = SubSeq(s, 1, 1 - 1) \o SubSeq(s, 1 + 1, Len(s))
  BY DEF RemoveAt
<1>6. 1 - 1 = 0 /\ 1 + 1 = 2
  OBVIOUS
<1> QED BY <1>2, <1>3, <1>4, <1>5, <1>6

\* A server nothing happens to
LEMMA OtherServer ==
  ASSUME NEW t, ServerInv(t), MemKept, tftp.our_port \in Nat,
         tftp'.our_port \in Nat,
         srv[t].port \in Nat, tftp'.our_port >= tftp.our_port,
         srv'[t] = srv[t], down'[t] = down[t], up'[t] = up[t]
  PROVE  ServerInv(t)'
<1>1. \A n : Has(n) => Has(n)'
  BY HasKept
<1>2. \A size, k : Channel(t, size, k) => Channel(t, size, k)'
  BY <1>1 DEF Channel
<1> QED BY <1>1, <1>2 DEF ServerInv

\* A packet from a server that is received or lost
LEMMA DownTaken ==
  ASSUME NEW t, NetTypes, t \in Tids, ServerInv(t), down[t] # <<>>,
         down' = [down EXCEPT ![t] = Tail(down[t])], up'[t] = up[t],
         MemKept, srv' = srv, tftp'.our_port \in Nat,
           tftp'.our_port >= tftp.our_port
  PROVE  ServerInv(t)'
<1>1. \A n : Has(n) => Has(n)'
  BY HasKept
<1>2. down[t] \in Seq(Wires) /\ down'[t] = Tail(down[t])
  BY DEF NetTypes
<1>3. \A size, k : Channel(t, size, k) => Channel(t, size, k)'
  BY <1>1, <1>2, TurnsTail DEF Channel
<1>4. /\ DOMAIN Tail(down[t]) = 1 .. Len(down[t]) - 1
           /\ DOMAIN down[t] = 1 .. Len(down[t])
      /\ Len(down[t]) \in Nat
      /\ \A i \in 1 .. Len(down[t]) - 1 : Tail(down[t])[i] = down[t][i + 1]
  BY <1>2, HeadTailProperties
<1>5. \A i \in DOMAIN Tail(down[t]) : i + 1 \in DOMAIN down[t]
        /\ Tail(down[t])[i] = down[t][i + 1]
  BY <1>4
<1>6. tftp.our_port \in Nat /\ srv[t].port \in Nat
  BY DEF NetTypes, Ports, Transfers, Services
<1> HIDE DEF NetTypes
<1> QED BY <1>1, <1>2, <1>3, <1>5, <1>6 DEF ServerInv

\* An acknowledgement that is taken or lost
LEMMA UpTaken ==
  ASSUME NEW t, NetTypes, t \in Tids, ServerInv(t), up[t] # <<>>,
         up' = [up EXCEPT ![t] = Tail(up[t])], UNCHANGED <<mem, tftp, srv,
           down>>
  PROVE  ServerInv(t)'
<1>1. \A n : Has(n) => Has(n)'
  BY DEF Has
<1>2. up[t] \in Seq(0 .. SeqSize - 1) /\ up'[t] = Tail(up[t])
  BY DEF NetTypes
<1>4. /\ DOMAIN Tail(up[t]) = 1 .. Len(up[t]) - 1
           /\ DOMAIN up[t] = 1 .. Len(up[t])
      /\ Len(up[t]) \in Nat
      /\ \A i \in 1 .. Len(up[t]) - 1 : Tail(up[t])[i] = up[t][i + 1]
  BY <1>2, HeadTailProperties
<1>5. \A i \in DOMAIN Tail(up[t]) : i + 1 \in DOMAIN up[t]
        /\ Tail(up[t])[i] = up[t][i + 1]
  BY <1>4
<1>3. \A size, k : Channel(t, size, k) => Channel(t, size, k)'
  BY <1>1, <1>2, <1>5, TurnsTail DEF Channel
<1> QED BY <1>1, <1>2, <1>3 DEF ServerInv

-----------------------------------------------------------------------------
(***************************************************************************)
(* The server's steps.                                                     *)
(***************************************************************************)
\* The numbers of the OACK and of the first block
LEMMA SmallNumbers ==
  0 % SeqSize = 0 /\ 1 % SeqSize = 1 /\ 1 \div SeqSize = 0
<1>1. SeqSize \in Nat \ {0} /\ SeqSize >= 2
  BY TftpNumbers
<1>2. 0 = SeqSize * 0 + 0 /\ 1 = SeqSize * 0 + 1 /\ 1 \in 0 .. SeqSize - 1
        /\ 0 \in 0 .. SeqSize - 1
  BY <1>1
<1> QED BY <1>1, <1>2, QuotientIs

\* A block's number differs from that of the next and of the one before.
LEMMA NumbersDiffer ==
  ASSUME NEW k \in Nat
  PROVE  /\ k % SeqSize \in 0 .. SeqSize - 1
         /\ k % SeqSize # (k + 1) % SeqSize
         /\ k # 0 => (k - 1) % SeqSize # k % SeqSize
         /\ Before(k) \in Nat /\ Before(k + 1) = k
<1>1. SeqSize \in Nat /\ SeqSize >= 2
  BY TftpNumbers
<1>2. k % SeqSize \in 0 .. SeqSize - 1 /\ k % SeqSize # (k + 1) % SeqSize
  BY <1>1, NextNumber
<1>3. k # 0 => (k - 1) % SeqSize # k % SeqSize
  <2>1. SUFFICES ASSUME k # 0 PROVE (k - 1) % SeqSize # k % SeqSize
    OBVIOUS
  <2> DEFINE n == k - 1
  <2>2. n \in Nat /\ n + 1 = k
    BY <2>1
  <2> HIDE DEF n
  <2>3. n % SeqSize # (n + 1) % SeqSize
    BY <1>1, <2>2, NextNumber
  <2> QED BY <2>2, <2>3 DEF n
<1> QED BY <1>2, <1>3 DEF Before

\* An acknowledgement of the server's last packet
Matches(t) ==
  /\ srv[t].phase \in {"oack", "data"}
  /\ Head(up[t]) = srv[t].block % SeqSize

\* What is so when an acknowledgement matches, and where the server goes
LEMMA AckMatches ==
  ASSUME NetTypes, NEW t \in Tids, ServerInv(t), TakeAck(t), Matches(t)
  PROVE  LET k == srv[t].block
             size == srv[t].size IN
         /\ k \in Nat /\ size \in BlockSizes
         /\ Has(End(size, k)) /\ All(down[t], Nth(size, k))
         /\ All(up'[t], k % SeqSize)
         /\ srv'[t].port = srv[t].port /\ srv'[t].size = size
         /\ \/ /\ k = LastOf(size) /\ down' = down
               /\ srv'[t].block = k /\ srv'[t].phase = "done"
            \/ /\ k # LastOf(size) /\ down'[t] = Put(down[t], Nth(size, k + 1))
               /\ srv'[t].block = k + 1 /\ srv'[t].phase = "data"
<1> DEFINE k == srv[t].block
           size == srv[t].size
<1>1. /\ srv[t] \in Services
      /\ up[t] \in Seq(0 .. SeqSize - 1) /\ up[t] # <<>>
      /\ up'[t] = Tail(up[t])
  BY DEF NetTypes, TakeAck
<1>2. Channel(t, size, k)
  BY DEF ServerInv, Matches
<1>3. /\ All(up[t], k % SeqSize) /\ All(Tail(up[t]), k % SeqSize)
      /\ 1 \in DOMAIN up[t] /\ up[t][1] = k % SeqSize
  <2>1. Turns(up[t], Before(k) % SeqSize, k % SeqSize)
    BY <1>2 DEF Channel
  <2>2. Head(up[t]) = k % SeqSize
    BY DEF Matches
  <2>3. All(up[t], k % SeqSize) /\ 1 \in DOMAIN up[t] /\ Head(up[t]) = up[t][1]
    BY <1>1, <2>1, <2>2, TurnsTail
  <2>4. All(Tail(up[t]), k % SeqSize)
    BY <1>1, <2>3, TurnsTail
  <2> QED BY <2>2, <2>3, <2>4
<1>4. Has(End(size, k)) /\ All(down[t], Nth(size, k))
  BY <1>2, <1>3 DEF Channel
<1>5. CASE k = LastBlock(srv[t])
  <2>1. srv' = [srv EXCEPT ![t] = [srv[t] EXCEPT !.phase = "done"]]
        /\ down' = down
    BY <1>5 DEF TakeAck, Matches
  <2>2. srv'[t] = [srv[t] EXCEPT !.phase = "done"]
    BY <2>1 DEF NetTypes
  <2> QED BY <1>1, <1>3, <1>4, <1>5, <2>1, <2>2
          DEF LastBlock, LastOf, Transfers, Services
<1>6. CASE k # LastBlock(srv[t])
  <2> DEFINE s == [srv[t] EXCEPT !.phase = "data", !.block = @ + 1]
  <2>1. srv' = [srv EXCEPT ![t] = s]
        /\ down' = [down EXCEPT ![t] = Put(down[t], Packet(s))]
    BY <1>6 DEF TakeAck, Matches
  <2>2. /\ srv'[t] = s /\ down'[t] = Put(down[t], Packet(s))
        /\ s.block = k + 1 /\ s.size = size /\ s.phase = "data"
             /\ s.port = srv[t].port
    BY <1>1, <2>1 DEF NetTypes
  <2> HIDE DEF s
  <2>3. Packet(s) = Nth(size, k + 1)
    <3>1. k + 1 \in Nat /\ k + 1 # 0
      BY <1>1 DEF Services
    <3>2. s.block \in Nat /\ s.phase = IF s.block = 0 THEN "oack" ELSE "data"
      BY <2>2, <3>1
    <3>3. Packet(s) = Nth(s.size, s.block)
      BY <3>2, PacketIs
    <3> QED BY <2>2, <3>3
  <2> QED BY <1>1, <1>3, <1>4, <1>6, <2>2, <2>3
          DEF LastBlock, LastOf, Transfers, Services
<1> QED BY <1>5, <1>6

\* Put() adds a packet or nothing.
LEMMA PutAdds ==
  ASSUME NEW chan, NEW x
  PROVE  Put(chan, x) \in {chan, Append(chan, x)}
BY DEF Put

\* Blocks are what is on the wires.
LEMMA NthWire ==
  ASSUME NEW size \in BlockSizes, NEW k \in Nat
  PROVE  Nth(size, k) \in Wires /\ Nth(size, k + 1) \in Wires
BY DEF Wires

\* The server that takes an acknowledgement
LEMMA AckTaken ==
  ASSUME NetTypes, NEW t \in Tids, ServerInv(t), TakeAck(t)
  PROVE  ServerInv(t)'
<1>1. /\ up[t] # <<>> /\ up' = [up EXCEPT ![t] = Tail(up[t])]
      /\ UNCHANGED <<mem, tftp>>
  BY DEF TakeAck, fileVars
<1>2. CASE ~Matches(t)
  <2>1. UNCHANGED <<srv, down>>
    BY <1>2 DEF TakeAck, Matches
  <2> QED BY <1>1, <2>1, UpTaken
<1>3. CASE Matches(t)
  <2>0. PICK k \in Nat, size \in BlockSizes : k = srv[t].block
          /\ size = srv[t].size
    BY <1>3, AckMatches
  <2>1. /\ Has(End(size, k)) /\ All(down[t], Nth(size, k))
        /\ All(up'[t], k % SeqSize)
        /\ srv'[t].port = srv[t].port /\ srv'[t].size = size
        /\ \/ /\ k = LastOf(size) /\ down' = down
              /\ srv'[t].block = k /\ srv'[t].phase = "done"
           \/ /\ k # LastOf(size) /\ down'[t] = Put(down[t], Nth(size, k + 1))
              /\ srv'[t].block = k + 1 /\ srv'[t].phase = "data"
    BY <1>3, <2>0, AckMatches
  <2>2. \A n : Has(n) => Has(n)'
    BY <1>1 DEF Has
  <2>3. tftp'.our_port = tftp.our_port /\ srv[t].port <= tftp.our_port
        /\ k \in 0 .. LastOf(size) /\ srv[t].phase \in {"oack", "data"}
    BY <1>1, <1>3, <2>0 DEF ServerInv, Matches
  <2>4. down[t] \in Seq(Wires) /\ Nth(size, k) \in Wires
          /\ Nth(size, k + 1) \in Wires
    BY NthWire DEF NetTypes
  <2>5. CASE k = LastOf(size)
    <3>1. /\ srv'[t].port = srv[t].port /\ srv'[t].size = size /\ down' = down
          /\ srv'[t].block = k /\ srv'[t].phase = "done"
      BY <2>1, <2>5
    <3>2. k # 0
      BY <2>1, <2>5, Blocks
    <3>3. Turns(up'[t], Before(k) % SeqSize, k % SeqSize)
      BY <2>1 DEF Turns, All
    <3>4. Turns(down'[t], Nth(size, Before(k)), Nth(size, k))
      BY <2>1, <3>1 DEF Turns, All
    <3>5. Channel(t, size, k)'
      BY <2>1, <2>2, <3>1, <3>3, <3>4 DEF Channel
    <3>6. Has(FileLen)'
      BY <2>1, <2>2, <2>5 DEF End
    <3>7. Has(Before(k) * size)'
      <4>1. Before(k) * size \in 0 .. FileLen
        BY <2>1, <2>3, <2>5, <3>2, Blocks DEF Before
      <4> QED BY <3>6, <4>1, TftpNumbers DEF Has
    <3>8. Channel(t, srv[t].size, srv[t].block)'
            /\ Has(Before(srv[t].block) * srv[t].size)'
      BY <3>1, <3>5, <3>7
    <3>9. srv'[t].block \in 0 .. LastOf(srv'[t].size)
            /\ srv'[t].block = LastOf(srv'[t].size)
      BY <2>3, <2>5, <3>1
    <3> QED BY <2>3, <3>1, <3>2, <3>6, <3>8, <3>9 DEF ServerInv
  <2>6. CASE k # LastOf(size)
    <3>1. /\ srv'[t].port = srv[t].port /\ srv'[t].size = size
          /\ down'[t] = Put(down[t], Nth(size, k + 1))
          /\ srv'[t].block = k + 1 /\ srv'[t].phase = "data"
      BY <2>1, <2>6
    <3>2. Before(k + 1) = k /\ k % SeqSize # (k + 1) % SeqSize
      BY <2>1, NumbersDiffer
    <3>3. Turns(up'[t], k % SeqSize, (k + 1) % SeqSize)
      BY <2>1, <3>2, TurnsFromAll
    <3>4. Nth(size, k) # Nth(size, k + 1)
      BY <2>1, NthsDiffer
    <3>5. Turns(down'[t], Nth(size, k), Nth(size, k + 1))
      <4>1. Turns(down[t], Nth(size, k), Nth(size, k + 1))
        BY <2>1, <3>4, TurnsFromAll
      <4>2. Turns(Append(down[t], Nth(size, k + 1)), Nth(size, k),
              Nth(size, k + 1))
        BY <2>4, <4>1, TurnsAppend
      <4>3. down'[t] \in {down[t], Append(down[t], Nth(size, k + 1))}
        BY <3>1, PutAdds
      <4> QED BY <4>1, <4>2, <4>3
    <3>6. ~ \E i \in DOMAIN up'[t] : up'[t][i] = (k + 1) % SeqSize
      BY <2>1, <3>2 DEF All
    <3>7. Channel(t, size, k + 1)'
      BY <3>2, <3>3, <3>5, <3>6 DEF Channel
    <3>8. Has(Before(k + 1) * size)'
      BY <2>1, <2>2, <2>6, <3>2 DEF End
    <3>9. k + 1 \in 0 .. LastOf(size) /\ k + 1 # 0
      <4>1. LastOf(size) \in Nat
        BY <2>1, Blocks
      <4> QED BY <2>1, <2>3, <2>6, <4>1
    <3> QED BY <2>3, <3>1, <3>7, <3>8, <3>9 DEF ServerInv
  <2> QED BY <2>5, <2>6
<1> QED BY <1>2, <1>3

\* Nothing happens to the other servers.
OthersSame(t) ==
  \A r \in Tids \ {t} : srv'[r] = srv[r] /\ down'[r] = down[r] /\ up'[r] = up[r]

\* Ports are numbers.
LEMMA PortNumbers ==
  ASSUME NetTypes
  PROVE  /\ Ports \subseteq Nat /\ tftp.our_port \in Nat
         /\ \A t \in Tids : srv[t].port \in Nat
<1>1. Ports \subseteq Nat
  BY TftpNumbers DEF Ports
<1>2. tftp.our_port \in Ports /\ \A t \in Tids : srv[t].port \in Ports
  BY DEF NetTypes, Transfers, Services
<1> QED BY <1>1, <1>2

\* A step of one server, or of the network, and what is left to show of it
LEMMA ServerStep ==
  ASSUME TftpInv, NEW t \in Tids, OthersSame(t),
         requests' \subseteq requests,
         UNCHANGED <<tftp, loopVars, fileVars, result>>,
         NetTypes', ServerInv(t)',
         (t # tftp.remote_port /\ srv[t].port = tftp.our_port => Fresh(t))',
         \A k \in Nat : Loading(t, k) => Loading(t, k)'
  PROVE  TftpInv'
<1>1. UNCHANGED <<tftp, net_state, net_try_count, timer, fired, mem,
                  net_boot_file_size, result>>
  BY DEF loopVars, fileVars
<1>2. TftpTypeOK'
  BY <1>1 DEF TftpInv, TftpTypeOK
<1>3. TryInv'
  BY <1>1 DEF TftpInv, TryInv
<1>4. FileInv'
  BY <1>1 DEF TftpInv, FileInv, InPlace, Has
<1>5. MemKept
  BY <1>1 DEF MemKept
<1>6. ASSUME NEW r \in Tids, r # t
      PROVE  /\ ServerInv(r)'
             /\ (r # tftp.remote_port /\ srv[r].port = tftp.our_port =>
                  Fresh(r))'
  <2>1. srv'[r] = srv[r] /\ down'[r] = down[r] /\ up'[r] = up[r]
    BY <1>6 DEF OthersSame
  <2>2. ServerInv(r) /\ (r # tftp.remote_port /\ srv[r].port = tftp.our_port =>
          Fresh(r))
    BY DEF TftpInv, ServersInv
  <2>3. tftp.our_port \in Nat /\ tftp'.our_port = tftp.our_port
          /\ srv[r].port \in Nat
    BY <1>1, PortNumbers DEF TftpInv
  <2>4. ServerInv(r)'
    BY <1>5, <2>1, <2>2, <2>3, OtherServer
  <2> QED BY <1>1, <2>1, <2>2, <2>4 DEF Fresh
<1>7. ServersInv'
  BY <1>6 DEF ServersInv
<1>8. ClientInv'
  <2>1. CASE tftp.state = "SEND_RRQ"
    BY <1>1, <2>1 DEF TftpInv, ClientInv
  <2>2. CASE tftp.state # "SEND_RRQ"
    <3>1. PICK k \in Nat : tftp.remote_port \in Tids
            /\ Loading(tftp.remote_port, k)
      BY <2>2 DEF TftpInv, ClientInv
    <3>2. Loading(tftp.remote_port, k)'
      <4>1. CASE tftp.remote_port = t
        <5>1. Loading(t, k)'
          BY <3>1, <4>1
        <5>2. tftp'.remote_port = t
          BY <1>1, <4>1
        <5> QED BY <5>1, <5>2
      <4>2. CASE tftp.remote_port # t
        <5> DEFINE r == tftp.remote_port
        <5>1. srv'[r] = srv[r] /\ down'[r] = down[r] /\ up'[r] = up[r] /\ r' = r
          BY <1>1, <3>1, <4>2 DEF OthersSame
        <5>2. \A n : Has(n) => Has(n)'
          BY <1>1 DEF Has
        <5>3. Loading(r, k)
          BY <3>1
        <5> HIDE DEF r
        <5>4. Loading(r, k)'
          BY <1>1, <5>1, <5>2, <5>3 DEF Loading
        <5> QED BY <5>4 DEF r
      <4> QED BY <4>1, <4>2
    <3> QED BY <1>1, <2>2, <3>1, <3>2 DEF ClientInv
  <2> QED BY <2>1, <2>2
<1> QED BY <1>2, <1>3, <1>4, <1>7, <1>8 DEF TftpInv

\* The server takes an acknowledgement,
LEMMA TakeAckKeeps ==
  ASSUME TftpInv, NEW t \in Tids, TakeAck(t)
  PROVE  TftpInv'
<1>1. /\ NetTypes /\ ServerInv(t) /\ up[t] # <<>>
      /\ t # tftp.remote_port /\ srv[t].port = tftp.our_port => Fresh(t)
      /\ UNCHANGED <<tftp, loopVars, fileVars, result>>
      /\ requests' \subseteq requests
      /\ up' = [up EXCEPT ![t] = Tail(up[t])]
  BY DEF TakeAck, TftpInv, ServersInv
<1>2. ServerInv(t)'
  BY <1>1, AckTaken
<1>3. \/ ~Matches(t) /\ UNCHANGED <<srv, down>>
      \/ /\ Matches(t)
         /\ \E s : srv' = [srv EXCEPT ![t] = s]
         /\ down' = down \/ \E x : down' = [down EXCEPT ![t] = x]
  BY DEF TakeAck, Matches
<1>4. OthersSame(t)
  BY <1>1, <1>3 DEF OthersSame, NetTypes
<1>5. UNCHANGED <<tftp, mem, net_state>>
  BY <1>1 DEF loopVars, fileVars
<1>6. srv'[t].port = srv[t].port
  BY <1>1, <1>3, AckMatches
<1>7. (t # tftp.remote_port /\ srv[t].port = tftp.our_port => Fresh(t))'
  BY <1>1, <1>5, <1>6 DEF Fresh
<1>8. up'[t] = Tail(up[t]) /\ up[t] \in Seq(0 .. SeqSize - 1)
      /\ Head(up[t]) = up[t][1] /\ 1 \in DOMAIN up[t]
      /\ Tail(up[t]) \in Seq(0 .. SeqSize - 1)
  BY <1>1, TurnsTail DEF NetTypes
<1>9. ASSUME NEW k, All(up[t], k)
      PROVE  All(up'[t], k)
  <2>1. All(Tail(up[t]), k)
    BY <1>1, <1>8, <1>9, TurnsTail
  <2> QED BY <1>8, <2>1
<1>10. ASSUME NEW k \in Nat, Loading(t, k)
       PROVE  Loading(t, k)'
  <2>1. CASE ~Matches(t)
    <3>1. UNCHANGED <<srv, down>>
      BY <1>3, <2>1
    <3>2. \A n : Has(n) => Has(n)'
      BY <1>5 DEF Has
    <3> QED BY <1>5, <1>9, <1>10, <3>1, <3>2 DEF Loading
  <2>2. CASE Matches(t)
    <3>0. PICK b \in Nat, size \in BlockSizes : b = srv[t].block
            /\ size = srv[t].size
      BY <1>1, <2>2, AckMatches
    <3>1. /\ Has(End(size, b)) /\ All(down[t], Nth(size, b))
          /\ All(up'[t], b % SeqSize)
          /\ srv'[t].port = srv[t].port /\ srv'[t].size = size
          /\ \/ /\ b = LastOf(size) /\ down' = down
                /\ srv'[t].block = b /\ srv'[t].phase = "done"
             \/ /\ b # LastOf(size)
                /\ srv'[t].block = b + 1 /\ srv'[t].phase = "data"
      BY <1>1, <2>2, <3>0, AckMatches
    <3>2. k = b
      <4>1. SUFFICES ASSUME k + 1 = b, All(up[t], k % SeqSize) PROVE FALSE
        BY <1>10, <3>0 DEF Loading
      <4>2. up[t][1] = b % SeqSize /\ up[t][1] = k % SeqSize
        BY <1>8, <2>2, <3>0, <4>1 DEF Matches, All
      <4> QED BY <4>1, <4>2, NumbersDiffer
    <3>3. Has(End(size, k))'
      BY <1>5, <3>1, <3>2 DEF Has
    <3>4. /\ srv'[t].port = tftp'.our_port
               /\ srv'[t].phase \in {"oack", "data", "done"}
          /\ tftp'.block_size = srv'[t].size
          /\ tftp'.cur_block = k % SeqSize
          /\ tftp'.state = "OACK" => k = 0
          /\ tftp'.state = "DATA" =>
               /\ k # 0 /\ tftp'.prev_block = k % SeqSize
               /\ tftp'.wrap_offset = (k \div SeqSize) * SeqSize * srv'[t].size
      BY <1>5, <1>10, <3>0, <3>1 DEF Loading
    <3> QED BY <3>1, <3>2, <3>3, <3>4 DEF Loading
  <2> QED BY <2>1, <2>2
<1>11. NetTypes'
  <2>1. up' \in [Tids -> Seq(0 .. SeqSize - 1)]
    BY <1>1, <1>8 DEF NetTypes
  <2>2. CASE ~Matches(t)
    BY <1>1, <1>3, <2>1, <2>2 DEF NetTypes, TakeAck
  <2>3. CASE Matches(t)
    <3>0. PICK b \in Nat, size \in BlockSizes : b = srv[t].block
            /\ size = srv[t].size
      BY <1>1, <2>3, AckMatches
    <3>1. srv' \in [Tids -> Services]
      <4>1. /\ srv[t] \in Services
            /\ srv[t].block + 1 \in Nat
        BY <1>1, <3>0 DEF NetTypes
      <4>2. \/ srv' = [srv EXCEPT ![t] = [srv[t] EXCEPT !.phase = "done"]]
            \/ srv' = [srv EXCEPT ![t] = [srv[t] EXCEPT !.phase = "data",
                                                       !.block = @ + 1]]
        BY <2>3 DEF TakeAck, Matches
      <4>3. /\ [srv[t] EXCEPT !.phase = "done"] \in
                 Services
            /\ [srv[t] EXCEPT !.phase = "data", !.block = @ + 1] \in
                 Services
        BY <4>1 DEF Transfers, Services
      <4> QED BY <1>1, <4>2, <4>3 DEF NetTypes
    <3>2. down' \in [Tids -> Seq(Wires)]
      <4>1. down'[t] \in {down[t], Append(down[t], Nth(size, b + 1))}
        BY <1>1, <2>3, <3>0, AckMatches, PutAdds
      <4>2. Nth(size, b + 1) \in Wires /\ down[t] \in Seq(Wires)
        BY <1>1, NthWire DEF NetTypes
      <4>3. Append(down[t], Nth(size, b + 1)) \in Seq(Wires)
        BY <4>2, AppendProperties
      <4>4. down'[t] \in Seq(Wires)
        BY <4>1, <4>2, <4>3
      <4> QED BY <1>1, <1>3, <4>4 DEF NetTypes
    <3> QED BY <1>1, <2>1, <3>1, <3>2 DEF NetTypes, TakeAck
  <2> QED BY <2>2, <2>3
<1> QED BY <1>1, <1>2, <1>4, <1>7, <1>10, <1>11, ServerStep

\* sends its packet again,
LEMMA SendAgainKeeps ==
  ASSUME TftpInv, NEW t \in Tids, SendAgain(t)
  PROVE  TftpInv'
<1>1. /\ NetTypes /\ ServerInv(t) /\ srv[t].phase \in {"oack", "data"}
      /\ t # tftp.remote_port /\ srv[t].port = tftp.our_port => Fresh(t)
      /\ UNCHANGED <<tftp, loopVars, fileVars, result>>
      /\ UNCHANGED <<tftp, mem, net_state, requests, srv, up>>
      /\ down' = [down EXCEPT ![t] = Append(down[t], Packet(srv[t]))]
  BY DEF SendAgain, TftpInv, ServersInv, loopVars, fileVars
<1>2. PICK k \in Nat, size \in BlockSizes : k = srv[t].block
        /\ size = srv[t].size
  BY <1>1 DEF NetTypes, Transfers, Services
<1>3. Packet(srv[t]) = Nth(size, k)
  BY <1>1, <1>2, PacketIs DEF ServerInv
<1>4. down[t] \in Seq(Wires) /\ Nth(size, k) \in Wires
        /\ down'[t] = Append(down[t], Nth(size, k))
  BY <1>1, <1>3, NthWire DEF NetTypes
<1>5. /\ down'[t] \in Seq(Wires)
      /\ All(down[t], Nth(size, k)) => All(down'[t], Nth(size, k))
      /\ Turns(down[t], Nth(size, Before(k)), Nth(size, k)) =>
           Turns(down'[t], Nth(size, Before(k)), Nth(size, k))
  <2>1. down'[t] \in Seq(Wires)
    BY <1>4, AppendProperties
  <2>2. All(down[t], Nth(size, k)) =>
          All(Append(down[t], Nth(size, k)), Nth(size, k))
    BY <1>4, TurnsAppend
  <2>3. Turns(down[t], Nth(size, Before(k)), Nth(size, k)) =>
          Turns(Append(down[t], Nth(size, k)), Nth(size, Before(k)),
            Nth(size, k))
    BY <1>4, TurnsAppend
  <2> QED BY <1>4, <2>1, <2>2, <2>3
<1>6. \A n : Has(n) => Has(n)'
  BY <1>1 DEF Has
<1>7. Channel(t, size, k)'
  <2>1. Channel(t, size, k)
    BY <1>1, <1>2 DEF ServerInv
  <2> QED BY <1>1, <1>5, <1>6, <2>1 DEF Channel
<1>8. ServerInv(t)'
  <2>1. Channel(t, srv[t].size, srv[t].block)'
    BY <1>1, <1>2, <1>7
  <2> QED BY <1>1, <1>6, <2>1 DEF ServerInv
<1>9. ASSUME NEW j \in Nat, Loading(t, j)
      PROVE  Loading(t, j)'
  BY <1>1, <1>2, <1>5, <1>6, <1>9 DEF Loading
<1>10. NetTypes'
  BY <1>1, <1>5 DEF NetTypes
<1>11. OthersSame(t)
  BY <1>1 DEF OthersSame, NetTypes
<1>12. (t # tftp.remote_port /\ srv[t].port = tftp.our_port => Fresh(t))'
  BY <1>1 DEF Fresh
<1> QED BY <1>1, <1>8, <1>9, <1>10, <1>11, <1>12, ServerStep

\* or answers a request.
LEMMA ServeKeeps ==
  ASSUME TftpInv, NEW t \in Tids, NEW port \in Ports, Serve(t, port)
  PROVE  TftpInv'
<1>1. /\ NetTypes /\ ServerInv(t) /\ srv[t].phase = "free" /\ port \in requests
      /\ UNCHANGED <<tftp, loopVars, fileVars, result>>
      /\ UNCHANGED <<tftp, mem, net_state, up>>
      /\ requests' \subseteq requests
  BY DEF Serve, TftpInv, ServersInv, loopVars, fileVars
<1>2. down[t] = <<>> /\ up[t] = <<>> /\ up'[t] = <<>>
  BY <1>1 DEF ServerInv
<1>3. port <= tftp.our_port
  <2>1. requests \subseteq 1 .. tftp.our_port
    BY DEF TftpInv, TryInv
  <2> QED BY <1>1, <2>1, PortNumbers
<1>4. \A j \in Nat : ~Loading(t, j)
  BY <1>1 DEF Loading
<1>5. SmallBlock \in BlockSizes /\ BigBlock \in BlockSizes /\ 0 \in Nat
        /\ 1 \in Nat
  BY DEF BlockSizes
<1>6. \A size \in BlockSizes, k \in Nat : Nth(size, k) \in Wires
  BY NthWire
<1>7. ASSUME NEW size \in BlockSizes, NEW k \in {0, 1}, NEW at,
             at = IF k = 0 THEN "oack" ELSE "data", k = 1 => size = SmallBlock,
             srv' = [srv EXCEPT ![t] = [phase |-> at, port |-> port,
                                       size |-> size, block |-> k]],
             down' = [down EXCEPT ![t] =
                        <<Packet([phase |-> at, port |-> port,
                                  size |-> size, block |-> k])>>]
      PROVE  TftpInv'
  <2> DEFINE s == [phase |-> at, port |-> port, size |-> size, block |-> k]
  <2>1. /\ srv'[t] = s /\ down'[t] = <<Packet(s)>>
        /\ OthersSame(t)
    BY <1>1, <1>7 DEF OthersSame, NetTypes
  <2>2. s.size = size /\ s.block = k /\ s.phase = at /\ s.port = port
          /\ k \in Nat
    OBVIOUS
  <2>3. Packet(s) = Nth(size, k)
    BY <1>7, <2>2, PacketIs
  <2>4. s \in Services
    BY <1>7 DEF Transfers, Services
  <2> HIDE DEF s
  <2>5. down'[t] = <<Nth(size, k)>> /\ Nth(size, k) \in Wires
    BY <1>6, <2>1, <2>2, <2>3
  <2>6. All(down'[t], Nth(size, k))
          /\ Turns(down'[t], Nth(size, Before(k)), Nth(size, k))
    <3>1. DOMAIN <<Nth(size, k)>> = {1} /\ <<Nth(size, k)>>[1] = Nth(size, k)
      OBVIOUS
    <3> QED BY <2>5, <3>1 DEF All, Turns
  <2>7. Turns(up'[t], Before(k) % SeqSize, k % SeqSize)
    BY <1>2, TurnsEmpty
  <2>8. Channel(t, size, k)'
    BY <1>2, <2>6, <2>7 DEF Channel
  <2>9. Has(Before(k) * size)'
    <3>1. Before(k) = 0 /\ size \in Nat
      BY TftpNumbers DEF Before, BlockSizes
    <3>2. Before(k) * size = 0
      BY <3>1
    <3> QED BY <3>2 DEF Has
  <2>10. k \in 0 .. LastOf(size)
    BY Blocks
  <2>11. ServerInv(t)'
    <3>1. Channel(t, srv[t].size, srv[t].block)'
            /\ Has(Before(srv[t].block) * srv[t].size)'
      BY <2>1, <2>2, <2>8, <2>9
    <3>2. srv'[t].block = k /\ srv'[t].size = size /\ srv'[t].phase = at
            /\ srv'[t].port = port
      BY <2>1, <2>2
    <3>3. tftp'.our_port = tftp.our_port /\ at \in {"oack", "data"}
      BY <1>1, <1>7
    <3>4. at = "oack" => k = 0
      BY <1>7
    <3>5. at = "data" => k # 0
      BY <1>7
    <3> QED BY <1>3, <2>10, <3>1, <3>2, <3>3, <3>4, <3>5 DEF ServerInv
  <2>12. Fresh(t)'
    BY <1>2, <1>7, <2>1, <2>2 DEF Fresh
  <2>13. NetTypes'
    <3>1. down'[t] \in Seq(Wires)
      BY <2>5
    <3>2. requests' \subseteq Ports
      BY <1>1 DEF NetTypes
    <3> QED BY <1>1, <1>7, <2>1, <2>4, <3>1, <3>2 DEF NetTypes
  <2> QED BY <1>1, <1>4, <2>1, <2>11, <2>12, <2>13, ServerStep
<1>8. ASSUME NEW fatal \in BOOLEAN,
             srv' = [srv EXCEPT ![t].phase = "refused", ![t].port = port],
             down' = [down EXCEPT ![t] = <<[op |-> "ERROR", fatal |-> fatal]>>]
      PROVE  TftpInv'
  <2> DEFINE e == [op |-> "ERROR", fatal |-> fatal]
  <2>0. srv[t] \in Services
    BY <1>1 DEF NetTypes
  <2>1. /\ srv'[t] = [srv[t] EXCEPT !.phase = "refused", !.port = port]
        /\ down'[t] = <<e>> /\ OthersSame(t)
    BY <1>1, <1>8 DEF OthersSame, NetTypes
  <2>2. /\ srv'[t].phase = "refused" /\ srv'[t].port = port
        /\ srv'[t].block = srv[t].block /\ srv'[t].size = srv[t].size
        /\ srv'[t] \in Services
    BY <2>0, <2>1 DEF Transfers, Services
  <2>3. e \in Wires /\ e.op = "ERROR"
    BY DEF Wires
  <2> HIDE DEF e
  <2>4. \A i \in DOMAIN down'[t] : down'[t][i].op = "ERROR"
    <3>1. DOMAIN <<e>> = {1} /\ <<e>>[1] = e
      OBVIOUS
    <3> QED BY <2>1, <2>3, <3>1
  <2>5. ServerInv(t)'
    <3>1. tftp'.our_port = tftp.our_port
            /\ srv[t].block \in 0 .. LastOf(srv[t].size)
      BY <1>1 DEF ServerInv
    <3> QED BY <1>2, <1>3, <2>2, <2>4, <3>1 DEF ServerInv
  <2>6. Fresh(t)'
    BY <1>2, <2>2 DEF Fresh
  <2>7. NetTypes'
    <3>1. down'[t] \in Seq(Wires)
      BY <2>1, <2>3
    <3>2. requests' \subseteq Ports
      BY <1>1 DEF NetTypes
    <3>3. srv' \in [Tids -> Services]
      <4>1. srv' = [srv EXCEPT ![t] = [srv[t] EXCEPT !.phase = "refused",
              !.port = port]]
        BY <1>1, <1>8 DEF NetTypes
      <4> QED BY <1>1, <2>1, <2>2, <4>1 DEF NetTypes
    <3> QED BY <1>1, <1>8, <3>1, <3>2, <3>3 DEF NetTypes
  <2> QED BY <1>1, <1>4, <2>1, <2>5, <2>6, <2>7, ServerStep
<1>9. \/ \E s \in {[phase |-> "oack", port |-> port, size |-> BigBlock,
           block |-> 0],
                   [phase |-> "data", port |-> port, size |-> SmallBlock,
                     block |-> 1]} :
           /\ srv' = [srv EXCEPT ![t] = s]
           /\ down' = [down EXCEPT ![t] = <<Packet(s)>>]
      \/ \E fatal \in BOOLEAN :
           /\ srv' = [srv EXCEPT ![t].phase = "refused", ![t].port = port]
           /\ down' = [down EXCEPT ![t] = <<[op |-> "ERROR", fatal |-> fatal]>>]
  BY DEF Serve
<1> QED BY <1>5, <1>7, <1>8, <1>9

\* A packet that is lost, or that we drop
LEMMA DownLost ==
  ASSUME TftpInv, NEW t \in Tids, down[t] # <<>>,
         down' = [down EXCEPT ![t] = Tail(down[t])],
         UNCHANGED <<tftp, loopVars, fileVars, result, requests, srv, up>>
  PROVE  TftpInv'
<1>1. /\ NetTypes /\ ServerInv(t)
      /\ t # tftp.remote_port /\ srv[t].port = tftp.our_port => Fresh(t)
      /\ UNCHANGED <<tftp, mem, net_state, requests, srv, up>>
  BY DEF TftpInv, ServersInv, loopVars, fileVars
<1>2. MemKept /\ tftp'.our_port \in Nat /\ tftp'.our_port = tftp.our_port
  BY <1>1, PortNumbers DEF MemKept
<1>3. ServerInv(t)'
  <2>1. up'[t] = up[t] /\ srv' = srv /\ tftp'.our_port >= tftp.our_port
    BY <1>1, <1>2
  <2> QED BY <1>1, <1>2, <2>1, DownTaken
<1>4. down[t] \in Seq(Wires) /\ down'[t] = Tail(down[t])
  BY <1>1 DEF NetTypes
<1>5. down'[t] \in Seq(Wires) /\ \A x : All(down[t], x) => All(down'[t], x)
  <2>1. Tail(down[t]) \in Seq(Wires)
    BY <1>4, TurnsTail
  <2>2. ASSUME NEW x, All(down[t], x) PROVE All(Tail(down[t]), x)
    BY <1>4, <2>2, TurnsTail
  <2> QED BY <1>4, <2>1, <2>2
<1>6. ASSUME NEW k \in Nat, Loading(t, k)
      PROVE  Loading(t, k)'
  <2>1. \A n : Has(n) => Has(n)'
    BY <1>1 DEF Has
  <2> QED BY <1>1, <1>5, <1>6, <2>1 DEF Loading
<1>7. NetTypes'
  BY <1>1, <1>5 DEF NetTypes
<1>8. OthersSame(t)
  BY <1>1 DEF OthersSame, NetTypes
<1>9. (t # tftp.remote_port /\ srv[t].port = tftp.our_port => Fresh(t))'
  BY <1>1 DEF Fresh
<1> QED BY <1>1, <1>3, <1>6, <1>7, <1>8, <1>9, ServerStep

\* An acknowledgement that is lost
LEMMA UpLost ==
  ASSUME TftpInv, NEW t \in Tids, up[t] # <<>>,
         up' = [up EXCEPT ![t] = Tail(up[t])],
         UNCHANGED <<tftp, loopVars, fileVars, result, requests, srv, down>>
  PROVE  TftpInv'
<1>1. /\ NetTypes /\ ServerInv(t)
      /\ t # tftp.remote_port /\ srv[t].port = tftp.our_port => Fresh(t)
      /\ UNCHANGED <<tftp, mem, net_state, requests, srv, down>>
  BY DEF TftpInv, ServersInv, loopVars, fileVars
<1>2. ServerInv(t)'
  BY <1>1, UpTaken
<1>3. up[t] \in Seq(0 .. SeqSize - 1) /\ up'[t] = Tail(up[t])
  BY <1>1 DEF NetTypes
<1>4. up'[t] \in Seq(0 .. SeqSize - 1) /\ \A x : All(up[t], x) => All(up'[t], x)
  <2>1. Tail(up[t]) \in Seq(0 .. SeqSize - 1)
    BY <1>3, TurnsTail
  <2>2. ASSUME NEW x, All(up[t], x) PROVE All(Tail(up[t]), x)
    BY <1>3, <2>2, TurnsTail
  <2> QED BY <1>3, <2>1, <2>2
<1>5. ASSUME NEW k \in Nat, Loading(t, k)
      PROVE  Loading(t, k)'
  <2>1. \A n : Has(n) => Has(n)'
    BY <1>1 DEF Has
  <2> QED BY <1>1, <1>4, <1>5, <2>1 DEF Loading
<1>6. NetTypes'
  BY <1>1, <1>4 DEF NetTypes
<1>7. OthersSame(t)
  BY <1>1 DEF OthersSame, NetTypes
<1>8. (t # tftp.remote_port /\ srv[t].port = tftp.our_port => Fresh(t))'
  BY <1>1 DEF Fresh
<1> QED BY <1>1, <1>2, <1>5, <1>6, <1>7, <1>8, ServerStep

-----------------------------------------------------------------------------
(***************************************************************************)
(* The loop's steps.                                                       *)
(***************************************************************************)
\* Nothing happens to the servers, and we stay where we are with ours.
StaysThere ==
  /\ tftp'.state = tftp.state /\ tftp'.remote_port = tftp.remote_port
  /\ tftp'.our_port = tftp.our_port /\ tftp'.block_size = tftp.block_size
  /\ tftp'.cur_block = tftp.cur_block /\ tftp'.prev_block = tftp.prev_block
  /\ tftp'.wrap_offset = tftp.wrap_offset
  /\ net_state \in {"FAIL", "RESTART"} => net_state' \in {"FAIL", "RESTART"}

\* The invariant of servers and client is kept then.
LEMMA ClientStep ==
  ASSUME TftpInv, StaysThere, UNCHANGED <<mem, srv, down, up>>
  PROVE  ServersInv' /\ ClientInv'
<1>1. \A n : Has(n) => Has(n)'
  BY DEF Has
<1>2. MemKept /\ tftp.our_port \in Nat /\ tftp'.our_port = tftp.our_port
        /\ \A t \in Tids : srv[t].port \in Nat
  BY PortNumbers DEF MemKept, StaysThere, TftpInv
<1>3. ASSUME NEW t \in Tids PROVE ServerInv(t)'
  <2>1. ServerInv(t)
    BY DEF TftpInv, ServersInv
  <2>2. srv'[t] = srv[t] /\ down'[t] = down[t] /\ up'[t] = up[t]
          /\ tftp'.our_port \in Nat /\ tftp'.our_port >= tftp.our_port
    BY <1>2
  <2> QED BY <1>2, <2>1, <2>2, OtherServer
<1>4. ServersInv'
  BY <1>3 DEF TftpInv, ServersInv, StaysThere, Fresh
<1>5. CASE tftp.state = "SEND_RRQ"
  BY <1>4, <1>5 DEF TftpInv, ClientInv, StaysThere
<1>6. CASE tftp.state # "SEND_RRQ"
  <2>1. PICK k \in Nat : tftp.remote_port \in Tids
          /\ Loading(tftp.remote_port, k)
    BY <1>6 DEF TftpInv, ClientInv
  <2>2. PICK r \in Tids : r = tftp.remote_port /\ r = tftp'.remote_port
    BY <2>1 DEF StaysThere
  <2>3. Loading(r, k)
    BY <2>1, <2>2
  <2>4. Loading(r, k)'
    BY <1>1, <2>3 DEF Loading, StaysThere
  <2> QED BY <1>4, <1>6, <2>1, <2>2, <2>4 DEF ClientInv, StaysThere
<1> QED BY <1>5, <1>6

\* net_start_again()
LEMMA StartAgainTry ==
  ASSUME TftpTypeOK, TryInv, NEW now \in {timer, "none"}, timer # "again",
         StartAgain(now)
  PROVE  /\ net_state' \in {"FAIL", "RESTART"}
              \/ (net_state' = net_state /\ timer' = "again")
         /\ timer' \in {"none", "tftp", "again"}
         /\ net_try_count' \in 1 .. Retries + 1
              /\ net_try_count' >= net_try_count
         /\ tftp.our_port <= net_try_count'
         /\ net_state' = "RESTART" \/ timer' = "again" =>
              tftp.our_port < net_try_count'
<1>1. /\ net_try_count \in 1 .. Retries + 1 /\ Retries \in Nat
      /\ tftp.our_port \in 1 .. Retries + 1 /\ tftp.our_port <= net_try_count
      /\ timer \in {"none", "tftp", "again"}
  BY TftpNumbers DEF TftpTypeOK, TryInv, Ports
<1>2. CASE net_try_count > Retries
  BY <1>1, <1>2 DEF StartAgain
<1>3. CASE ~(net_try_count > Retries)
  BY <1>1, <1>3 DEF StartAgain
<1> QED BY <1>2, <1>3

\* The network loses something.
LEMMA LoseKeeps ==
  ASSUME TftpInv, Lose
  PROVE  TftpInv'
<1>1. CASE \E port \in requests : requests' = requests \ {port}
             /\ UNCHANGED <<down, up>>
  <2>1. UNCHANGED <<tftp, net_state, net_try_count, timer, fired, mem,
                    net_boot_file_size, result, srv, down, up>>
          /\ requests' \subseteq requests
    BY <1>1 DEF Lose, loopVars, fileVars
  <2>2. ServersInv' /\ ClientInv'
    BY <2>1, ClientStep DEF StaysThere
  <2>3. TftpTypeOK' /\ NetTypes'
    BY <2>1 DEF TftpInv, TftpTypeOK, NetTypes
  <2>4. TryInv' /\ FileInv'
    BY <2>1 DEF TftpInv, TryInv, FileInv, InPlace, Has
  <2> QED BY <2>2, <2>3, <2>4 DEF TftpInv
<1>2. CASE \E t \in Tids : down[t] # <<>>
             /\ down' = [down EXCEPT ![t] = Tail(@)]
                           /\ UNCHANGED <<requests, up>>
  BY <1>2, DownLost DEF Lose
<1>3. CASE \E t \in Tids : up[t] # <<>> /\ up' = [up EXCEPT ![t] = Tail(@)]
                           /\ UNCHANGED <<requests, down>>
  BY <1>3, UpLost DEF Lose
<1> QED BY <1>1, <1>2, <1>3 DEF Lose

\* net_loop() fails, succeeds or begins again,
LEMMA LoopKeeps ==
  ASSUME TftpInv, AgainTimeout \/ LoopFail \/ LoopSuccess
  PROVE  TftpInv'
<1>1. UNCHANGED <<tftp, mem, net_boot_file_size, requests, srv, down, up>>
        /\ Running
  BY DEF AgainTimeout, LoopFail, LoopSuccess, fileVars
<1>2. /\ net_state' \in {"CONTINUE", "RESTART", "SUCCESS", "FAIL"}
      /\ timer' \in {"none", "tftp", "again"} /\ fired' \in BOOLEAN
      /\ result' \in {"running", "ok", "failed"}
      /\ net_state \in {"FAIL", "RESTART"} => net_state' \in {"FAIL", "RESTART"}
      /\ net_state' = "SUCCESS" \/ result' = "ok" => net_state = "SUCCESS"
  BY DEF AgainTimeout, LoopFail, LoopSuccess, TftpInv, TftpTypeOK, loopVars,
         Running
<1>3. /\ net_try_count' \in 1 .. Retries + 1
      /\ tftp.our_port <= net_try_count'
      /\ net_state' = "RESTART" \/ timer' = "again" =>
           tftp.our_port < net_try_count'
  <2>1. /\ net_try_count \in 1 .. Retries + 1 /\ Retries \in Nat
             /\ tftp.our_port \in Nat
        /\ tftp.our_port <= net_try_count
        /\ net_state = "RESTART" \/ timer = "again" =>
             tftp.our_port < net_try_count
    BY TftpNumbers, PortNumbers DEF TftpInv, TftpTypeOK, TryInv
  <2>2. \/ /\ net_try_count' = net_try_count
           /\ net_state' = "RESTART" \/ timer' = "again" =>
                net_state = "RESTART" \/ timer = "again"
        \/ net_try_count' = net_try_count + 1 /\ net_try_count <= Retries
    BY DEF AgainTimeout, LoopFail, LoopSuccess, loopVars
  <2> QED BY <2>1, <2>2
<1>4. tftp.timeout_count > MaxTimeouts =>
        timer' = "again" \/ net_state' # "CONTINUE"
  BY DEF AgainTimeout, LoopFail, LoopSuccess, loopVars, TftpInv, TryInv
<1>5. ServersInv' /\ ClientInv'
  BY <1>1, <1>2, ClientStep DEF StaysThere
<1>6. TftpTypeOK' /\ NetTypes'
  BY <1>1, <1>2, <1>3 DEF TftpInv, TftpTypeOK, NetTypes
<1>7. TryInv'
  BY <1>1, <1>3, <1>4 DEF TftpInv, TryInv
<1>8. FileInv'
  BY <1>1, <1>2 DEF TftpInv, FileInv, InPlace, Has
<1> QED BY <1>5, <1>6, <1>7, <1>8 DEF TftpInv

\* with nothing sent, where the file may not be loaded,
LEMMA RefuseKeeps ==
  ASSUME TftpInv, LoopRestart, ~LoadAddrFree
  PROVE  TftpInv'
<1>1. /\ net_state = "RESTART" /\ net_state' = "FAIL" /\ fired' = FALSE
      /\ net_boot_file_size' = 0 /\ result' = "running"
      /\ UNCHANGED <<tftp, timer, net_try_count, mem, requests, srv, down, up>>
  BY DEF LoopRestart, SendNothing, Running
<1>2. ServersInv' /\ ClientInv'
  BY <1>1, ClientStep DEF StaysThere
<1>3. TryInv' /\ NetTypes'
  BY <1>1 DEF TftpInv, TryInv, NetTypes
<1>4. FileInv'
  <2>1. 0 <= FileLen
    BY TftpNumbers
  <2> QED BY <1>1, <2>1 DEF TftpInv, FileInv, InPlace
<1>5. TftpTypeOK'
  <2>1. \E n \in MemSizes :
          mem \in [0 .. n - 1 -> 0 .. FileLen \cup {Nothing}] /\ 0 \in 0 .. n
    <3>1. PICK n \in MemSizes :
            /\ mem \in [0 .. n - 1 -> 0 .. FileLen \cup {Nothing}]
            /\ net_boot_file_size \in 0 .. n
      BY DEF TftpInv, TftpTypeOK
    <3>2. 0 \in 0 .. n
      BY TftpNumbers
    <3> QED BY <3>1, <3>2
  <2> QED BY <1>1, <2>1 DEF TftpInv, TftpTypeOK
<1> QED BY <1>2, <1>3, <1>4, <1>5 DEF TftpInv

\* with a new port, which no server knows.
LEMMA RestartKeeps ==
  ASSUME TftpInv, LoopRestart, LoadAddrFree
  PROVE  TftpInv'
<1>1. /\ net_state = "RESTART" /\ net_state' = "CONTINUE" /\ timer' = "tftp"
      /\ fired' = FALSE /\ net_boot_file_size' = 0 /\ result' = "running"
      /\ UNCHANGED <<net_try_count, mem, srv, down, up>>
      /\ tftp' = Started(tftp, net_try_count)
      /\ requests' = requests \cup {tftp'.our_port}
  <2>1. tftp' = Started(tftp, net_try_count) /\ tftp \in Transfers
    BY DEF LoopRestart, TftpInv, NetTypes
  <2>2. tftp'.state = "SEND_RRQ"
    BY <2>1 DEF Started
  <2> QED BY <2>2 DEF LoopRestart, Send, Running
<1>2. /\ tftp'.state = "SEND_RRQ" /\ tftp'.remote_port = WellKnown
      /\ tftp'.our_port = net_try_count /\ tftp'.cur_block = 0
      /\ tftp'.block_size = SmallBlock /\ tftp'.timeout_count = 0
      /\ tftp'.prev_block = tftp.prev_block
           /\ tftp'.wrap_offset = tftp.wrap_offset
      /\ tftp' \in Transfers
  <2>1. tftp \in Transfers
    BY DEF TftpInv, NetTypes
  <2>2. net_try_count \in Ports /\ SmallBlock \in BlockSizes
          /\ 0 \in 0 .. SeqSize - 1 /\ 0 \in 0 .. MaxTimeouts + 1
    BY TftpNumbers DEF TftpInv, TftpTypeOK, Ports, BlockSizes
  <2> QED BY <1>1, <2>1, <2>2 DEF Started, Transfers, Services
<1>3. /\ tftp.our_port \in Nat /\ net_try_count \in Nat
           /\ tftp.our_port < net_try_count
      /\ \A t \in Tids : srv[t].port \in Nat /\ srv[t].port <= tftp.our_port
      /\ requests \subseteq 1 .. tftp.our_port
  <2>1. net_try_count \in Nat
    BY TftpNumbers DEF TftpInv, TftpTypeOK
  <2>2. tftp.our_port < net_try_count /\ requests \subseteq 1 .. tftp.our_port
    BY <1>1 DEF TftpInv, TryInv
  <2>3. \A t \in Tids : srv[t].port <= tftp.our_port
    BY DEF TftpInv, ServersInv, ServerInv
  <2> QED BY <2>1, <2>2, <2>3, PortNumbers DEF TftpInv
<1>4. ASSUME NEW t \in Tids
      PROVE  ServerInv(t)' /\ srv'[t].port # tftp'.our_port
  <2>1. ServerInv(t) /\ MemKept
    BY <1>1 DEF TftpInv, ServersInv, MemKept
  <2>2. srv'[t] = srv[t] /\ down'[t] = down[t] /\ up'[t] = up[t]
          /\ srv[t].port \in Nat
          /\ tftp'.our_port \in Nat /\ tftp'.our_port >= tftp.our_port
          /\ srv[t].port < tftp'.our_port
    BY <1>1, <1>2, <1>3
  <2>3. ServerInv(t)'
    BY <1>3, <2>1, <2>2, OtherServer
  <2> QED BY <2>2, <2>3
<1>5. ServersInv'
  BY <1>4 DEF ServersInv
<1>6. ClientInv'
  BY <1>2 DEF ClientInv
<1>7. TryInv'
  <2>1. requests' \subseteq 1 .. tftp'.our_port
    BY <1>1, <1>2, <1>3
  <2>2. ~(tftp'.timeout_count > MaxTimeouts)
    BY <1>2, TftpNumbers
  <2> QED BY <1>1, <1>2, <1>3, <2>1, <2>2 DEF TryInv
<1>8. FileInv'
  <2>1. 0 <= FileLen
    BY TftpNumbers
  <2> QED BY <1>1, <2>1 DEF TftpInv, FileInv, InPlace
<1>9. NetTypes'
  <2>1. requests' \subseteq Ports
    BY <1>1, <1>2 DEF TftpInv, NetTypes, Transfers, Services
  <2> QED BY <1>1, <1>2, <2>1 DEF TftpInv, NetTypes
<1>10. TftpTypeOK'
  <2>1. \E n \in MemSizes :
          mem \in [0 .. n - 1 -> 0 .. FileLen \cup {Nothing}] /\ 0 \in 0 .. n
    <3>1. PICK n \in MemSizes :
            /\ mem \in [0 .. n - 1 -> 0 .. FileLen \cup {Nothing}]
            /\ net_boot_file_size \in 0 .. n
      BY DEF TftpInv, TftpTypeOK
    <3>2. 0 \in 0 .. n
      BY TftpNumbers
    <3> QED BY <3>1, <3>2
  <2> QED BY <1>1, <1>2, <2>1 DEF TftpInv, TftpTypeOK, BlockSizes, Transfers,
             Services
<1> QED BY <1>5, <1>6, <1>7, <1>8, <1>9, <1>10 DEF TftpInv

-----------------------------------------------------------------------------
(***************************************************************************)
(* Acknowledgements.                                                       *)
(***************************************************************************)
\* Another acknowledgement of a block that is being acknowledged, or of the
\* newer one
LEMMA AckPut ==
  ASSUME NEW T, NEW u \in Seq(T), NEW x \in T, NEW z, NEW v \in {u, Put(u, x)}
  PROVE  /\ v \in Seq(T)
         /\ Turns(u, z, x) => Turns(v, z, x)
         /\ All(u, x) => All(v, x)
<1>1. CASE v = u
  BY <1>1
<1>2. CASE v = Append(u, x)
  <2>1. Append(u, x) \in Seq(T)
    BY AppendProperties
  <2>2. Turns(u, z, x) => Turns(Append(u, x), z, x)
    BY TurnsAppend
  <2>3. All(u, x) => All(Append(u, x), x)
    BY TurnsAppend
  <2> QED BY <1>2, <2>1, <2>2, <2>3
<1> QED BY <1>1, <1>2, PutAdds

\* The server we load from, after a step in which we acknowledge a block or say
\* nothing, take a packet or not, and store one or not
LEMMA LoadStep ==
  ASSUME NetTypes, NetTypes', NEW t \in Tids, ServerInv(t), MemKept,
         NEW k \in Nat, NEW b \in Nat, NEW size \in BlockSizes,
         srv[t].block = b, srv[t].size = size, srv' = srv,
         srv[t].phase \in {"oack", "data", "done"},
         tftp'.our_port = tftp.our_port,
         All(down'[t], Nth(size, k)) \/ b = k + 1,
         Turns(down'[t], Nth(size, Before(b)), Nth(size, b)),
         All(down[t], Nth(size, b)) => All(down'[t], Nth(size, b)),
         k = b \/ (b = k + 1 /\ srv[t].phase = "data"
           /\ All(up[t], k % SeqSize)),
         \/ up'[t] = up[t]
         \/ up'[t] = Put(up[t], k % SeqSize) /\ (k = b => Has(End(size, k))')
  PROVE  /\ ServerInv(t)'
         /\ b = k + 1 => All(up'[t], k % SeqSize)
<1>1. up[t] \in Seq(0 .. SeqSize - 1) /\ Channel(t, size, b)
  BY DEF NetTypes, ServerInv
<1>2. Turns(up[t], Before(b) % SeqSize, b % SeqSize)
  BY <1>1 DEF Channel
<1>3. /\ Turns(up'[t], Before(b) % SeqSize, b % SeqSize)
      /\ b = k + 1 => All(up'[t], k % SeqSize)
      /\ (\E i \in DOMAIN up'[t] : up'[t][i] = b % SeqSize) =>
           k = b \/ \E i \in DOMAIN up[t] : up[t][i] = b % SeqSize
  <2>0. PICK numbers : numbers = 0 .. SeqSize - 1
    OBVIOUS
  <2>1. PICK u \in Seq(numbers) : u = up[t]
    BY <1>1, <2>0
  <2>2. PICK v : v = up'[t]
    OBVIOUS
  <2>3. PICK x \in numbers : x = k % SeqSize
    BY <2>0, NumbersDiffer
  <2>4. PICK y : y = b % SeqSize
    OBVIOUS
  <2>5. PICK z : z = Before(b) % SeqSize
    OBVIOUS
  <2>6. v \in {u, Put(u, x)} /\ Turns(u, z, y)
    BY <1>2, <2>1, <2>2, <2>3, <2>4, <2>5
  <2>7. CASE k = b
    <3>1. x = y /\ b # k + 1
      BY <2>3, <2>4, <2>7
    <3>2. Turns(v, z, y)
      <4>1. v \in Seq(numbers) /\ (Turns(u, z, x) => Turns(v, z, x))
        BY <2>1, <2>3, <2>6, AckPut
      <4> QED BY <2>6, <3>1, <4>1
    <3> QED BY <2>1, <2>2, <2>3, <2>4, <2>5, <2>7, <3>1, <3>2
  <2>8. CASE b = k + 1 /\ All(up[t], k % SeqSize)
    <3>1. x # y /\ z = x
      BY <2>3, <2>4, <2>5, <2>8, NumbersDiffer
    <3>2. All(v, x)
      <4>1. v \in Seq(numbers) /\ (All(u, x) => All(v, x))
        BY <2>1, <2>3, <2>6, AckPut
      <4> QED BY <2>1, <2>3, <2>8, <4>1
    <3>3. Turns(v, z, y) /\ ~ \E i \in DOMAIN v : v[i] = y
      BY <3>1, <3>2 DEF Turns, All
    <3> QED BY <2>1, <2>2, <2>3, <2>4, <2>5, <2>8, <3>2, <3>3
  <2> QED BY <2>7, <2>8
<1>4. \A n : Has(n) => Has(n)'
  BY HasKept
<1>5. ASSUME \E i \in DOMAIN up'[t] : up'[t][i] = b % SeqSize
      PROVE  Has(End(size, b))' /\ All(down'[t], Nth(size, b))
  <2>1. CASE \E i \in DOMAIN up[t] : up[t][i] = b % SeqSize
    <3>1. Has(End(size, b)) /\ All(down[t], Nth(size, b))
      BY <1>1, <2>1 DEF Channel
    <3> QED BY <1>4, <3>1
  <2>2. CASE ~ \E i \in DOMAIN up[t] : up[t][i] = b % SeqSize
    <3>1. k = b
      BY <1>3, <1>5, <2>2
    <3>2. b # k + 1
      BY <3>1
    <3>3. All(down'[t], Nth(size, b))
      BY <3>1, <3>2
    <3>4. up'[t] # up[t]
      BY <1>5, <2>2
    <3> QED BY <3>1, <3>3, <3>4
  <2> QED BY <2>1, <2>2
<1>6. Channel(t, size, b)'
  BY <1>3, <1>5 DEF Channel
<1>7. Channel(t, srv[t].size, srv[t].block)'
  BY <1>6
<1>8. tftp.our_port \in Nat /\ srv[t].port \in Nat
  BY PortNumbers
<1> QED BY <1>3, <1>4, <1>7, <1>8 DEF ServerInv

\* tftp_timeout_handler(): the request or the last acknowledgement again
LEMMA TimeoutKeeps ==
  ASSUME TftpInv, TftpTimeout
  PROVE  TftpInv'
<1> DEFINE n == tftp.timeout_count + 1
<1>1. /\ Running /\ timer = "tftp" /\ net_state = "CONTINUE"
      /\ tftp' = [tftp EXCEPT !.timeout_count = n]
      /\ fired' = (net_state' # "CONTINUE")
      /\ UNCHANGED <<mem, net_boot_file_size, result, srv, down>>
  BY DEF TftpTimeout, fileVars
<1>2. tftp \in Transfers
  BY DEF TftpInv, NetTypes
<1>3. n \in 0 .. MaxTimeouts + 1
  BY <1>1, <1>2, TftpNumbers DEF TftpInv, TryInv, Transfers, Services
<1>4. /\ tftp' \in Transfers
      /\ tftp'.timeout_count = n /\ StaysThere
  BY <1>1, <1>2, <1>3 DEF StaysThere, Transfers, Services
<1>5. \/ /\ n > MaxTimeouts /\ StartAgain("none") /\ UNCHANGED <<requests, up>>
      \/ /\ ~(n > MaxTimeouts) /\ Send(tftp')
         /\ UNCHANGED <<net_state, net_try_count, timer>>
  BY <1>1, <1>2 DEF TftpTimeout, SendNothing
<1> HIDE DEF n
<1>6. CASE n > MaxTimeouts
  <2>1. StartAgain("none") /\ UNCHANGED <<requests, up>>
    BY <1>5, <1>6
  <2>2. /\ net_state' \in {"FAIL", "RESTART"}
             \/ (net_state' = net_state /\ timer' = "again")
        /\ timer' \in {"none", "tftp", "again"}
        /\ net_try_count' \in 1 .. Retries + 1
        /\ tftp.our_port <= net_try_count'
        /\ net_state' = "RESTART" \/ timer' = "again" =>
             tftp.our_port < net_try_count'
    BY <1>1, <2>1, StartAgainTry DEF TftpInv
  <2>3. ServersInv' /\ ClientInv'
    BY <1>1, <1>4, <2>1, ClientStep
  <2>4. TftpTypeOK'
    BY <1>1, <1>4, <2>2 DEF TftpInv, TftpTypeOK, StaysThere, Transfers, Services
  <2>5. NetTypes'
    BY <1>1, <1>4, <2>1 DEF TftpInv, NetTypes
  <2>6. TryInv'
    BY <1>1, <1>4, <2>1, <2>2 DEF TftpInv, TryInv, StaysThere
  <2>7. FileInv'
    BY <1>1, <2>2 DEF TftpInv, FileInv, InPlace, Has, Running
  <2> QED BY <2>3, <2>4, <2>5, <2>6, <2>7 DEF TftpInv
<1>7. CASE ~(n > MaxTimeouts)
  <2>1. Send(tftp') /\ UNCHANGED <<net_state, net_try_count, timer>>
    BY <1>5, <1>7
  <2>2. fired' = FALSE
    BY <1>1, <2>1
  <2>3. TftpTypeOK'
    BY <1>1, <1>4, <2>1 DEF TftpInv, TftpTypeOK, StaysThere, Transfers, Services
  <2>4. FileInv'
    BY <1>1, <2>1 DEF TftpInv, FileInv, InPlace, Has
  <2>5. CASE tftp.state = "SEND_RRQ"
    <3>1. requests' = requests \cup {tftp.our_port} /\ UNCHANGED up
      BY <1>4, <2>1, <2>5 DEF Send, StaysThere
    <3>2. ServersInv' /\ ClientInv'
      BY <1>1, <1>4, <3>1, ClientStep
    <3>3. tftp.our_port \in 1 .. tftp.our_port /\ tftp.our_port \in Ports
      BY <1>2, TftpNumbers DEF Ports, Transfers, Services
    <3>4. NetTypes'
      BY <1>1, <1>4, <3>1, <3>3 DEF TftpInv, NetTypes
    <3>5. TryInv'
      BY <1>1, <1>4, <1>7, <2>1, <3>1, <3>3 DEF TftpInv, TryInv, StaysThere
    <3> QED BY <2>3, <2>4, <3>2, <3>4, <3>5 DEF TftpInv
  <2>6. CASE tftp.state # "SEND_RRQ"
    <3>0. PICK t \in Tids, k \in Nat : t = tftp.remote_port /\ Loading(t, k)
      BY <2>6 DEF TftpInv, ClientInv
    <3>1. /\ up' = [up EXCEPT ![t] = Put(up[t], k % SeqSize)]
               /\ requests' = requests
          /\ tftp'.remote_port = t
      BY <1>4, <2>1, <2>6, <3>0 DEF Send, StaysThere, Loading
    <3>2. /\ ServerInv(t) /\ NetTypes /\ up[t] \in Seq(0 .. SeqSize - 1)
          /\ up'[t] = Put(up[t], k % SeqSize)
      BY <3>1 DEF TftpInv, ServersInv, NetTypes
    <3>3. k % SeqSize \in 0 .. SeqSize - 1
      BY NumbersDiffer
    <3>4. up'[t] \in Seq(0 .. SeqSize - 1)
      <4>1. Append(up[t], k % SeqSize) \in Seq(0 .. SeqSize - 1)
        BY <3>2, <3>3, AppendProperties
      <4> QED BY <3>2, <4>1, PutAdds
    <3>5. NetTypes'
      BY <1>1, <1>4, <3>1, <3>2, <3>4 DEF NetTypes
    <3>6. PICK b \in Nat, size \in BlockSizes : b = srv[t].block
            /\ size = srv[t].size
      BY <3>2 DEF NetTypes, Transfers, Services
    <3>7. \A m : Has(m) => Has(m)'
      BY <1>1 DEF Has
    <3>8. MemKept /\ tftp'.our_port = tftp.our_port
      BY <1>1, <1>4 DEF MemKept, StaysThere
    <3>9. /\ srv[t].phase \in {"oack", "data", "done"}
          /\ \/ k = b /\ All(down[t], Nth(size, k)) /\ Has(End(size, k))
             \/ b = k + 1 /\ srv[t].phase = "data" /\ All(up[t], k % SeqSize)
      BY <1>1, <3>0, <3>6 DEF Loading
    <3>10. ServerInv(t)' /\ (b = k + 1 => All(up'[t], k % SeqSize))
      <4>1. Turns(down[t], Nth(size, Before(b)), Nth(size, b))
        BY <3>2, <3>6, <3>9 DEF ServerInv, Channel
      <4>2. k = b => b # k + 1
        OBVIOUS
      <4>3. k = b => Has(End(size, k))'
        BY <3>7, <3>9, <4>2
      <4> QED BY <1>1, <3>2, <3>5, <3>6, <3>8, <3>9, <4>1, <4>3, LoadStep
    <3>11. Loading(t, k)'
      BY <1>1, <1>4, <3>0, <3>6, <3>7, <3>9, <3>10 DEF Loading, StaysThere
    <3>12. ClientInv'
      BY <1>4, <2>6, <3>0, <3>1, <3>11 DEF ClientInv, StaysThere
    <3>13. ASSUME NEW r \in Tids, r # t
           PROVE  ServerInv(r)' /\ (srv[r].port = tftp.our_port => Fresh(r))'
      <4>1. srv'[r] = srv[r] /\ down'[r] = down[r] /\ up'[r] = up[r]
        BY <1>1, <3>1, <3>2, <3>13 DEF NetTypes
      <4>2. ServerInv(r) /\ (srv[r].port = tftp.our_port => Fresh(r))
        BY <3>0, <3>13 DEF TftpInv, ServersInv
      <4>3. tftp.our_port \in Nat /\ srv[r].port \in Nat
        BY <3>2, PortNumbers
      <4>4. ServerInv(r)'
        BY <3>8, <4>1, <4>2, <4>3, OtherServer
      <4> QED BY <3>8, <4>1, <4>2, <4>4 DEF Fresh
    <3>14. ServersInv'
      BY <3>1, <3>10, <3>13 DEF ServersInv
    <3>15. TryInv'
      BY <1>1, <1>4, <1>7, <2>1, <3>1 DEF TftpInv, TryInv, StaysThere
    <3> QED BY <2>3, <2>4, <3>5, <3>12, <3>14, <3>15 DEF TftpInv
  <2> QED BY <2>5, <2>6
<1> QED BY <1>6, <1>7

-----------------------------------------------------------------------------
(***************************************************************************)
(* What we receive.                                                        *)
(***************************************************************************)
\* A packet we take without saying anything, and stay where we are
LEMMA QuietReceive ==
  ASSUME TftpInv, NEW t \in Tids, down[t] # <<>>,
         down' = [down EXCEPT ![t] = Tail(down[t])], StaysThere,
         UNCHANGED <<mem, srv, up>>
  PROVE  ServersInv' /\ ClientInv' /\ down' \in [Tids -> Seq(Wires)]
<1>1. \A n : Has(n) => Has(n)'
  BY DEF Has
<1>2. /\ MemKept /\ NetTypes /\ tftp.our_port \in Nat
      /\ tftp'.our_port = tftp.our_port /\ \A r \in Tids : srv[r].port \in Nat
  BY PortNumbers DEF MemKept, StaysThere, TftpInv
<1>3. down[t] \in Seq(Wires) /\ down'[t] = Tail(down[t])
  BY <1>2 DEF NetTypes
<1>4. /\ down'[t] \in Seq(Wires) /\ \A x : All(down[t], x) => All(down'[t], x)
      /\ down' \in [Tids -> Seq(Wires)]
  <2>1. Tail(down[t]) \in Seq(Wires)
    BY <1>3, TurnsTail
  <2>2. ASSUME NEW x, All(down[t], x) PROVE All(Tail(down[t]), x)
    BY <1>3, <2>2, TurnsTail
  <2> QED BY <1>2, <1>3, <2>1, <2>2 DEF NetTypes
<1>5. ASSUME NEW r \in Tids PROVE ServerInv(r)'
  <2>1. ServerInv(r) /\ up'[r] = up[r] /\ srv'[r] = srv[r]
          /\ tftp'.our_port \in Nat /\ tftp'.our_port >= tftp.our_port
    BY <1>2 DEF TftpInv, ServersInv
  <2>2. CASE r = t
    BY <1>2, <2>1, <2>2, DownTaken
  <2>3. CASE r # t
    <3>1. down'[r] = down[r]
      BY <1>2, <2>3 DEF NetTypes
    <3> QED BY <1>2, <2>1, <3>1, OtherServer
  <2> QED BY <2>2, <2>3
<1>6. ServersInv'
  BY <1>5 DEF TftpInv, ServersInv, StaysThere, Fresh
<1>7. CASE tftp.state = "SEND_RRQ"
  BY <1>4, <1>6, <1>7 DEF TftpInv, ClientInv, StaysThere
<1>8. CASE tftp.state # "SEND_RRQ"
  <2>1. PICK k \in Nat : tftp.remote_port \in Tids
          /\ Loading(tftp.remote_port, k)
    BY <1>8 DEF TftpInv, ClientInv
  <2>2. PICK r \in Tids : r = tftp.remote_port /\ r = tftp'.remote_port
    BY <2>1 DEF StaysThere
  <2>3. Loading(r, k)
    BY <2>1, <2>2
  <2>4. \A x : All(down[r], x) => All(down'[r], x)
    <3>1. r # t => down'[r] = down[r]
      BY <1>2 DEF NetTypes
    <3> QED BY <1>4, <3>1
  <2>5. Loading(r, k)'
    BY <1>1, <2>3, <2>4 DEF Loading, StaysThere
  <2> QED BY <1>4, <1>6, <1>8, <2>1, <2>2, <2>5 DEF ClientInv, StaysThere
<1> QED BY <1>7, <1>8

\* The server we load from, or one that answers the request: where it is, where
\* we are, and what it sent
Meets(t, size, k) ==
  LET s == srv[t]
      p == Head(down[t]) IN
  /\ s.size = size /\ s.phase \in {"oack", "data", "done"}
  /\ s.block = k
       \/ (s.block = k + 1 /\ s.phase = "data" /\ All(up[t], k % SeqSize))
  /\ tftp.state = "DATA" <=> k # 0
  /\ tftp.cur_block = k % SeqSize
  /\ k # 0 => /\ tftp.prev_block = k % SeqSize
              /\ tftp.wrap_offset = (k \div SeqSize) * SeqSize * size
  /\ tftp.block_size = size \/ (tftp.state = "SEND_RRQ" /\ s.block = 0)
  /\ p = Nth(size, k) \/ (s.block = k + 1 /\ p = Nth(size, k + 1))

\* The first packet of a channel: an error, or one of the last two blocks
LEMMA HeadPacket ==
  ASSUME TftpInv, NEW t \in Tids, down[t] # <<>>
  PROVE  /\ down[t] \in Seq(Wires) /\ 1 \in DOMAIN down[t]
         /\ Head(down[t]) = down[t][1]
         /\ \/ Head(down[t]).op = "ERROR" /\ srv[t].phase = "refused"
            \/ /\ srv[t].phase \in {"oack", "data", "done"}
               /\ Channel(t, srv[t].size, srv[t].block)
               /\ Head(down[t]) \in {Nth(srv[t].size, Before(srv[t].block)),
                                     Nth(srv[t].size, srv[t].block)}
<1>1. down[t] \in Seq(Wires) /\ ServerInv(t)
        /\ srv[t].phase \in {"free", "refused", "oack", "data", "done"}
  BY DEF TftpInv, NetTypes, ServersInv, Transfers, Services
<1>2. 1 \in DOMAIN down[t] /\ Head(down[t]) = down[t][1]
  BY <1>1, TurnsTail
<1>3. srv[t].phase # "free"
  BY <1>1 DEF ServerInv
<1>4. CASE srv[t].phase = "refused"
  BY <1>1, <1>2, <1>4 DEF ServerInv
<1>5. CASE srv[t].phase \in {"oack", "data", "done"}
  <2>1. Channel(t, srv[t].size, srv[t].block)
    BY <1>1, <1>5 DEF ServerInv
  <2>2. Turns(down[t], Nth(srv[t].size, Before(srv[t].block)),
              Nth(srv[t].size, srv[t].block))
    BY <2>1 DEF Channel
  <2> QED BY <1>1, <1>2, <1>5, <2>1, <2>2 DEF Turns
<1> QED BY <1>1, <1>2, <1>3, <1>4, <1>5

\* What tftp_handler() does not drop, but for an error, is from such a server.
LEMMA AcceptedMeets ==
  ASSUME TftpInv, NEW t \in Tids, down[t] # <<>>,
         Accepted(t), Head(down[t]).op # "ERROR"
  PROVE  \E k \in Nat, size \in BlockSizes : Meets(t, size, k)
<1>1. /\ srv[t].phase \in {"oack", "data", "done"}
      /\ Head(down[t]) \in {Nth(srv[t].size, Before(srv[t].block)),
                            Nth(srv[t].size, srv[t].block)}
      /\ Head(down[t]) = down[t][1] /\ 1 \in DOMAIN down[t]
  BY HeadPacket
<1>2. PICK b \in Nat, size \in BlockSizes : b = srv[t].block
        /\ size = srv[t].size
  BY DEF TftpInv, NetTypes, Transfers, Services
<1>3. /\ Head(down[t]) \in {Nth(size, Before(b)), Nth(size, b)}
      /\ b = 0 <=> srv[t].phase = "oack"
      /\ srv[t].port = tftp.our_port
           /\ tftp.state \in {"SEND_RRQ", "OACK", "DATA"}
  BY <1>1, <1>2 DEF TftpInv, ServersInv, ServerInv, Accepted, TftpTypeOK
<1>4. CASE tftp.state = "SEND_RRQ"
  <2>1. /\ tftp.remote_port = WellKnown /\ tftp.cur_block = 0
        /\ tftp.block_size = SmallBlock /\ Fresh(t)
    BY TidAssumption, <1>3, <1>4 DEF TftpInv, ClientInv, ServersInv
  <2>2. /\ b = 0 \/ (b = 1 /\ size = SmallBlock /\ srv[t].phase = "data")
        /\ up[t] = <<>>
    BY <1>1, <1>2, <1>3, <2>1 DEF Fresh
  <2>3. /\ Before(b) = 0 /\ 0 % SeqSize = 0 /\ All(up[t], 0)
        /\ 0 + 1 = 1 /\ 0 \in Nat
    BY <2>2, SmallNumbers, TurnsEmpty DEF Before
  <2>4. Meets(t, size, 0)
    BY <1>1, <1>2, <1>3, <1>4, <2>1, <2>2, <2>3 DEF Meets
  <2> QED BY <2>3, <2>4
<1>5. CASE tftp.state # "SEND_RRQ"
  <2>1. t = tftp.remote_port
    BY <1>5 DEF Accepted
  <2>2. PICK k \in Nat : Loading(t, k)
    BY <1>5, <2>1 DEF TftpInv, ClientInv
  <2>3. CASE k = b /\ All(down[t], Nth(size, k))
    <3>1. Head(down[t]) = Nth(size, k)
      BY <1>1, <2>3 DEF All
    <3>2. Meets(t, size, k)
      BY <1>1, <1>2, <1>3, <1>5, <2>2, <2>3, <3>1 DEF Meets, Loading
    <3> QED BY <3>2
  <2>4. CASE k + 1 = b /\ srv[t].phase = "data" /\ All(up[t], k % SeqSize)
    <3>1. Before(b) = k
      BY <2>4 DEF Before
    <3>2. Meets(t, size, k)
      BY <1>1, <1>2, <1>3, <1>5, <2>2, <2>4, <3>1 DEF Meets, Loading
    <3> QED BY <3>2
  <2> QED BY <1>2, <2>2, <2>3, <2>4 DEF Loading
<1> QED BY <1>4, <1>5

\* A packet that we drop, and one of a block we have
LEMMA DuplicateDropped ==
  ASSUME TftpInv, NEW t \in Tids, down[t] # <<>>,
         down' = [down EXCEPT ![t] = Tail(down[t])], UNCHANGED <<result, srv>>,
         NEW k \in Nat, NEW size \in BlockSizes, Meets(t, size, k), k # 0,
         Head(down[t]) = Nth(size, k), TakeData(t, Head(down[t]))
  PROVE  TftpInv'
<1>1. Head(down[t]).block = k % SeqSize
  BY NthIs
<1>2. tftp.state = "DATA" /\ tftp.cur_block = k % SeqSize
        /\ tftp.prev_block = k % SeqSize
  BY DEF Meets
<1>3. [tftp EXCEPT !.cur_block = Head(down[t]).block] = tftp
  BY <1>1, <1>2 DEF TftpInv, NetTypes, Transfers, Services
<1>4. UpdateBlockNumber([tftp EXCEPT !.cur_block = Head(down[t]).block]) = tftp
  BY <1>2, <1>3 DEF UpdateBlockNumber
<1>5. tftp' = tftp /\ SendNothing /\ UNCHANGED <<loopVars, fileVars>>
  BY <1>2, <1>4 DEF TakeData
<1> QED BY <1>5, DownLost DEF SendNothing

\* An error
LEMMA ErrorTaken ==
  ASSUME TftpInv, NEW t \in Tids, down[t] # <<>>, Running, ~fired,
         down' = [down EXCEPT ![t] = Tail(down[t])], UNCHANGED <<result, srv>>,
         timer # "again", NEW p, TakeError(p)
  PROVE  TftpInv'
<1>1. UNCHANGED <<tftp, mem, net_boot_file_size, fired, requests, up, srv,
        result>>
  BY DEF TakeError, SendNothing, fileVars
<1>2. /\ net_state' \in {"FAIL", "RESTART"}
           \/ (net_state' = net_state /\ timer' = "again")
      /\ timer' \in {"none", "tftp", "again"}
      /\ net_try_count' \in 1 .. Retries + 1
      /\ tftp.our_port <= net_try_count'
      /\ net_state' = "RESTART" \/ timer' = "again" =>
           tftp.our_port < net_try_count'
  <2>1. CASE p.fatal
    BY <2>1 DEF TakeError, TftpInv, TftpTypeOK, TryInv
  <2>2. CASE ~p.fatal
    BY <2>2, StartAgainTry DEF TakeError, TftpInv
  <2> QED BY <2>1, <2>2
<1>3. ServersInv' /\ ClientInv' /\ down' \in [Tids -> Seq(Wires)]
  <2>1. StaysThere
    BY <1>1, <1>2 DEF StaysThere
  <2> QED BY <1>1, <2>1, QuietReceive
<1>4. TftpTypeOK'
  BY <1>1, <1>2 DEF TftpInv, TftpTypeOK
<1>5. NetTypes'
  BY <1>1, <1>3 DEF TftpInv, NetTypes
<1>6. TryInv'
  BY <1>1, <1>2 DEF TftpInv, TryInv
<1>7. FileInv'
  BY <1>1, <1>2 DEF TftpInv, FileInv, InPlace, Has, Running
<1> QED BY <1>3, <1>4, <1>5, <1>6, <1>7 DEF TftpInv

\* The others, when we hear from this server: they are those we have not
\* answered, or of an earlier try.
LEMMA OthersHear ==
  ASSUME TftpInv, MemKept, NEW t \in Tids, Accepted(t),
         OthersSame(t), tftp'.our_port = tftp.our_port, NEW r \in Tids, r # t
  PROVE  ServerInv(r)' /\ (srv[r].port = tftp.our_port => Fresh(r))'
<1>1. srv'[r] = srv[r] /\ down'[r] = down[r] /\ up'[r] = up[r]
  BY DEF OthersSame
<1>2. ServerInv(r) /\ (srv[r].port = tftp.our_port => Fresh(r))
  BY TidAssumption DEF TftpInv, ServersInv, ClientInv, Accepted
<1>3. tftp.our_port \in Nat /\ srv[r].port \in Nat
  BY PortNumbers DEF TftpInv
<1>4. ServerInv(r)'
  BY <1>1, <1>2, <1>3, OtherServer
<1> QED BY <1>1, <1>2, <1>4 DEF Fresh

\* The server's options, for the first time or again
LEMMA OackTaken ==
  ASSUME TftpInv, NEW t \in Tids, down[t] # <<>>,
         Running, Accepted(t), ~fired,
         down' = [down EXCEPT ![t] = Tail(down[t])], UNCHANGED <<result, srv>>,
         NEW size \in BlockSizes, Meets(t, size, 0),
         Head(down[t]) = Nth(size, 0), TakeOack(t, Head(down[t]))
  PROVE  TftpInv'
<1>0. tftp \in Transfers /\ NetTypes /\ ServerInv(t) /\ 0 % SeqSize = 0
        /\ 0 \in Nat
  BY SmallNumbers DEF TftpInv, NetTypes, ServersInv
<1>1. Head(down[t]).size = size /\ tftp.cur_block = 0 /\ tftp.state # "DATA"
  BY <1>0, NthIs DEF Meets
<1>2. /\ tftp' = [tftp EXCEPT !.state = "OACK", !.remote_port = t,
                              !.block_size = size]
      /\ Send([tftp EXCEPT !.state = "OACK", !.remote_port = t,
                           !.block_size = size])
      /\ UNCHANGED <<net_state, net_try_count, timer, fired, mem,
           net_boot_file_size>>
  BY <1>1 DEF TakeOack, loopVars, fileVars
<1>3. /\ tftp' \in Transfers /\ tftp'.state = "OACK" /\ tftp'.remote_port = t
      /\ tftp'.block_size = size /\ tftp'.cur_block = 0
      /\ tftp'.our_port = tftp.our_port
           /\ tftp'.timeout_count = tftp.timeout_count
      /\ tftp'.prev_block = tftp.prev_block
           /\ tftp'.wrap_offset = tftp.wrap_offset
  BY <1>0, <1>1, <1>2 DEF Transfers
<1>4. up' = [up EXCEPT ![t] = Put(up[t], 0)] /\ requests' = requests
  BY <1>1, <1>0, <1>2, <1>3 DEF Send
<1>5. PICK b \in Nat : b = srv[t].block
  BY <1>0 DEF NetTypes, Transfers, Services
<1>6. /\ down[t] \in Seq(Wires) /\ down'[t] = Tail(down[t])
      /\ up[t] \in Seq(0 .. SeqSize - 1) /\ up'[t] = Put(up[t], 0)
  BY <1>0, <1>4 DEF NetTypes
<1>7. NetTypes'
  <2>1. down'[t] \in Seq(Wires)
    BY <1>6, TurnsTail
  <2>2. 0 \in 0 .. SeqSize - 1
    BY TftpNumbers
  <2>3. up'[t] \in Seq(0 .. SeqSize - 1)
    BY <1>6, <2>2, AckPut
  <2> QED BY <1>0, <1>3, <1>4, <2>1, <2>3 DEF NetTypes
<1>8. MemKept /\ \A n : Has(n) => Has(n)'
  BY <1>2 DEF MemKept, Has
<1>9. /\ srv[t].size = size /\ srv[t].phase \in {"oack", "data", "done"}
      /\ b = 0 \/ (b = 1 /\ srv[t].phase = "data" /\ All(up[t], 0))
  BY <1>0, <1>5 DEF Meets
<1>10. Turns(down[t], Nth(size, Before(b)), Nth(size, b))
  BY <1>0, <1>5, <1>9 DEF ServerInv, Channel
<1>11. Turns(down'[t], Nth(size, Before(b)), Nth(size, b))
  BY <1>6, <1>10, TurnsTail
<1>12. \A x : All(down[t], x) => All(down'[t], x)
  <2>1. down[t] \in Seq(Wires) /\ down'[t] = Tail(down[t])
    BY <1>6
  <2>2. ASSUME NEW x, All(down[t], x) PROVE All(Tail(down[t]), x)
    BY <2>1, <2>2, TurnsTail
  <2> QED BY <2>1, <2>2
<1>13. b = 0 => All(down'[t], Nth(size, 0))
  BY <1>11 DEF Before, Turns, All
<1>14. Has(End(size, 0))'
  <2>1. 0 # LastOf(size) /\ 0 * size = 0
    BY Blocks, TftpNumbers DEF BlockSizes
  <2> QED BY <2>1 DEF Has, End
<1>15. ServerInv(t)' /\ (b = 1 => All(up'[t], 0))
  <2>1. 0 + 1 = 1
    OBVIOUS
  <2>2. b = 0 \/ (b = 0 + 1 /\ srv[t].phase = "data" /\ All(up[t], 0 % SeqSize))
    BY <1>0, <1>9
  <2>3. up'[t] = Put(up[t], 0 % SeqSize) /\ Has(End(size, 0))'
    BY <1>0, <1>6, <1>14
  <2>4. All(down'[t], Nth(size, 0)) \/ b = 0 + 1
    BY <1>9, <1>13
  <2>5. ServerInv(t)' /\ (b = 0 + 1 => All(up'[t], 0 % SeqSize))
    BY <1>0, <1>3, <1>5, <1>7, <1>8, <1>9, <1>11, <1>12, <2>2, <2>3, <2>4,
       LoadStep
  <2> QED BY <1>0, <2>1, <2>5
<1>16. Loading(t, 0)'
  <2>1. srv'[t].port = tftp'.our_port
    BY <1>3 DEF Accepted
  <2> QED BY <1>0, <1>3, <1>5, <1>9, <1>13, <1>14, <1>15, <2>1 DEF Loading
<1>17. ClientInv'
  BY <1>0, <1>3, <1>16 DEF ClientInv
<1>18. ServersInv'
  <2>1. OthersSame(t)
    BY <1>0, <1>4 DEF OthersSame, NetTypes
  <2> QED BY <1>3, <1>8, <1>15, <2>1, OthersHear DEF ServersInv
<1>19. TftpTypeOK'
  BY <1>2, <1>3 DEF TftpInv, TftpTypeOK, Transfers, BlockSizes
<1>20. TryInv'
  BY <1>2, <1>3, <1>4 DEF TftpInv, TryInv
<1>21. FileInv'
  BY <1>2 DEF TftpInv, FileInv, InPlace, Has
<1> QED BY <1>7, <1>17, <1>18, <1>19, <1>20, <1>21 DEF TftpInv

-----------------------------------------------------------------------------
(***************************************************************************)
(* A block that is stored.                                                 *)
(***************************************************************************)
\* The client's variables before store_block(): the block's number, and the
\* wraps up to it.
Numbered(c, t, size, j) ==
  /\ c \in Transfers /\ c.state = "DATA" /\ c.remote_port = t
  /\ c.our_port = tftp.our_port /\ c.block_size = size
  /\ c.cur_block = j % SeqSize
  /\ c.wrap_offset = (j \div SeqSize) * SeqSize * size
  /\ c.timeout_count \in {0, tftp.timeout_count}

\* update_block_number() counts a wrap for the block that has the number 0,
\* and the server's first block begins a transfer.
LEMMA NewBlock ==
  ASSUME TftpInv, NEW t \in Tids, Accepted(t),
         NEW k \in Nat, NEW size \in BlockSizes, Meets(t, size, k),
         srv[t].block = k + 1, NEW p, p = Nth(size, k + 1), TakeData(t, p)
  PROVE  \E c : /\ Numbered(c, t, size, k + 1)
                /\ tftp' = [c EXCEPT !.prev_block = c.cur_block]
                /\ timer' = "tftp" /\ StoreBlock(c, p)
                /\ UNCHANGED <<net_try_count, fired>>
<1>1. /\ p.block = (k + 1) % SeqSize
      /\ tftp.block_size = size /\ tftp.cur_block = k % SeqSize
      /\ tftp.state = "DATA" <=> k # 0
      /\ tftp \in Transfers /\ tftp.state \in {"SEND_RRQ", "OACK", "DATA"}
  BY NthIs DEF Meets, TftpInv, NetTypes, TftpTypeOK
<1>2. 0 \in 0 .. SeqSize - 1 /\ 1 \in 0 .. SeqSize - 1
        /\ 0 \in 0 .. MaxTimeouts + 1
  BY TftpNumbers
<1>3. CASE k = 0
  <2> DEFINE d == [tftp EXCEPT !.cur_block = 1]
             c == NewTransfer([d EXCEPT !.state = "DATA", !.remote_port = t])
  <2>1. p.block = 1 /\ 1 % SeqSize = 1 /\ 1 \div SeqSize = 0
    BY <1>1, <1>3, SmallNumbers
  <2>2. UpdateBlockNumber([tftp EXCEPT !.cur_block = p.block]) = d
    BY <1>1, <2>1 DEF UpdateBlockNumber, Transfers
  <2>4. /\ c \in Transfers /\ c.state = "DATA" /\ c.remote_port = t
        /\ c.our_port = tftp.our_port /\ c.block_size = size /\ c.cur_block = 1
        /\ c.prev_block = 0 /\ c.wrap_offset = 0
        /\ c.timeout_count = tftp.timeout_count
    BY <1>1, <1>2 DEF Transfers, NewTransfer
  <2> HIDE DEF c, d
  <2>5. tftp.state \in {"SEND_RRQ", "OACK"}
    BY <1>1, <1>3
  <2>6. /\ tftp' = [c EXCEPT !.prev_block = c.cur_block] /\ timer' = "tftp"
        /\ StoreBlock(c, p) /\ UNCHANGED <<net_try_count, fired>>
    <3>1. c.cur_block # c.prev_block
      BY <2>4
    <3> QED BY <2>2, <2>4, <2>5, <3>1 DEF TakeData, c
  <2>7. 0 * SeqSize * size = 0 /\ 0 + 1 = 1
    BY TftpNumbers DEF BlockSizes
  <2>8. Numbered(c, t, size, k + 1)
    BY <1>3, <2>1, <2>4, <2>7 DEF Numbered
  <2> QED BY <2>6, <2>8
<1>4. CASE k # 0
  <2>1. /\ tftp.state = "DATA" /\ tftp.prev_block = k % SeqSize
        /\ tftp.wrap_offset = (k \div SeqSize) * SeqSize * size
        /\ tftp.remote_port = t
    BY <1>1, <1>4 DEF Meets, Accepted
  <2> DEFINE m == [tftp EXCEPT !.cur_block = (k + 1) % SeqSize]
             c == UpdateBlockNumber(m)
  <2>2. PICK q \in Nat, s \in Nat \ {0}, z \in Nat :
          q = k \div SeqSize /\ s = SeqSize /\ z = size
    BY NextNumber, TftpNumbers DEF BlockSizes
  <2>3. /\ (k + 1) % SeqSize \in 0 .. SeqSize - 1
             /\ k % SeqSize # (k + 1) % SeqSize
        /\ \/ /\ (k + 1) % SeqSize = 0 /\ k % SeqSize # 0
              /\ (k + 1) \div SeqSize = q + 1
           \/ /\ (k + 1) % SeqSize # 0
              /\ (k + 1) \div SeqSize = q
    BY <2>2, NextNumber, TftpNumbers
  <2>4. /\ q * s * z + z * s = (q + 1) * s * z
        /\ q * s * z \in Nat /\ (q + 1) * s * z \in Nat
    BY <2>2
  <2>5. /\ m \in Transfers /\ m.cur_block = (k + 1) % SeqSize
        /\ m.prev_block = k % SeqSize /\ m.state = "DATA" /\ m.remote_port = t
        /\ m.our_port = tftp.our_port /\ m.block_size = size
        /\ m.wrap_offset = q * s * z /\ m.timeout_count = tftp.timeout_count
    BY <1>1, <2>1, <2>2, <2>3 DEF Transfers
  <2> HIDE DEF m
  <2>6. CASE (k + 1) % SeqSize = 0
    <3>1. c = [m EXCEPT !.wrap_offset = @ + m.block_size * SeqSize,
                        !.timeout_count = 0]
      BY <2>3, <2>5, <2>6 DEF UpdateBlockNumber
    <3>2. m.wrap_offset + m.block_size * SeqSize = (q + 1) * s * z
      BY <2>2, <2>4, <2>5
    <3>3. /\ c \in Transfers /\ c.state = "DATA" /\ c.remote_port = t
          /\ c.our_port = tftp.our_port /\ c.block_size = size
          /\ c.cur_block = (k + 1) % SeqSize /\ c.prev_block = k % SeqSize
          /\ c.wrap_offset = (q + 1) * s * z /\ c.timeout_count = 0
      BY <1>2, <2>4, <2>5, <3>1, <3>2 DEF Transfers
    <3>4. Numbered(c, t, size, k + 1)
      BY <2>2, <2>3, <2>6, <3>3 DEF Numbered
    <3> HIDE DEF c
    <3>5. /\ tftp' = [c EXCEPT !.prev_block = c.cur_block] /\ timer' = "tftp"
          /\ StoreBlock(c, p) /\ UNCHANGED <<net_try_count, fired>>
      BY <1>1, <2>1, <2>3, <3>3 DEF TakeData, c, m
    <3> QED BY <3>4, <3>5
  <2>7. CASE (k + 1) % SeqSize # 0
    <3>1. c = m
      BY <2>5, <2>7 DEF UpdateBlockNumber
    <3>2. Numbered(c, t, size, k + 1)
      BY <2>2, <2>3, <2>5, <2>7, <3>1 DEF Numbered
    <3>3. c.cur_block = (k + 1) % SeqSize /\ c.prev_block = k % SeqSize
      BY <2>5, <3>1
    <3> HIDE DEF c
    <3>4. /\ tftp' = [c EXCEPT !.prev_block = c.cur_block] /\ timer' = "tftp"
          /\ StoreBlock(c, p) /\ UNCHANGED <<net_try_count, fired>>
      BY <1>1, <2>1, <2>3, <3>3 DEF TakeData, c, m
    <3> QED BY <3>2, <3>4
  <2> QED BY <2>6, <2>7
<1> QED BY <1>3, <1>4

\* store_block() puts the block where it was in the file, and the memory has
\* the file up to the end of it; or nothing is stored and the transfer fails.
LEMMA BlockStored ==
  ASSUME TftpInv, Running, NEW t, NEW c,
         NEW size \in BlockSizes, NEW j \in 1 .. LastOf(size),
         Has((j - 1) * size), Numbered(c, t, size, j),
           StoreBlock(c, Nth(size, j))
  PROVE  /\ MemKept /\ InPlace' /\ net_boot_file_size' <= FileLen
         /\ net_state' = "SUCCESS" => net_boot_file_size' = FileLen
              /\ Has(FileLen)'
         /\ \E n \in MemSizes :
              /\ mem' \in [0 .. n - 1 -> 0 .. FileLen \cup {Nothing}]
                                /\ net_boot_file_size' \in 0 .. n
         /\ net_state' \in {net_state, "SUCCESS", "FAIL"}
         /\ \/ net_state' = "FAIL" /\ SendNothing
            \/ Has(End(size, j))' /\ Send(c)
<1> DEFINE p == Nth(size, j)
           o == (j - 1) * size
<1>1. /\ j \in Nat /\ j # 0 /\ size \in Nat \ {0} /\ FileLen \in Nat
      /\ LastOf(size) \in Nat
  BY TftpNumbers, Blocks DEF BlockSizes
<1>2. /\ p.at = o /\ p.len = IF j = LastOf(size) THEN FileLen - o ELSE size
  BY <1>1, NthIs
<1>3. /\ o \in 0 .. FileLen
      /\ j # LastOf(size) => j * size \in 0 .. FileLen /\ j * size = o + size
      /\ j = LastOf(size) => FileLen - o \in 0 .. size - 1
  BY Blocks
<1>4. (c.cur_block - 1) * c.block_size + c.wrap_offset = o
  BY <1>1, Offset DEF Numbered
<1>5. PICK e \in Nat : e = End(size, j)
  BY <1>1, <1>3 DEF End
<1>6. PICK l \in Nat : l = p.len
  BY <1>1, <1>2, <1>3
<1>7. /\ e = o + l /\ e \in 0 .. FileLen
      /\ l < size <=> j = LastOf(size)
      /\ j = LastOf(size) => e = FileLen
  BY <1>1, <1>2, <1>3, <1>5, <1>6 DEF End
<1>8. PICK a \in Nat : a = o
  BY <1>3
<1>9. /\ p.at = a /\ c.block_size = size /\ Has(a) /\ e = a + l
      /\ (c.cur_block - 1) * c.block_size + c.wrap_offset = a
  BY <1>2, <1>4, <1>7, <1>8 DEF Numbered
<1> HIDE DEF p, o
<1>10. PICK n \in MemSizes :
         /\ mem \in [0 .. n - 1 -> 0 .. FileLen \cup {Nothing}]
                             /\ net_boot_file_size \in 0 .. n
  BY DEF TftpInv, TftpTypeOK
<1>11. n \in Nat /\ DOMAIN mem = 0 .. n - 1
  BY <1>10, TftpNumbers
<1>12. /\ InPlace /\ net_boot_file_size <= FileLen
       /\ net_state = "SUCCESS" => net_boot_file_size = FileLen /\ Has(FileLen)
       /\ net_boot_file_size \in Nat
  BY <1>10, <1>11 DEF TftpInv, FileInv
<1>13. CASE ~Fits(a, l)
  <2>1. net_state' = "FAIL" /\ SendNothing /\ UNCHANGED <<mem,
          net_boot_file_size>>
    BY <1>6, <1>9, <1>13 DEF StoreBlock, fileVars, p
  <2> QED BY <1>10, <1>12, <2>1 DEF MemKept, InPlace
<1>14. CASE Fits(a, l)
  <2>1. /\ mem' = [u \in DOMAIN mem |-> IF u >= a /\ u < a + l
                                        THEN a + (u - a) ELSE mem[u]]
        /\ net_boot_file_size' = IF net_boot_file_size < e THEN e
                                 ELSE net_boot_file_size
        /\ net_state' = IF l < size THEN "SUCCESS" ELSE net_state
        /\ Send(c)
    BY <1>6, <1>9, <1>14 DEF StoreBlock, Stored, p
  <2>2. /\ DOMAIN mem' = DOMAIN mem
        /\ \A u \in DOMAIN mem : mem'[u] = IF u >= a /\ u < e THEN u ELSE mem[u]
    <3>1. ASSUME NEW u \in DOMAIN mem PROVE a + (u - a) = u
      BY <1>8, <1>11
    <3> QED BY <1>9, <2>1, <3>1
  <2>3. MemKept /\ InPlace'
    BY <1>12, <2>2 DEF MemKept, InPlace
  <2>4. e <= n
    <3>1. CASE l = 0
      <4>1. a = 0 \/ a - 1 \in 0 .. a - 1
        BY <1>8
      <4>2. a = 0 \/ a - 1 \in DOMAIN mem
        BY <1>9, <4>1 DEF Has
      <4> QED BY <1>8, <1>9, <1>11, <3>1, <4>2
    <3>2. CASE l # 0
      <4>1. a + l - 1 \in a .. a + l - 1
        BY <1>6, <1>8, <3>2
      <4>2. a + l - 1 \in DOMAIN mem
        BY <1>14, <4>1 DEF Fits
      <4>3. a + l - 1 \in 0 .. n - 1 /\ e = a + l
        BY <1>9, <1>11, <4>2
      <4>4. a \in Nat /\ l \in Nat /\ n \in Nat /\ e \in Nat
        BY <1>11
      <4>5. a + l - 1 >= 0 /\ a + l - 1 <= n - 1
        BY <4>3, <4>4
      <4>6. a + l <= n
        BY <4>4, <4>5
      <4> QED BY <4>3, <4>6
    <3> QED BY <3>1, <3>2
  <2>5. Has(e)'
    <3>1. SUFFICES ASSUME NEW u \in 0 .. e - 1
                   PROVE  u \in DOMAIN mem' /\ mem'[u] = u
      BY DEF Has
    <3>2. CASE u < a
      BY <1>8, <1>9, <2>2, <3>2 DEF Has
    <3>3. CASE ~(u < a)
      <4>1. u \in DOMAIN mem
        BY <1>5, <1>8, <1>11, <2>4, <3>1
      <4> QED BY <1>5, <1>8, <2>2, <3>3, <4>1
    <3> QED BY <3>2, <3>3
  <2>6. /\ mem' \in [0 .. n - 1 -> 0 .. FileLen \cup {Nothing}]
        /\ net_boot_file_size' \in 0 .. n /\ net_boot_file_size' <= FileLen
    <3>1. ASSUME NEW u \in 0 .. n - 1
          PROVE  mem'[u] \in 0 .. FileLen \cup {Nothing}
      BY <1>7, <1>10, <1>11, <2>2, <1>1
    <3>2. mem' \in [0 .. n - 1 -> 0 .. FileLen \cup {Nothing}]
      BY <1>11, <2>1, <2>2, <3>1
    <3> QED BY <1>7, <1>10, <1>11, <1>12, <2>1, <2>4, <3>2
  <2>7. ASSUME net_state' = "SUCCESS"
        PROVE  net_boot_file_size' = FileLen /\ Has(FileLen)'
    <3>1. CASE l < size
      BY <1>1, <1>7, <1>12, <2>1, <2>5, <3>1
    <3>2. CASE ~(l < size)
      <4>1. net_boot_file_size = FileLen /\ Has(FileLen)
        BY <1>12, <2>1, <2>7, <3>2
      <4>2. Has(FileLen)'
        BY <2>3, <4>1, HasKept
      <4> QED BY <1>1, <1>7, <2>1, <4>1, <4>2
    <3> QED BY <3>1, <3>2
  <2> QED BY <1>5, <2>1, <2>3, <2>5, <2>6, <2>7
<1> QED BY <1>13, <1>14

\* The next block
LEMMA DataStored ==
  ASSUME TftpInv, NEW t \in Tids, down[t] # <<>>,
         Running, Accepted(t), ~fired,
         down' = [down EXCEPT ![t] = Tail(down[t])], UNCHANGED <<result, srv>>,
         NEW k \in Nat, NEW size \in BlockSizes, Meets(t, size, k),
         srv[t].block = k + 1, Head(down[t]) = Nth(size, k + 1),
         TakeData(t, Head(down[t]))
  PROVE  TftpInv'
<1>0. PICK j \in Nat : j = k + 1 /\ j # 0 /\ Before(j) = k
  BY NumbersDiffer
<1>1. /\ NetTypes /\ ServerInv(t) /\ srv[t].size = size /\ srv[t].block = j
      /\ srv[t].phase \in {"data", "done"} /\ srv[t].port = tftp.our_port
  BY <1>0 DEF TftpInv, ServersInv, ServerInv, Meets, Accepted
<1>2. j \in 1 .. LastOf(size) /\ Has((j - 1) * size)
  <2>1. j \in 0 .. LastOf(size) /\ Has(Before(j) * size)
    BY <1>1 DEF ServerInv
  <2>2. Before(j) = j - 1 /\ LastOf(size) \in Nat
    BY <1>0, Blocks DEF Before
  <2> QED BY <1>0, <2>1, <2>2
<1>3. PICK c : /\ Numbered(c, t, size, j)
               /\ tftp' = [c EXCEPT !.prev_block = c.cur_block]
               /\ timer' = "tftp" /\ StoreBlock(c, Nth(size, j))
               /\ UNCHANGED <<net_try_count, fired>>
  BY <1>0, NewBlock
<1>4. /\ MemKept /\ InPlace' /\ net_boot_file_size' <= FileLen
      /\ net_state' = "SUCCESS" => net_boot_file_size' = FileLen
           /\ Has(FileLen)'
      /\ \E n \in MemSizes :
           /\ mem' \in [0 .. n - 1 -> 0 .. FileLen \cup {Nothing}]
                             /\ net_boot_file_size' \in 0 .. n
      /\ net_state' \in {net_state, "SUCCESS", "FAIL"}
      /\ \/ net_state' = "FAIL" /\ SendNothing
         \/ Has(End(size, j))' /\ Send(c)
  BY <1>2, <1>3, BlockStored
<1>5. /\ c \in Transfers /\ c.state = "DATA" /\ c.remote_port = t
      /\ c.our_port = tftp.our_port /\ c.block_size = size
      /\ c.cur_block = j % SeqSize
      /\ c.wrap_offset = (j \div SeqSize) * SeqSize * size
      /\ c.timeout_count \in {0, tftp.timeout_count}
  BY <1>3 DEF Numbered
<1>6. /\ tftp' \in Transfers /\ tftp'.state = "DATA" /\ tftp'.remote_port = t
      /\ tftp'.our_port = tftp.our_port /\ tftp'.block_size = size
      /\ tftp'.cur_block = j % SeqSize /\ tftp'.prev_block = j % SeqSize
      /\ tftp'.wrap_offset = c.wrap_offset
      /\ tftp'.timeout_count \in {0, tftp.timeout_count}
  BY <1>3, <1>5 DEF Transfers
<1>7. /\ requests' = requests
      /\ up' = up \/ (up' = [up EXCEPT ![t] = Put(up[t], j % SeqSize)]
                      /\ Has(End(size, j))')
      /\ Has(End(size, j))' \/ net_state' = "FAIL"
  BY <1>4, <1>5 DEF Send, SendNothing
<1>8. /\ down[t] \in Seq(Wires) /\ down'[t] = Tail(down[t])
      /\ up[t] \in Seq(0 .. SeqSize - 1)
      /\ \/ up'[t] = up[t]
         \/ up'[t] = Put(up[t], j % SeqSize) /\ Has(End(size, j))'
  BY <1>1, <1>7 DEF NetTypes
<1>9. NetTypes'
  <2>1. down'[t] \in Seq(Wires)
    BY <1>8, TurnsTail
  <2>2. j % SeqSize \in 0 .. SeqSize - 1
    BY NumbersDiffer
  <2>3. up'[t] \in Seq(0 .. SeqSize - 1)
    BY <1>8, <2>2, AckPut
  <2> QED BY <1>1, <1>6, <1>7, <2>1, <2>3 DEF NetTypes
<1>10. Turns(down[t], Nth(size, Before(j)), Nth(size, j))
  BY <1>1 DEF ServerInv, Channel
<1>11. All(down[t], Nth(size, j)) /\ All(down'[t], Nth(size, j))
  <2>1. Head(down[t]) = Nth(size, j)
    BY <1>0
  <2>2. All(down[t], Nth(size, j))
    BY <1>8, <1>10, <2>1, TurnsTail
  <2>3. All(Tail(down[t]), Nth(size, j))
    BY <1>8, <2>2, TurnsTail
  <2> QED BY <1>8, <2>2, <2>3
<1>12. Turns(down'[t], Nth(size, Before(j)), Nth(size, j))
  BY <1>11 DEF All, Turns
<1>13. ServerInv(t)'
  BY <1>1, <1>4, <1>6, <1>8, <1>9, <1>11, <1>12, LoadStep
<1>14. Loading(t, j)'
  BY <1>0, <1>1, <1>5, <1>6, <1>7, <1>11 DEF Loading
<1>15. ClientInv'
  BY <1>6, <1>14 DEF ClientInv
<1>16. ServersInv'
  <2>1. OthersSame(t)
    BY <1>1, <1>7 DEF OthersSame, NetTypes
  <2> QED BY <1>4, <1>6, <1>13, <2>1, OthersHear DEF ServersInv
<1>17. TftpTypeOK'
  <2>1. \E s \in {SmallBlock, BigBlock} : tftp'.wrap_offset \in 0 .. FileLen + s
    BY <1>2, <1>5, <1>6, Blocks DEF BlockSizes
  <2>2. /\ net_state' \in {"CONTINUE", "RESTART", "SUCCESS", "FAIL"}
        /\ net_try_count' \in 1 .. Retries + 1 /\ timer' = "tftp"
        /\ fired' \in BOOLEAN /\ result' \in {"running", "ok", "failed"}
    BY <1>3, <1>4 DEF TftpInv, TftpTypeOK
  <2> QED BY <1>4, <1>6, <2>1, <2>2 DEF TftpTypeOK, Transfers, BlockSizes
<1>18. TryInv'
  <2>1. ~(0 > MaxTimeouts)
    BY TftpNumbers
  <2>2. /\ net_state' = "RESTART" => net_state = "RESTART"
        /\ net_state # "CONTINUE" => net_state' # "CONTINUE"
    BY <1>4
  <2>3. tftp.timeout_count > MaxTimeouts => net_state # "CONTINUE"
    BY DEF TftpInv, TryInv, Accepted
  <2>4. tftp'.timeout_count > MaxTimeouts => net_state' # "CONTINUE"
    BY <1>6, <2>1, <2>2, <2>3
  <2> QED BY <1>3, <1>6, <1>7, <2>2, <2>4 DEF TftpInv, TryInv
<1>19. FileInv'
  BY <1>4 DEF FileInv, Running
<1> QED BY <1>9, <1>15, <1>16, <1>17, <1>18, <1>19 DEF TftpInv

\* tftp_handler()
LEMMA ReceiveKeeps ==
  ASSUME ~Reorder, TftpInv, NEW t \in Tids, Receive(t)
  PROVE  TftpInv'
<1>1. /\ Running /\ ~fired /\ down[t] # <<>> /\ UNCHANGED <<result, srv>>
      /\ down' = [down EXCEPT ![t] = RemoveAt(down[t], 1)]
      /\ \/ ~Accepted(t) /\ SendNothing /\ UNCHANGED <<tftp, loopVars,
              fileVars>>
         \/ /\ Accepted(t)
            /\ \/ down[t][1].op = "OACK" /\ TakeOack(t, down[t][1])
               \/ down[t][1].op = "DATA" /\ TakeData(t, down[t][1])
               \/ down[t][1].op = "ERROR" /\ TakeError(down[t][1])
  <2>1. \A i \in 1 .. 1 : i = 1
    OBVIOUS
  <2> QED BY <2>1 DEF Receive
<1>2. down[t] \in Seq(Wires) /\ Head(down[t]) = down[t][1]
  BY <1>1, HeadPacket
<1>3. down' = [down EXCEPT ![t] = Tail(down[t])]
  <2>1. RemoveAt(down[t], 1) = Tail(down[t])
    BY <1>1, <1>2, HeadRemoved
  <2> QED BY <1>1, <2>1
<1>4. CASE ~Accepted(t)
  <2>1. UNCHANGED <<tftp, loopVars, fileVars, result, requests, srv, up>>
    BY <1>1, <1>4 DEF SendNothing
  <2> QED BY <1>1, <1>3, <2>1, DownLost
<1>5. CASE Accepted(t) /\ down[t][1].op = "ERROR"
  <2>1. TakeError(down[t][1]) /\ timer # "again"
    BY <1>1, <1>5 DEF Accepted
  <2> QED BY <1>1, <1>3, <2>1, ErrorTaken
<1>6. CASE Accepted(t) /\ down[t][1].op # "ERROR"
  <2>1. PICK k \in Nat, size \in BlockSizes : Meets(t, size, k)
    BY <1>1, <1>2, <1>6, AcceptedMeets
  <2>2. \/ Head(down[t]) = Nth(size, k)
        \/ srv[t].block = k + 1 /\ Head(down[t]) = Nth(size, k + 1)
    BY <2>1 DEF Meets
  <2>3. CASE Head(down[t]) = Nth(size, k) /\ k = 0
    <3>1. Head(down[t]).op = "OACK"
      BY <2>3, NthIs
    <3>2. TakeOack(t, Head(down[t]))
      BY <1>1, <1>2, <1>6, <3>1
    <3> QED BY <1>1, <1>3, <1>6, <2>1, <2>3, <3>2, OackTaken
  <2>4. CASE Head(down[t]) = Nth(size, k) /\ k # 0
    <3>1. Head(down[t]).op = "DATA"
      BY <2>4, NthIs
    <3>2. TakeData(t, Head(down[t]))
      BY <1>1, <1>2, <1>6, <3>1
    <3> QED BY <1>1, <1>3, <2>1, <2>4, <3>2, DuplicateDropped
  <2>5. CASE srv[t].block = k + 1 /\ Head(down[t]) = Nth(size, k + 1)
    <3>1. k + 1 \in Nat /\ k + 1 # 0
      OBVIOUS
    <3>2. Head(down[t]).op = "DATA"
      BY <2>5, <3>1, NthIs
    <3>3. TakeData(t, Head(down[t]))
      BY <1>1, <1>2, <1>6, <3>2
    <3> QED BY <1>1, <1>3, <1>6, <2>1, <2>5, <3>3, DataStored
  <2> QED BY <2>2, <2>3, <2>4, <2>5
<1> QED BY <1>4, <1>5, <1>6

-----------------------------------------------------------------------------
\* tftp_start() of the first try
LEMMA TftpInvInit ==
  ASSUME TftpInit
  PROVE  TftpInv
<1>1. /\ tftp = Started([state |-> "", remote_port |-> WellKnown,
           our_port |-> 1,
                         cur_block |-> 0, prev_block |-> 0, wrap_offset |-> 0,
                         block_size |-> SmallBlock, timeout_count |-> 0], 1)
      /\ net_state \in {"CONTINUE", "FAIL"} /\ net_try_count = 1
      /\ timer \in {"none", "tftp"}
      /\ fired = FALSE /\ net_boot_file_size = 0 /\ result = "running"
      /\ requests \in {{}, {1}}
      /\ srv = [t \in Tids |-> [phase |-> "free", port |-> 1,
           size |-> SmallBlock,
                                block |-> 0]]
      /\ down = [t \in Tids |-> <<>>] /\ up = [t \in Tids |-> <<>>]
  BY DEF TftpInit
<1>2. /\ 1 \in Ports /\ SmallBlock \in BlockSizes /\ 0 \in 0 .. SeqSize - 1
      /\ 0 \in 0 .. MaxTimeouts + 1 /\ FileLen \in Nat /\ MaxTimeouts \in Nat
  BY TftpNumbers DEF Ports, BlockSizes
<1>3. /\ tftp = [state |-> "SEND_RRQ", remote_port |-> WellKnown,
           our_port |-> 1,
                 cur_block |-> 0, prev_block |-> 0, wrap_offset |-> 0,
                 block_size |-> SmallBlock, timeout_count |-> 0]
      /\ tftp \in Transfers
  <2>1. tftp = [state |-> "SEND_RRQ", remote_port |-> WellKnown, our_port |-> 1,
                cur_block |-> 0, prev_block |-> 0, wrap_offset |-> 0,
                block_size |-> SmallBlock, timeout_count |-> 0]
    BY <1>1 DEF Started
  <2> QED BY <1>2, <2>1 DEF Transfers
<1>10. /\ tftp.state = "SEND_RRQ" /\ tftp.remote_port = WellKnown
            /\ tftp.our_port = 1
       /\ tftp.cur_block = 0 /\ tftp.prev_block = 0 /\ tftp.wrap_offset = 0
       /\ tftp.block_size = SmallBlock /\ tftp.timeout_count = 0
  BY <1>3
<1>11. /\ net_state \in {"CONTINUE", "FAIL"} /\ net_try_count = 1
       /\ timer \in {"none", "tftp"}
       /\ fired = FALSE /\ net_boot_file_size = 0 /\ result = "running"
       /\ requests \subseteq {1}
  BY <1>1
<1>12. ASSUME NEW t \in Tids
       PROVE  /\ srv[t].phase = "free" /\ srv[t].port = 1
              /\ srv[t].size = SmallBlock /\ srv[t].block = 0
              /\ down[t] = <<>> /\ up[t] = <<>>
  BY <1>1
<1>4. PICK n \in MemSizes : mem = [u \in 0 .. n - 1 |-> Nothing]
  BY DEF TftpInit
<1>5. TftpTypeOK
  <2>1. mem \in [0 .. n - 1 -> 0 .. FileLen \cup {Nothing}] /\ 0 \in 0 .. n
    BY <1>4, TftpNumbers
  <2>2. 0 \in 0 .. FileLen + SmallBlock
    BY TftpNumbers
  <2>3. /\ tftp.our_port \in Ports /\ 1 \in 1 .. Retries + 1
        /\ {tftp.cur_block, tftp.prev_block} \subseteq 0 .. SeqSize - 1
        /\ tftp.timeout_count \in 0 .. MaxTimeouts + 1
    BY <1>2, <1>10, TftpNumbers
  <2> QED BY <1>10, <1>11, <2>1, <2>2, <2>3 DEF TftpTypeOK
<1>6. NetTypes
  <2>1. [phase |-> "free", port |-> 1, size |-> SmallBlock,
          block |-> 0] \in Services
    BY <1>2 DEF Services
  <2>2. <<>> \in Seq(Wires) /\ <<>> \in Seq(0 .. SeqSize - 1)
    OBVIOUS
  <2> QED BY <1>1, <1>2, <1>3, <2>1, <2>2 DEF NetTypes
<1>7. ServersInv
  <2>1. ASSUME NEW t \in Tids PROVE ServerInv(t) /\ Fresh(t)
    <3>1. 0 \in 0 .. LastOf(SmallBlock)
      BY <1>2, Blocks
    <3> QED BY <1>10, <1>12, <3>1 DEF ServerInv, Fresh
  <2> QED BY <2>1 DEF ServersInv
<1>8. ClientInv /\ TryInv
  <2>1. requests \subseteq 1 .. tftp.our_port
          /\ ~(tftp.timeout_count > MaxTimeouts)
    BY <1>2, <1>10, <1>11
  <2> QED BY <1>10, <1>11, <2>1 DEF ClientInv, TryInv
<1>9. FileInv
  <2>1. \A u \in DOMAIN mem : mem[u] = Nothing
    BY <1>4
  <2> QED BY <1>2, <1>11, <2>1 DEF FileInv, InPlace
<1> QED BY <1>5, <1>6, <1>7, <1>8, <1>9 DEF TftpInv

\* Every step keeps the invariant.
LEMMA TftpInvNext ==
  ASSUME ~Reorder, TftpInv, [TftpNext]_tftpVars
  PROVE  TftpInv'
<1>1. CASE UNCHANGED tftpVars
  <2>1. UNCHANGED <<tftp, net_state, net_try_count, timer, fired, mem,
                    net_boot_file_size, result, requests, srv, down, up>>
    BY <1>1 DEF tftpVars, loopVars, fileVars
  <2>2. TftpTypeOK'
    BY <2>1 DEF TftpInv, TftpTypeOK
  <2>5. NetTypes' /\ TryInv'
    BY <2>1 DEF TftpInv, NetTypes, TryInv
  <2>3. ServersInv' /\ ClientInv'
    BY <2>1, ClientStep DEF StaysThere
  <2>4. FileInv'
    BY <2>1 DEF TftpInv, FileInv, InPlace, Has
  <2> QED BY <2>2, <2>3, <2>4, <2>5 DEF TftpInv
<1>2. ASSUME NEW t \in Tids, NEW port \in Ports, Serve(t, port) PROVE TftpInv'
  BY <1>2, ServeKeeps
<1>3. ASSUME NEW t \in Tids, SendAgain(t) PROVE TftpInv'
  BY <1>3, SendAgainKeeps
<1>4. ASSUME NEW t \in Tids, TakeAck(t) PROVE TftpInv'
  BY <1>4, TakeAckKeeps
<1>5. CASE Lose
  BY <1>5, LoseKeeps
<1>6. ASSUME NEW t \in Tids, Receive(t) PROVE TftpInv'
  BY <1>6, ReceiveKeeps
<1>7. CASE TftpTimeout
  BY <1>7, TimeoutKeeps
<1>8. CASE LoopRestart
  BY <1>8, RestartKeeps, RefuseKeeps
<1>9. CASE AgainTimeout \/ LoopFail \/ LoopSuccess
  BY <1>9, LoopKeeps
<1> QED BY <1>1, <1>2, <1>3, <1>4, <1>5, <1>6, <1>7, <1>8, <1>9 DEF TftpNext

\* The invariant says that the file is whole, and that what is acknowledged is
\* stored.
LEMMA TftpInvSound ==
  ASSUME TftpInv
  PROVE  BlocksSound /\ FileIsWhole
<1>1. TftpTypeOK /\ InPlace
  BY DEF TftpInv, FileInv
<1>2. FileIsWhole
  <2>1. result = "ok" => net_boot_file_size = FileLen /\ Has(FileLen)
    BY DEF TftpInv, FileInv
  <2> QED BY <2>1 DEF FileIsWhole, Has
<1>3. ASSUME NEW t \in Tids, srv[t].phase = "done" PROVE Has(FileLen)
  BY <1>3 DEF TftpInv, ServersInv, ServerInv
<1>4. ASSUME NEW t \in Tids, srv[t].phase = "data"
      PROVE  Has((srv[t].block - 1) * srv[t].size)
  <2>1. srv[t].block # 0 /\ Has(Before(srv[t].block) * srv[t].size)
    BY <1>4 DEF TftpInv, ServersInv, ServerInv
  <2> QED BY <2>1 DEF Before
<1>5. AckedIsStored
  BY <1>3, <1>4 DEF AckedIsStored, Has
<1> QED BY <1>1, <1>2, <1>5 DEF BlocksSound

\* Every block is stored where it belongs and only then acknowledged, for any
\* file, block sizes, memory, number of ports, timeouts and retries, and for
\* block numbers that wrap at any SeqSize (store_block(), tftp_handler()).
THEOREM BlocksAlwaysSound ==
  ASSUME ~Reorder
  PROVE  TftpSpec => []BlocksSound
<1>1. TftpInv => BlocksSound
  BY TftpInvSound
<1> QED BY <1>1, TftpInvInit, TftpInvNext, PTL DEF TftpSpec

\* A load that succeeds has the whole file in memory and reports its length.
THEOREM FileAlwaysWhole ==
  ASSUME ~Reorder
  PROVE  TftpSpec => []FileIsWhole
<1>1. TftpInv => FileIsWhole
  BY TftpInvSound
<1> QED BY <1>1, TftpInvInit, TftpInvNext, PTL DEF TftpSpec

-----------------------------------------------------------------------------
(***************************************************************************)
(* FastbootUdp, for any number of sessions, INFO packets and data packets: *)
(* whatever is lost, repeated or late, no command runs twice, and a host   *)
(* that began a session undisturbed takes its own answers only.  Both rest *)
(* on where the numbers are: what is under way is at most Lifetime older   *)
(* than the host's last packet and the server at most MaxInfos + 1 ahead   *)
(* of it, fewer than SeqNumbers in all, so that two numbers that are equal *)
(* on the wire are equal.  Of the session, the invariant then says how far *)
(* the server has come with the host's command, and what of its answers    *)
(* may still arrive.                                                       *)
(***************************************************************************)
\* A packet that has a number: a QUERY and an error have none
HasNumber(p) == p.id \in {"init", "fastboot"}

\* Host and server agree on the numbers: the server is never behind the host,
\* and ahead of it by its INFO packets only.  What is under way to either is
\* at most Lifetime older than the host's last packet, and what the server
\* keeps for repetition is the last it has sent.
NumbersAgree ==
  /\ step = "query" =>
       /\ out.id = "query" /\ asked.kind = "none"
       /\ \A p \in toServer : p.id = "query"
       /\ \A p \in toHost : p.id = "query" /\ p.body.i = sequence_number
  /\ step # "query" =>
       /\ out.id # "query"
       /\ out.n <= sequence_number
       /\ sequence_number <= out.n + MaxInfos + 1
       /\ \A p \in toServer :
            p.id # "query" =>
              p = out \/ (p.n < out.n /\ out.n <= p.n + Lifetime)
       /\ \A p \in toHost :
            HasNumber(p) => p.n < sequence_number /\ out.n <= p.n + Lifetime
  /\ step = "idle" => out.n < sequence_number
  /\ HasNumber(last_packet) => last_packet.n = sequence_number - 1

\* A command that was run, or waits to be, has a number already used, and one
\* that waits was not run.
RunsAreOld ==
  /\ \A k \in 1 .. MaxSeq :
       runs[k] <= 1 /\ (runs[k] = 1 => k < sequence_number)
  /\ pending_command /\ command.t \in Kinds =>
       /\ command.k \in 1 .. MaxSeq /\ command.k < sequence_number
       /\ runs[command.k] = 0
  /\ \A p \in toServer : p.id = "fastboot" /\ p.body.t \in Kinds =>
       p.body.k = p.n /\ p.n \in 1 .. MaxSeq

Texts == Kinds \cup {"none", "INFO", "OKAY", "FAIL", "DATA", "data", "number"}

Quiet == ~cmd /\ ~pending_command

\* How far the server has come with the command of a clean session, whose
\* number is k: its text not yet heard, or left, or the command run and
\* answered, refused or still loading, or the whole image loaded.
NotHeard(k) == sequence_number = k /\ Quiet
TextLeft(k) ==
  /\ sequence_number = k + 1 /\ ~cmd /\ pending_command
  /\ command = Body(asked.kind, k, 0)
TooLarge(k) == sequence_number = k + 2 /\ Quiet
InDownload(k) ==
  /\ cmd /\ ~pending_command
  /\ fastboot_bytes_expected = Chunks
  /\ sequence_number = k + 2 + fastboot_bytes_received
  /\ \A i \in 1 .. fastboot_bytes_received : buf[i] = Body("data", k, i)
Loaded(k) ==
  /\ sequence_number = k + 3 + Chunks /\ Quiet
  /\ image_size = Chunks
  /\ buf = [i \in 1 .. Chunks |-> Body("data", k, i)]
RanAndAnswered(k) ==
  /\ sequence_number > k + 1
  /\ command.k = k /\ runs[k] = 1
  /\ IF asked.kind = "download" THEN TooLarge(k) \/ InDownload(k) \/ Loaded(k)
     ELSE Quiet

\* The answer numbered p.n to the command numbered k, or to its data
AnswerFits(p, k) ==
  /\ p.n = k => p.body.t = "none"
  /\ p.n > k /\ asked.kind # "download" =>
       IF p.n = sequence_number - 1
         THEN p.body.t \in {"OKAY", "FAIL"} /\ p.body.k = k
         ELSE p.body.t = "INFO"
  /\ asked.kind = "download" =>
       /\ p.n = k + 1 =>
            IF TooLarge(k) THEN p.body.t = "FAIL" /\ p.body.k = k
            ELSE p.body.t = "DATA"
       /\ p.n > k + 1 /\ p.n < k + 2 + Chunks => p.body.t = "none"
       /\ p.n = k + 2 + Chunks => p.body.t = "OKAY" /\ p.body.k = k

\* How far the host has come with it
HostFits(k) ==
  /\ step = "write" => out.n = k /\ out.body = Body(asked.kind, k, 0)
                         /\ sequence_number <= k + 1
  /\ step = "read" =>
       /\ out.n > k /\ out.body = Empty
       /\ IF asked.kind = "download"
            THEN \/ out.n = k + 1 /\ sequence_number <= k + 2
                 \/ out.n = k + 2 + Chunks
            ELSE out.n = k + 1 \/ out.n < sequence_number
  /\ step = "data" =>
       /\ asked.kind = "download" /\ cmd
       /\ out.body.i \in 1 .. Chunks
       /\ out.body = Body("data", k, out.body.i)
       /\ out.n = k + 1 + out.body.i
       /\ sequence_number <= out.n + 1
  /\ step = "idle" =>
       /\ Quiet /\ sequence_number = out.n + 1
       /\ got.k = k /\ runs[k] = 1
       /\ asked.kind = "download" /\ got.t = "OKAY" => Loaded(k)

CommandFits(k) ==
  /\ k \in 1 .. MaxSeq
  /\ NotHeard(k) \/ TextLeft(k) \/ RanAndAnswered(k)
  /\ \A p \in toHost \cup {last_packet} :
       p.id = "fastboot" => AnswerFits(p, k)
  /\ HostFits(k)

\* A session that began clean: before its first command, and with a command
SessionClean ==
  clean =>
    /\ ~broken /\ step \notin {"off", "query"}
    /\ asked.kind = "none" =>
         /\ step \in {"init", "idle"} /\ out.id = "init"
         /\ Quiet /\ sequence_number = out.n + 1
    /\ asked.kind # "none" =>
         step # "init" /\ out.id = "fastboot" /\ CommandFits(asked.k)

\* The host's last packet goes with where it is.
StepFits ==
  /\ step = "init" => out.id = "init" /\ asked.kind = "none"
  /\ step \in {"write", "read", "data"} => out.id = "fastboot"
  /\ out.id = "init" => step \in {"init", "idle"} /\ asked.kind = "none"
  /\ broken => step = "off"

\* The inductive invariant.
FastbootInv ==
  FastbootTypeOK /\ NumbersAgree /\ StepFits /\ RunsAreOld /\ SessionClean

\* What the assumption says, number by number
LEMMA FastbootNumbers ==
  /\ SeqNumbers \in Nat \ {0} /\ Lifetime \in Nat /\ Chunks \in Nat \ {0}
  /\ MaxInfos \in Nat /\ MaxSeq \in Nat /\ Sessions \in Nat
  /\ SeqNumbers > Lifetime + MaxInfos + 2
BY FastbootAssumption

\* Two numbers less than n apart that differ by d modulo n differ by d.
LEMMA RestsApart ==
  ASSUME NEW n \in Nat \ {0}, NEW a \in Nat, NEW b \in Nat, NEW d \in {0, 1},
         a <= b, b < a + n, b % n = (a % n) + d
  PROVE  b = a + d
<1> DEFINE p == a \div n
           q == b \div n
           r == a % n
           s == b % n
<1>1. p \in Nat /\ q \in Nat /\ r \in 0 .. n - 1 /\ s \in 0 .. n - 1
  BY Quotient
<1>2. a = n * p + r /\ b = n * q + s /\ s = r + d
  BY Quotient
<1> HIDE DEF p, q, r, s
<1>3. ASSUME NEW x \in Nat, NEW y \in Nat, x < y PROVE n * y >= n * x + n
  <2>1. PICK z \in Nat : y = x + 1 + z
    <3>1. y - x - 1 \in Nat /\ y = x + 1 + (y - x - 1)
      BY <1>3
    <3> QED BY <3>1
  <2>2. n * y = n * x + n + n * z
    BY <2>1
  <2>3. n * z >= 0 /\ n * z \in Int /\ n * x \in Int
    OBVIOUS
  <2> QED BY <2>2, <2>3
<1>4. n * p \in Int /\ n * q \in Int
  BY <1>1
<1>5. CASE p < q
  <2>1. n * q >= n * p + n
    BY <1>1, <1>3, <1>5
  <2> QED BY <1>1, <1>2, <1>4, <2>1
<1>6. CASE q < p
  <2>1. n * p >= n * q + n
    BY <1>1, <1>3, <1>6
  <2> QED BY <1>1, <1>2, <1>4, <2>1
<1>7. CASE p = q
  BY <1>1, <1>2, <1>4, <1>7
<1> QED BY <1>1, <1>5, <1>6, <1>7
-----------------------------------------------------------------------------

LEMMA BodyType ==
  ASSUME NEW t \in Texts, NEW k \in 0 .. MaxSeq, NEW i \in Nat
  PROVE  /\ Body(t, k, i) \in Bodies
         /\ Body(t, k, i).t = t /\ Body(t, k, i).k = k /\ Body(t, k, i).i = i
BY DEF Body, Bodies, Texts

LEMMA PacketType ==
  ASSUME NEW id \in {"none", "query", "init", "fastboot", "other"},
         NEW n \in Nat, NEW body \in Bodies
  PROVE  /\ FastbootPacket(id, n, body) \in Packets
         /\ FastbootPacket(id, n, body).id = id
         /\ FastbootPacket(id, n, body).n = n
         /\ FastbootPacket(id, n, body).body = body
BY DEF FastbootPacket, Packets

LEMMA PacketFields ==
  ASSUME NEW p \in Packets
  PROVE  /\ p.id \in {"none", "query", "init", "fastboot", "other"}
         /\ p.n \in Nat /\ p.body \in Bodies
         /\ p.body.t \in Texts /\ p.body.k \in 0 .. MaxSeq /\ p.body.i \in Nat
BY DEF Packets, Bodies, Texts

LEMMA EmptyType == Empty \in Bodies /\ Empty.t = "none" /\ Empty.k = 0
  /\ Empty.i = 0
BY FastbootNumbers DEF Empty, Body, Bodies, Texts

\* The packets of one answer of the server's
LEMMA SendType ==
  ASSUME FastbootTypeOK, NEW id \in {"init", "fastboot"}, NEW infos \in Nat,
         NEW body \in Bodies, FastbootSend(id, infos, body)
  PROVE  /\ last_packet' \in Packets
         /\ last_packet'.id = id /\ last_packet'.body = body
         /\ last_packet'.n = sequence_number + infos
         /\ sequence_number' = sequence_number + infos + 1
         /\ sequence_number' \in Nat \ {0}
         /\ toHost' \subseteq Packets
         /\ \A p \in toHost' :
              \/ p \in toHost \/ p = last_packet'
              \/ \E j \in 0 .. infos - 1 :
                   /\ p.id = id /\ p.n = sequence_number + j
                   /\ p.body.t = "INFO"
<1> DEFINE n == sequence_number + infos
           info(j) == FastbootPacket(id, sequence_number + j,
                                     Body("INFO", body.k, j))
<1>1. sequence_number \in Nat \ {0} /\ toHost \subseteq Packets /\ n \in Nat
  BY DEF FastbootTypeOK
<1>2. /\ last_packet' = FastbootPacket(id, n, body)
      /\ toHost' = toHost \cup {info(j) :
           j \in 0 .. infos - 1} \cup {last_packet'}
      /\ sequence_number' = n + 1
  BY DEF FastbootSend
<1>3. /\ last_packet' \in Packets /\ last_packet'.id = id
      /\ last_packet'.body = body /\ last_packet'.n = n
  BY <1>1, <1>2, PacketType
<1>4. ASSUME NEW j \in 0 .. infos - 1
      PROVE  /\ info(j) \in Packets /\ info(j).id = id
             /\ info(j).n = sequence_number + j /\ info(j).body.t = "INFO"
  <2>1. j \in Nat /\ sequence_number + j \in Nat
    BY <1>1
  <2>a. body.k \in 0 .. MaxSeq
    BY DEF Bodies
  <2>2. "INFO" \in Texts
    BY DEF Texts
  <2>3. Body("INFO", body.k, j) \in Bodies /\ Body("INFO", body.k, j).t = "INFO"
    BY <2>1, <2>a, <2>2, BodyType
  <2> QED BY <2>1, <2>3, PacketType
<1> HIDE DEF info
<1>5. toHost' \subseteq Packets
  BY <1>1, <1>2, <1>3, <1>4
<1>6. ASSUME NEW p \in toHost', p \notin toHost, p # last_packet'
      PROVE  \E j \in 0 .. infos - 1 : /\ p.id = id /\ p.n = sequence_number + j
                                       /\ p.body.t = "INFO"
  <2>1. PICK j \in 0 .. infos - 1 : p = info(j)
    BY <1>2, <1>6
  <2> QED BY <1>4, <2>1
<1> QED BY <1>1, <1>2, <1>3, <1>5, <1>6

-----------------------------------------------------------------------------
(***************************************************************************)
(* Types.                                                                  *)
(***************************************************************************)
LEMMA FastbootInitTypes == FastbootInit => FastbootTypeOK
<1> SUFFICES ASSUME FastbootInit PROVE FastbootTypeOK
  OBVIOUS
<1>1. Empty \in Bodies
  BY EmptyType
<1>2. NoPacket \in Packets
  BY <1>1, PacketType DEF NoPacket
<1>3. /\ buf \in [1 .. Chunks -> Bodies] /\ image_size \in {0, Chunks}
      /\ command \in Bodies /\ got \in Bodies
  BY <1>1 DEF FastbootInit
<1>4. /\ fastboot_bytes_expected \in {0, Chunks}
      /\ fastboot_bytes_received \in 0 .. fastboot_bytes_expected
      /\ sequence_number \in Nat \ {0}
  BY DEF FastbootInit
<1>5. /\ asked \in [k : 0 .. MaxSeq, kind : Kinds \cup {"none"}]
      /\ runs \in [1 .. MaxSeq -> Nat] /\ sessions \in 0 .. Sessions
  BY FastbootNumbers DEF FastbootInit
<1> QED BY <1>2, <1>3, <1>4, <1>5 DEF FastbootInit, FastbootTypeOK

\* A command that is run is counted.
LEMMA RanTypes ==
  ASSUME FastbootTypeOK, Ran
  PROVE  /\ runs' \in [1 .. MaxSeq -> Nat]
         /\ \A k \in 1 .. MaxSeq :
              runs'[k] = IF k = command.k THEN runs[k] + 1 ELSE runs[k]
<1>1. runs \in [1 .. MaxSeq -> Nat]
        /\ runs' = [runs EXCEPT ![command.k] = @ + 1]
  BY DEF Ran, FastbootTypeOK
<1> DEFINE c == command.k
<1>2. \A k \in 1 .. MaxSeq :
        runs'[k] = IF k = c THEN runs[k] + 1 ELSE runs[k]
  BY <1>1
<1>3. runs' = [k \in 1 .. MaxSeq |-> IF k = c THEN runs[k] + 1 ELSE runs[k]]
  BY <1>1
<1>4. \A k \in 1 .. MaxSeq : runs[k] \in Nat
  BY <1>1
<1>5. runs' \in [1 .. MaxSeq -> Nat]
  BY <1>3, <1>4
<1> QED BY <1>2, <1>5 DEF c

\* The counters of a download are numbers.
LEMMA LoadNumbers ==
  ASSUME FastbootTypeOK
  PROVE  /\ fastboot_bytes_expected \in Nat /\ fastboot_bytes_received \in Nat
         /\ fastboot_bytes_received <= fastboot_bytes_expected
         /\ fastboot_bytes_expected <= Chunks
<1>1. Chunks \in Nat
  BY FastbootNumbers
<1>2. /\ fastboot_bytes_expected \in {0, Chunks}
      /\ fastboot_bytes_received \in 0 .. fastboot_bytes_expected
  BY DEF FastbootTypeOK
<1>3. fastboot_bytes_expected \in Nat /\ fastboot_bytes_expected <= Chunks
  BY <1>1, <1>2
<1> QED BY <1>1, <1>2, <1>3

\* What the server does when it hears a packet
LEMMA HearTypes ==
  ASSUME FastbootTypeOK, NEW p \in toServer, Hear(p)
  PROVE  FastbootTypeOK'
<1>0. p \in Packets /\ p.body \in Bodies /\ p.body.t \in Texts /\ p.n \in Nat
  BY PacketFields DEF FastbootTypeOK
<1>1. /\ UNCHANGED <<toServer, hostVars>>
  BY DEF Hear, HearInit, HearRepeated, HearText, HandleCommand, Execute, Boot,
         StartDownload, Unrecognized, Download, StoreData, RejectData,
         DataComplete
<1>2. command.k \in 0 .. MaxSeq /\ Empty \in Bodies
  BY EmptyType DEF FastbootTypeOK, Bodies
<1>3. ASSUME NEW t \in Texts, NEW i \in Nat
      PROVE Body(t, command.k, i) \in Bodies
  BY <1>2, <1>3, BodyType
<1> DEFINE Answers ==
      /\ last_packet' \in Packets /\ toHost' \subseteq Packets
      /\ sequence_number' \in Nat \ {0}
           Rest ==
      /\ serving' \in BOOLEAN /\ cmd' \in BOOLEAN
           /\ pending_command' \in BOOLEAN
      /\ command' \in Bodies
      /\ clean' \in BOOLEAN /\ disturbed' \in BOOLEAN /\ broken' \in BOOLEAN
           Loads ==
      /\ fastboot_bytes_expected' \in {0, Chunks}
      /\ fastboot_bytes_received' \in 0 .. fastboot_bytes_expected'
      /\ buf' \in [1 .. Chunks -> Bodies] /\ image_size' \in {0, Chunks}
      /\ runs' \in [1 .. MaxSeq -> Nat]
<1>4. Answers /\ Rest /\ Loads
  <2>1. CASE HearInit(p)
    <3>1. Answers
      BY <1>2, <2>1, SendType DEF HearInit
    <3>2. Rest /\ Loads
      BY <2>1 DEF HearInit, FastbootTypeOK, commands, download
    <3> QED BY <3>1, <3>2
  <2>2. CASE HearRepeated(p)
    <3>1. Answers
      BY <2>2 DEF HearRepeated, FastbootTypeOK, serverVars
    <3>2. Rest /\ Loads
      BY <2>2 DEF HearRepeated, FastbootTypeOK, serverVars, commands, download,
                  history
    <3> QED BY <3>1, <3>2
  <2>3. CASE HearText(p)
    <3>1. Answers
      BY <1>2, <2>3, SendType DEF HearText
    <3>2. Rest /\ Loads
      BY <1>0, <2>3 DEF HearText, FastbootTypeOK, download, history
    <3> QED BY <3>1, <3>2
  <2>4. CASE Execute(p)
    <3>1. PICK t \in {"OKAY", "FAIL"},
               infos \in 0 .. (IF command.t = "long" THEN MaxInfos ELSE 0) :
            FastbootSend("fastboot", infos, Body(t, command.k, infos))
      BY <2>4 DEF Execute
    <3>2. infos \in Nat /\ t \in Texts
      <4>1. t \in Texts
        BY DEF Texts
      <4>2. CASE command.t = "long"
        BY <4>1, <4>2, FastbootNumbers
      <4>3. CASE command.t # "long"
        BY <4>1, <4>3
      <4> QED BY <4>2, <4>3
    <3>3. Answers
      BY <1>3, <3>1, <3>2, SendType
    <3>4. Rest /\ Loads
      BY <2>4, RanTypes DEF Execute, HandleCommand, FastbootTypeOK
    <3> QED BY <3>3, <3>4
  <2>5. CASE Boot(p)
    <3>1. PICK done \in BOOLEAN :
            /\ FastbootSend("fastboot", 0,
                 Body(IF done THEN "OKAY" ELSE "FAIL", command.k, 0))
            /\ serving' = ~done
      BY <2>5 DEF Boot
    <3>2. (IF done THEN "OKAY" ELSE "FAIL") \in Texts
      BY DEF Texts
    <3>3. Answers
      BY <1>3, <3>1, <3>2, SendType
    <3>4. Rest /\ Loads
      BY <2>5, <3>1, RanTypes DEF Boot, HandleCommand, FastbootTypeOK
    <3> QED BY <3>3, <3>4
  <2>6. CASE StartDownload(p)
    <3>1. PICK fits \in BOOLEAN :
            /\ cmd' = fits
            /\ FastbootSend("fastboot", 0,
                            Body(IF fits THEN "DATA" ELSE "FAIL", command.k, 0))
      BY <2>6 DEF StartDownload
    <3>2. (IF fits THEN "DATA" ELSE "FAIL") \in Texts
      BY DEF Texts
    <3>3. Answers
      BY <1>3, <3>1, <3>2, SendType
    <3>4. Rest
      BY <2>6, <3>1 DEF StartDownload, HandleCommand, FastbootTypeOK
    <3>5. Loads
      BY <2>6, RanTypes, FastbootNumbers
      DEF StartDownload, HandleCommand, FastbootTypeOK
    <3> QED BY <3>3, <3>4, <3>5
  <2>7. CASE Unrecognized(p)
    <3>1. Answers
      BY <1>3, <2>7, SendType DEF Unrecognized, Texts
    <3>2. Rest /\ Loads
      BY <2>7 DEF Unrecognized, HandleCommand, FastbootTypeOK
    <3> QED BY <3>1, <3>2
  <2>8. CASE StoreData(p)
    <3>1. Answers
      BY <1>2, <2>8, SendType DEF StoreData
    <3>2. Rest
      BY <2>8 DEF StoreData, Download, FastbootTypeOK, history
    <3>3. /\ fastboot_bytes_expected \in Nat /\ fastboot_bytes_received \in Nat
          /\ fastboot_bytes_received < fastboot_bytes_expected
      <4>1. Remaining > 0
        BY <2>8 DEF StoreData
      <4> QED BY <4>1, LoadNumbers DEF Remaining
    <3>4. /\ fastboot_bytes_received' = fastboot_bytes_received + 1
          /\ buf' = [buf EXCEPT ![fastboot_bytes_received'] = p.body]
          /\ UNCHANGED <<fastboot_bytes_expected, image_size, runs>>
      BY <2>8 DEF StoreData, Download, history
    <3>5. Loads
      BY <1>0, <3>3, <3>4 DEF FastbootTypeOK
    <3> QED BY <3>1, <3>2, <3>5
  <2>9. CASE RejectData(p)
    <3>1. Answers
      BY <1>3, <2>9, SendType DEF RejectData, Texts
    <3>2. Rest /\ Loads
      BY <2>9 DEF RejectData, Download, FastbootTypeOK, history, download
    <3> QED BY <3>1, <3>2
  <2>10. CASE DataComplete(p)
    <3>1. Answers
      BY <1>3, <2>10, SendType DEF DataComplete, Texts
    <3>2. Rest
      BY <2>10 DEF DataComplete, Download, FastbootTypeOK, history
    <3>3. fastboot_bytes_received = fastboot_bytes_expected
      <4>1. Remaining = 0
        BY <2>10 DEF DataComplete
      <4> QED BY <4>1, LoadNumbers DEF Remaining
    <3>4. /\ image_size' = fastboot_bytes_received
          /\ fastboot_bytes_expected' = 0 /\ fastboot_bytes_received' = 0
          /\ UNCHANGED <<buf, runs>>
      BY <2>10 DEF DataComplete, Download, history
    <3>5. Loads
      BY <3>3, <3>4 DEF FastbootTypeOK
    <3> QED BY <3>1, <3>2, <3>5
  <2> QED
    BY <2>1, <2>2, <2>3, <2>4, <2>5, <2>6, <2>7, <2>8, <2>9, <2>10 DEF Hear
<1> QED BY <1>1, <1>4 DEF FastbootTypeOK, hostVars

\* What the host sends
LEMMA SendsTypes ==
  ASSUME FastbootTypeOK, NEW p \in Packets, Sends(p)
  PROVE  /\ out' \in Packets /\ out' = p
         /\ toServer' \subseteq Packets /\ toHost' \subseteq Packets
BY DEF Sends, Young, FastbootTypeOK

\* The host goes on.
LEMMA GoOnTypes ==
  ASSUME FastbootTypeOK, NEW to \in {"init", "read", "data"},
         NEW id \in {"init", "fastboot"}, NEW n \in Nat, NEW body \in Bodies,
         GoOn(to, id, n, body)
  PROVE  FastbootTypeOK'
<1>1. FastbootPacket(id, n, body) \in Packets
  BY PacketType
<1>2. /\ out' \in Packets /\ toServer' \subseteq Packets
      /\ toHost' \subseteq Packets
  BY <1>1, SendsTypes DEF GoOn
<1>3. /\ step' = to
      /\ UNCHANGED <<serverVars, asked, got, sessions, history>>
  BY DEF GoOn
<1> QED
  BY <1>2, <1>3
  DEF FastbootTypeOK, serverVars, commands, download, history

\* The host stops.
LEMMA StopTypes ==
  ASSUME FastbootTypeOK, NEW to \in {"idle", "off"}, NEW body \in Bodies,
         Stop(to, body), broken' \in BOOLEAN
  PROVE  FastbootTypeOK'
BY DEF Stop, FastbootTypeOK, serverVars, commands, download

\* The host takes an answer.
LEMMA TakeTypes ==
  ASSUME FastbootTypeOK, Take
  PROVE  FastbootTypeOK'
<1>1. PICK p \in toHost :
        /\ Answer(p)
        /\ \/ TakeNumber(p) \/ TakeInit(p) \/ TakeAccepted(p) \/ TakeInfo(p)
           \/ TakeGoAhead(p) \/ TakeStored(p) \/ TakeFinal(p) \/ TakeNonsense(p)
  BY DEF Take
<1>2. p \in Packets /\ out \in Packets
  BY DEF FastbootTypeOK
<1>3. p.body \in Bodies /\ p.body.i \in Nat
  BY <1>2, PacketFields
<1>4. out.n + 1 \in Nat /\ out.body.i + 1 \in Nat
  BY <1>2, PacketFields
<1>5. Empty \in Bodies /\ broken \in BOOLEAN
  BY EmptyType DEF FastbootTypeOK
<1>6. ASSUME NEW i \in Nat PROVE Body("data", asked.k, i) \in Bodies
  <2>1. asked.k \in 0 .. MaxSeq
    BY DEF FastbootTypeOK
  <2> QED BY <2>1, BodyType DEF Texts
<1>7. CASE TakeNumber(p)
  BY <1>3, <1>5, <1>7, GoOnTypes DEF TakeNumber
<1>8. CASE TakeInit(p)
  BY <1>5, <1>8, StopTypes DEF TakeInit
<1>9. CASE TakeAccepted(p)
  BY <1>4, <1>5, <1>9, GoOnTypes DEF TakeAccepted
<1>10. CASE TakeInfo(p)
  BY <1>4, <1>5, <1>10, GoOnTypes DEF TakeInfo
<1>11. CASE TakeGoAhead(p)
  BY <1>4, <1>6, <1>11, GoOnTypes DEF TakeGoAhead
<1>12. CASE TakeStored(p)
  <2>1. Body("data", asked.k, out.body.i + 1) \in Bodies
    BY <1>4, <1>6
  <2>2. CASE out.body.i < Chunks
    BY <1>4, <1>12, <2>1, <2>2, GoOnTypes DEF TakeStored
  <2>3. CASE ~(out.body.i < Chunks)
    BY <1>4, <1>5, <1>12, <2>3, GoOnTypes DEF TakeStored
  <2> QED BY <2>2, <2>3
<1>13. CASE TakeFinal(p)
  BY <1>3, <1>5, <1>13, StopTypes DEF TakeFinal
<1>14. CASE TakeNonsense(p)
  BY <1>5, <1>14, StopTypes DEF TakeNonsense
<1> QED
  BY <1>1, <1>7, <1>8, <1>9, <1>10, <1>11, <1>12, <1>13, <1>14

\* Every step keeps the types.
LEMMA FastbootTypesNext ==
  FastbootTypeOK /\ [FastbootNext]_fastbootVars => FastbootTypeOK'
<1> SUFFICES ASSUME FastbootTypeOK, [FastbootNext]_fastbootVars
             PROVE  FastbootTypeOK'
  OBVIOUS
<1>1. CASE HearQuery
  <2>a. 0 \in 0 .. MaxSeq /\ "number" \in Texts /\ sequence_number \in Nat
    BY FastbootNumbers DEF Texts, FastbootTypeOK
  <2>1. Body("number", 0, sequence_number) \in Bodies
    BY <2>a, BodyType
  <2>2. last_packet' \in Packets
    BY <1>1, <2>1, PacketType DEF HearQuery
  <2>3. toHost' \subseteq Packets /\ disturbed' \in BOOLEAN
    BY <1>1, <2>2 DEF HearQuery, FastbootTypeOK
  <2> QED BY <1>1, <2>2, <2>3
          DEF HearQuery, FastbootTypeOK, commands, download, hostVars
<1>2. CASE HearOther
  <2>1. last_packet' \in Packets
    BY <1>2, EmptyType, PacketType DEF HearOther
  <2> QED BY <1>2, <2>1
          DEF HearOther, FastbootTypeOK, commands, download, hostVars
<1>3. CASE \E p \in toServer : Hear(p)
  BY <1>3, HearTypes
<1>4. CASE StartServer
  BY <1>4 DEF StartServer, FastbootTypeOK, commands, download, hostVars, history
<1>5. CASE Query
  <2>a. FastbootPacket("query", 0, Empty) \in Packets
    BY EmptyType, PacketType
  <2>b. 0 \in 0 .. MaxSeq
    BY FastbootNumbers
  <2>1. out' \in Packets /\ toServer' \subseteq Packets
          /\ toHost' \subseteq Packets
    BY <1>5, <2>a DEF Query
  <2>2. sessions' \in 0 .. Sessions
    BY <1>5, FastbootNumbers DEF Query, FastbootTypeOK
  <2>3. asked' \in [k : 0 .. MaxSeq, kind : Kinds \cup {"none"}]
          /\ got' \in Bodies
    BY <1>5, <2>b, EmptyType DEF Query
  <2> QED BY <1>5, <2>1, <2>2, <2>3
          DEF Query, FastbootTypeOK, serverVars, commands, download
<1>6. ASSUME NEW kind \in Kinds, Command(kind)
      PROVE  FastbootTypeOK'
  <2>1. out.n \in Nat /\ out.n + 1 \in 0 .. MaxSeq
    BY <1>6, PacketFields, FastbootNumbers DEF Command, FastbootTypeOK
  <2>2. Body(kind, out.n + 1, 0) \in Bodies
    BY <2>1, BodyType DEF Texts
  <2>3. FastbootPacket("fastboot", out.n + 1,
          Body(kind, out.n + 1, 0)) \in Packets
    BY <2>1, <2>2, PacketType
  <2>4. /\ out' \in Packets /\ toServer' \subseteq Packets
        /\ toHost' \subseteq Packets
    BY <1>6, <2>3, SendsTypes DEF Command
  <2>5. asked' \in [k : 0 .. MaxSeq, kind : Kinds \cup {"none"}]
    BY <1>6, <2>1 DEF Command
  <2> QED BY <1>6, <2>4, <2>5
          DEF Command, FastbootTypeOK, serverVars, commands, download, history
<1>7. CASE Take
  BY <1>7, TakeTypes
<1>8. CASE LoseAnswer
  BY <1>8 DEF LoseAnswer, FastbootTypeOK, serverVars, commands, download,
              hostVars, history
<1>9. CASE UNCHANGED fastbootVars
  BY <1>9 DEF fastbootVars, FastbootTypeOK, serverVars, commands, download,
              hostVars, history
<1> QED
  BY <1>1, <1>2, <1>3, <1>4, <1>5, <1>6, <1>7, <1>8, <1>9 DEF FastbootNext

-----------------------------------------------------------------------------
(***************************************************************************)
(* The numbers.                                                            *)
(***************************************************************************)
\* The packet whose turn it is, is the host's last.
LEMMA TurnIsOut ==
  ASSUME FastbootTypeOK, NumbersAgree, NEW p \in toServer, Current(p)
  PROVE  p = out /\ out.n = sequence_number /\ step \notin {"query", "idle"}
<1>1. p.n \in Nat /\ out.n \in Nat /\ sequence_number \in Nat
  BY PacketFields DEF FastbootTypeOK
<1>2. p.id # "query" /\ Wire(p.n) = Wire(sequence_number)
  BY DEF Current
<1>3. /\ step # "query" /\ out.n <= sequence_number
      /\ sequence_number <= out.n + MaxInfos + 1
      /\ p = out \/ (p.n < out.n /\ out.n <= p.n + Lifetime)
      /\ step = "idle" => out.n < sequence_number
  BY <1>2 DEF NumbersAgree
<1>4. p.n <= sequence_number /\ sequence_number < p.n + SeqNumbers
  BY <1>1, <1>3, FastbootNumbers
<1>5. sequence_number % SeqNumbers = (p.n % SeqNumbers) + 0
  <2>1. p.n % SeqNumbers \in Int
    BY <1>1, FastbootNumbers
  <2> QED BY <1>2, <2>1 DEF Wire
<1>6. sequence_number = p.n + 0
  BY <1>1, <1>4, <1>5, FastbootNumbers, RestsApart
<1> QED BY <1>1, <1>3, <1>6

\* A packet that is repeated is the one heard last.
LEMMA RepeatedIsLast ==
  ASSUME FastbootTypeOK, NumbersAgree, NEW p \in toServer, HearRepeated(p)
  PROVE  /\ step # "query" /\ p.n = sequence_number - 1
         /\ out.n <= p.n + Lifetime
<1>1. p.n \in Nat /\ out.n \in Nat /\ sequence_number \in Nat
  BY PacketFields DEF FastbootTypeOK
<1>2. p.id # "query" /\ Wire(p.n) = Wire(sequence_number) - 1
  BY DEF HearRepeated
<1>3. /\ step # "query" /\ out.n <= sequence_number
      /\ sequence_number <= out.n + MaxInfos + 1
      /\ p = out \/ (p.n < out.n /\ out.n <= p.n + Lifetime)
  BY <1>2 DEF NumbersAgree
<1>4. /\ p.n <= sequence_number /\ sequence_number < p.n + SeqNumbers
      /\ out.n <= p.n + Lifetime
  BY <1>1, <1>3, FastbootNumbers
<1>5. sequence_number % SeqNumbers = (p.n % SeqNumbers) + 1
  <2>1. p.n % SeqNumbers \in Int /\ sequence_number % SeqNumbers \in Int
    BY <1>1, FastbootNumbers
  <2> QED BY <1>2, <2>1 DEF Wire
<1>6. sequence_number = p.n + 1
  BY <1>1, <1>4, <1>5, FastbootNumbers, RestsApart
<1> QED BY <1>1, <1>3, <1>4, <1>6

\* The answer the host takes has the number of its last packet.
LEMMA AnswerIsToOut ==
  ASSUME FastbootTypeOK, NumbersAgree, StepFits, NEW p \in toHost, Answer(p),
         step # "query"
  PROVE  /\ p.n = out.n /\ p.id = out.id /\ out.n < sequence_number
         /\ step \in {"init", "write", "read", "data"}
<1>1. p.n \in Nat /\ out.n \in Nat /\ sequence_number \in Nat
  BY PacketFields DEF FastbootTypeOK
<1>2. /\ p.id = out.id /\ Wire(p.n) = Wire(out.n)
      /\ step \in {"init", "write", "read", "data"}
  BY DEF Answer, Waiting, FastbootTypeOK
<1>3. HasNumber(p)
  BY <1>2 DEF StepFits, HasNumber
<1>4. /\ p.n < sequence_number /\ out.n <= p.n + Lifetime
      /\ sequence_number <= out.n + MaxInfos + 1
  BY <1>3 DEF NumbersAgree
<1>5. p.n % SeqNumbers = out.n % SeqNumbers /\ p.n % SeqNumbers \in Int
  BY <1>1, <1>2, FastbootNumbers DEF Wire
<1>6. CASE p.n <= out.n
  <2>1. out.n < p.n + SeqNumbers /\ out.n % SeqNumbers = (p.n % SeqNumbers) + 0
    BY <1>1, <1>4, <1>5, FastbootNumbers
  <2>2. out.n = p.n + 0
    BY <1>1, <1>6, <2>1, FastbootNumbers, RestsApart
  <2> QED BY <1>1, <1>2, <1>4, <2>2
<1>7. CASE out.n <= p.n
  <2>1. p.n < out.n + SeqNumbers /\ p.n % SeqNumbers = (out.n % SeqNumbers) + 0
    BY <1>1, <1>4, <1>5, FastbootNumbers
  <2>2. p.n = out.n + 0
    BY <1>1, <1>7, <2>1, FastbootNumbers, RestsApart
  <2> QED BY <1>1, <1>2, <1>4, <2>2
<1> QED BY <1>1, <1>6, <1>7

\* What the server answers to the host's last packet
LEMMA SendNumbers ==
  ASSUME FastbootTypeOK, NumbersAgree,
         NEW p \in toServer, Current(p),
         NEW id \in {"init", "fastboot"}, NEW infos \in 0 .. MaxInfos,
         NEW body \in Bodies, FastbootSend(id, infos, body),
         UNCHANGED <<toServer, hostVars>>
  PROVE  NumbersAgree'
<1>1. /\ out.n = sequence_number /\ step \notin {"query", "idle"}
      /\ out.n \in Nat /\ infos \in Nat /\ infos <= MaxInfos
  BY TurnIsOut, PacketFields, FastbootNumbers DEF FastbootTypeOK
<1>2. /\ sequence_number' = out.n + infos + 1
      /\ last_packet'.n = out.n + infos
      /\ \A q \in toHost' :
           \/ q \in toHost \/ q = last_packet'
           \/ \E j \in 0 .. infos - 1 : q.n = out.n + j
  BY <1>1, SendType
<1>3. UNCHANGED <<toServer, step, out, asked>>
  BY DEF hostVars
<1>4. ASSUME NEW q \in toHost', HasNumber(q)
      PROVE  q.n < sequence_number' /\ out.n <= q.n + Lifetime
  <2>1. CASE q \in toHost
    <3>1. q.n < sequence_number /\ out.n <= q.n + Lifetime /\ q.n \in Nat
      BY <1>1, <1>4, <2>1, PacketFields DEF NumbersAgree, FastbootTypeOK
    <3> QED BY <1>1, <1>2, <3>1
  <2>2. CASE q = last_packet'
    BY <1>1, <1>2, <2>2, FastbootNumbers
  <2>3. CASE \E j \in 0 .. infos - 1 : q.n = out.n + j
    <3>1. PICK j \in 0 .. infos - 1 : q.n = out.n + j
      BY <2>3
    <3> QED BY <1>1, <1>2, <3>1, FastbootNumbers
  <2> QED BY <1>2, <2>1, <2>2, <2>3
<1>5. out.n <= sequence_number' /\ sequence_number' <= out.n + MaxInfos + 1
        /\ last_packet'.n = sequence_number' - 1
  BY <1>1, <1>2, FastbootNumbers
<1>6. /\ out.id # "query"
      /\ \A q \in toServer : q.id # "query" =>
           q = out \/ (q.n < out.n /\ out.n <= q.n + Lifetime)
  BY <1>1 DEF NumbersAgree
<1> QED BY <1>1, <1>3, <1>4, <1>5, <1>6 DEF NumbersAgree, HasNumber

\* The host's next packet is numbered one higher.
LEMMA SendsNumbers ==
  ASSUME FastbootTypeOK, NumbersAgree, step # "query", out.n < sequence_number,
         NEW q \in Packets, q.id # "query", q.n = out.n + 1, Sends(q),
         UNCHANGED <<sequence_number, last_packet>>,
         step' \notin {"query", "idle"}
  PROVE  NumbersAgree'
<1>1. out' = q /\ out.n \in Nat /\ sequence_number \in Nat
  BY PacketFields DEF Sends, FastbootTypeOK
<1>2. /\ out'.n <= sequence_number' /\ sequence_number' <= out'.n + MaxInfos + 1
      /\ out'.id # "query"
  BY <1>1, FastbootNumbers DEF NumbersAgree
<1>3. ASSUME NEW p \in toServer', p.id # "query", p # out'
      PROVE  p.n < out'.n /\ out'.n <= p.n + Lifetime
  <2>1. p \in toServer /\ p.n + Lifetime >= q.n
    BY <1>1, <1>3 DEF Sends, Young
  <2>2. p.n \in Nat /\ (p = out \/ p.n < out.n)
    BY <1>3, <2>1, PacketFields DEF NumbersAgree, FastbootTypeOK
  <2> QED BY <1>1, <2>1, <2>2, FastbootNumbers
<1>4. ASSUME NEW p \in toHost', HasNumber(p)
      PROVE  p.n < sequence_number' /\ out'.n <= p.n + Lifetime
  <2>1. p \in toHost /\ p.n + Lifetime >= q.n
    BY <1>1, <1>4 DEF Sends, Young, HasNumber
  <2>2. p.n \in Nat /\ p.n < sequence_number
    BY <1>4, <2>1, PacketFields DEF NumbersAgree, FastbootTypeOK
  <2> QED BY <1>1, <2>1, <2>2, FastbootNumbers
<1>5. HasNumber(last_packet)' => last_packet'.n = sequence_number' - 1
  BY DEF NumbersAgree, HasNumber
<1> QED BY <1>2, <1>3, <1>4, <1>5 DEF NumbersAgree, HasNumber

\* What the server does with a packet that is not a repeated one is to answer
\* the host's last.
LEMMA HearSends ==
  ASSUME FastbootTypeOK, NEW p \in toServer, Hear(p), ~HearRepeated(p)
  PROVE  /\ Current(p) /\ UNCHANGED <<toServer, hostVars>>
         /\ \E id \in {"init", "fastboot"}, infos \in 0 .. MaxInfos,
               body \in Bodies : FastbootSend(id, infos, body)
<1>0. 0 \in 0 .. MaxInfos
  BY FastbootNumbers
<1>1. command.k \in 0 .. MaxSeq /\ Empty \in Bodies /\ 0 \in 0 .. MaxInfos
  BY <1>0, EmptyType DEF FastbootTypeOK, Bodies
<1>2. ASSUME NEW t \in Texts, NEW i \in Nat
      PROVE Body(t, command.k, i) \in Bodies
  BY <1>1, <1>2, BodyType
<1>3. Body("OKAY", command.k, 0) \in Bodies
        /\ Body("FAIL", command.k, 0) \in Bodies
        /\ Body("DATA", command.k, 0) \in Bodies
  BY <1>2 DEF Texts
<1> DEFINE Answers == \E id \in {"init", "fastboot"}, infos \in 0 .. MaxInfos,
                         body \in Bodies : FastbootSend(id, infos, body)
           Heard == Current(p) /\ UNCHANGED <<toServer, hostVars>>
<1>4. CASE HearInit(p)
  BY <1>1, <1>4 DEF HearInit
<1>5. CASE HearText(p)
  BY <1>1, <1>5 DEF HearText
<1>6. CASE Execute(p)
  <2>1. Heard
    BY <1>6 DEF Execute, HandleCommand
  <2>2. PICK t \in {"OKAY", "FAIL"},
             infos \in 0 .. (IF command.t = "long" THEN MaxInfos ELSE 0) :
          FastbootSend("fastboot", infos, Body(t, command.k, infos))
    BY <1>6 DEF Execute
  <2>3. infos \in 0 .. MaxInfos /\ infos \in Nat
    <3>1. CASE command.t = "long"
      BY <3>1, FastbootNumbers
    <3>2. CASE command.t # "long"
      BY <3>2, FastbootNumbers
    <3> QED BY <3>1, <3>2
  <2>4. t \in Texts
    BY DEF Texts
  <2>5. Body(t, command.k, infos) \in Bodies
    BY <1>2, <2>3, <2>4
  <2>6. Answers
    BY <2>2, <2>3, <2>5
  <2> QED BY <2>1, <2>6
<1>7. CASE Boot(p)
  <2>1. Heard
    BY <1>7 DEF Boot, HandleCommand
  <2>2. PICK done \in BOOLEAN :
          FastbootSend("fastboot", 0,
                       Body(IF done THEN "OKAY" ELSE "FAIL", command.k, 0))
    BY <1>7 DEF Boot
  <2>3. CASE done
    BY <1>1, <1>3, <2>1, <2>2, <2>3
  <2>4. CASE ~done
    BY <1>1, <1>3, <2>1, <2>2, <2>4
  <2> QED BY <2>3, <2>4
<1>8. CASE StartDownload(p)
  <2>1. Heard
    BY <1>8 DEF StartDownload, HandleCommand
  <2>2. PICK fits \in BOOLEAN :
          FastbootSend("fastboot", 0,
                       Body(IF fits THEN "DATA" ELSE "FAIL", command.k, 0))
    BY <1>8 DEF StartDownload
  <2>3. CASE fits
    BY <1>1, <1>3, <2>1, <2>2, <2>3
  <2>4. CASE ~fits
    BY <1>1, <1>3, <2>1, <2>2, <2>4
  <2> QED BY <2>3, <2>4
<1>9. CASE Unrecognized(p)
  BY <1>1, <1>3, <1>9 DEF Unrecognized, HandleCommand
<1>10. CASE StoreData(p)
  BY <1>1, <1>10 DEF StoreData, Download
<1>11. CASE RejectData(p)
  BY <1>1, <1>3, <1>11 DEF RejectData, Download
<1>12. CASE DataComplete(p)
  BY <1>1, <1>3, <1>12 DEF DataComplete, Download
<1> QED
  BY <1>4, <1>5, <1>6, <1>7, <1>8, <1>9, <1>10, <1>11, <1>12 DEF Hear

LEMMA HearNumbers ==
  ASSUME FastbootTypeOK, NumbersAgree, NEW p \in toServer, Hear(p)
  PROVE  NumbersAgree'
<1>1. CASE HearRepeated(p)
  <2>1. /\ step # "query" /\ p.n = sequence_number - 1
        /\ out.n <= p.n + Lifetime /\ sequence_number \in Nat
    BY <1>1, RepeatedIsLast DEF FastbootTypeOK
  <2>2. /\ toHost' = toHost \cup {last_packet}
        /\ UNCHANGED <<step, out, asked, toServer, sequence_number,
             last_packet>>
    BY <1>1 DEF HearRepeated, serverVars, hostVars
  <2>3. ASSUME NEW q \in toHost', HasNumber(q)
        PROVE  q.n < sequence_number /\ out.n <= q.n + Lifetime
    BY <2>1, <2>2, <2>3 DEF NumbersAgree
  <2> QED BY <2>1, <2>2, <2>3 DEF NumbersAgree, HasNumber
<1>2. CASE ~HearRepeated(p)
  <2>1. PICK id \in {"init", "fastboot"}, infos \in 0 .. MaxInfos,
             body \in Bodies : FastbootSend(id, infos, body)
    BY <1>2, HearSends
  <2> QED BY <1>2, <2>1, HearSends, SendNumbers
<1> QED BY <1>1, <1>2

\* The host goes on to its next packet.
LEMMA GoOnNumbers ==
  ASSUME FastbootTypeOK, NumbersAgree, StepFits, NEW p \in toHost, Answer(p),
         step # "query", NEW to \in {"read", "data"}, NEW body \in Bodies,
         GoOn(to, "fastboot", out.n + 1, body)
  PROVE  NumbersAgree' /\ StepFits'
<1>1. out.n < sequence_number /\ out.n + 1 \in Nat
  BY AnswerIsToOut, PacketFields DEF FastbootTypeOK
<1> DEFINE q == FastbootPacket("fastboot", out.n + 1, body)
<1>2. q \in Packets /\ q.id = "fastboot" /\ q.n = out.n + 1
  BY <1>1, PacketType
<1>3. /\ Sends(q) /\ step' = to /\ step # "off"
      /\ UNCHANGED <<sequence_number, last_packet, asked, broken>>
  BY DEF GoOn, serverVars, history, Answer, Waiting
<1> HIDE DEF q
<1>4. NumbersAgree'
  BY <1>1, <1>2, <1>3, SendsNumbers
<1>5. StepFits'
  BY <1>2, <1>3 DEF StepFits, Sends
<1> QED BY <1>4, <1>5

\* The host stops.
LEMMA StopNumbers ==
  ASSUME FastbootTypeOK, NumbersAgree, StepFits, NEW p \in toHost, Answer(p),
         step # "query", NEW to \in {"idle", "off"}, NEW body,
         Stop(to, body), to = "idle" \/ step # "init",
         to = "off" \/ UNCHANGED broken
  PROVE  NumbersAgree' /\ StepFits'
<1>1. out.n < sequence_number /\ step \in {"init", "write", "read", "data"}
  BY AnswerIsToOut
<1>2. /\ step' = to
      /\ UNCHANGED <<sequence_number, last_packet, toServer, toHost, out,
           asked>>
  BY DEF Stop, serverVars
<1>3. NumbersAgree'
  BY <1>1, <1>2 DEF NumbersAgree, HasNumber
<1>4. StepFits'
  BY <1>1, <1>2 DEF StepFits
<1> QED BY <1>3, <1>4

LEMMA TakeNumbers ==
  ASSUME FastbootTypeOK, NumbersAgree, StepFits, Take
  PROVE  NumbersAgree' /\ StepFits'
<1>1. PICK p \in toHost :
        /\ Answer(p)
        /\ \/ TakeNumber(p) \/ TakeInit(p) \/ TakeAccepted(p) \/ TakeInfo(p)
           \/ TakeGoAhead(p) \/ TakeStored(p) \/ TakeFinal(p) \/ TakeNonsense(p)
  BY DEF Take
<1>2. out \in Packets /\ Empty \in Bodies /\ asked.k \in 0 .. MaxSeq
        /\ "data" \in Texts
  BY EmptyType DEF FastbootTypeOK, Texts
<1>3. CASE TakeNumber(p)
  <2>1. /\ step = "query" /\ GoOn("init", "init", p.body.i, Empty)
        /\ p.body.i = sequence_number /\ sequence_number \in Nat
        /\ asked.kind = "none"
    BY <1>1, <1>3 DEF TakeNumber, NumbersAgree, FastbootTypeOK
  <2> DEFINE q == FastbootPacket("init", sequence_number, Empty)
  <2>2. q \in Packets /\ q.id = "init" /\ q.n = sequence_number
    BY <1>2, <2>1, PacketType
  <2>3. /\ Sends(q) /\ step' = "init"
        /\ UNCHANGED <<sequence_number, last_packet, asked, broken>>
    BY <2>1 DEF GoOn, serverVars, history
  <2> HIDE DEF q
  <2>4. out' = q /\ (\A r \in toServer' : r.id = "query" \/ r = q)
          /\ \A r \in toHost' : r.id = "query"
    BY <2>1, <2>3 DEF Sends, Young, NumbersAgree
  <2>5. NumbersAgree'
    <3>1. /\ q.n <= sequence_number /\ sequence_number <= q.n + MaxInfos + 1
      BY <2>1, <2>2, FastbootNumbers
    <3> QED BY <2>2, <2>3, <2>4, <3>1 DEF NumbersAgree, HasNumber
  <2>6. StepFits'
    BY <2>1, <2>2, <2>3, <2>4 DEF StepFits
  <2> QED BY <2>5, <2>6
<1>4. CASE TakeInit(p)
  <2>1. step = "init" /\ Stop("idle", Empty) /\ UNCHANGED broken
    BY <1>4 DEF TakeInit
  <2> QED BY <1>1, <2>1, StopNumbers
<1>5. CASE TakeAccepted(p)
  BY <1>1, <1>2, <1>5, GoOnNumbers DEF TakeAccepted
<1>6. CASE TakeInfo(p)
  BY <1>1, <1>2, <1>6, GoOnNumbers DEF TakeInfo
<1>7. CASE TakeGoAhead(p)
  BY <1>1, <1>2, <1>7, GoOnNumbers, BodyType DEF TakeGoAhead
<1>8. CASE TakeStored(p)
  <2>0. step = "data"
    BY <1>8 DEF TakeStored
  <2>a. out.body.i + 1 \in Nat
    BY <1>2, PacketFields
  <2>1. step = "data" /\ Body("data", asked.k, out.body.i + 1) \in Bodies
    BY <1>2, <2>0, <2>a, BodyType
  <2>2. CASE out.body.i < Chunks
    BY <1>1, <1>8, <2>1, <2>2, GoOnNumbers DEF TakeStored
  <2>3. CASE ~(out.body.i < Chunks)
    BY <1>1, <1>2, <1>8, <2>1, <2>3, GoOnNumbers DEF TakeStored
  <2> QED BY <2>2, <2>3
<1>9. CASE TakeFinal(p)
  BY <1>1, <1>9, StopNumbers DEF TakeFinal
<1>10. CASE TakeNonsense(p)
  <2>1. step \in {"write", "data", "read"} /\ Stop("off", Empty)
    BY <1>10 DEF TakeNonsense
  <2> QED BY <1>1, <2>1, StopNumbers
<1> QED BY <1>1, <1>3, <1>4, <1>5, <1>6, <1>7, <1>8, <1>9, <1>10

LEMMA NumbersNext ==
  ASSUME FastbootTypeOK, NumbersAgree, StepFits, [FastbootNext]_fastbootVars
  PROVE  NumbersAgree' /\ StepFits'
<1>1. CASE HearQuery
  <2>1. /\ last_packet' = FastbootPacket("query", 0,
                                         Body("number", 0, sequence_number))
        /\ toHost' = toHost \cup {last_packet'}
        /\ UNCHANGED <<step, out, asked, toServer, sequence_number, broken>>
    BY <1>1 DEF HearQuery, hostVars
  <2>2. last_packet'.id = "query" /\ last_packet'.body.i = sequence_number
    BY <2>1 DEF FastbootPacket, Body
  <2>3. NumbersAgree'
    BY <2>1, <2>2 DEF NumbersAgree, HasNumber
  <2>4. StepFits'
    BY <2>1 DEF StepFits
  <2> QED BY <2>3, <2>4
<1>2. CASE HearOther
  <2>1. /\ last_packet'.id = "other"
        /\ UNCHANGED <<step, out, asked, toServer, toHost, sequence_number,
                       broken>>
    BY <1>2 DEF HearOther, hostVars, FastbootPacket
  <2> QED BY <2>1 DEF NumbersAgree, HasNumber, StepFits
<1>3. CASE \E p \in toServer : Hear(p)
  <2>1. PICK p \in toServer : Hear(p)
    BY <1>3
  <2>2. UNCHANGED <<hostVars, broken>>
    <3>1. UNCHANGED hostVars
      BY <2>1, HearSends DEF HearRepeated
    <3>2. UNCHANGED broken
      BY <2>1 DEF Hear, HearInit, HearRepeated, HearText, HandleCommand,
         Execute,
             Boot, StartDownload, Unrecognized, Download, StoreData, RejectData,
             DataComplete, history
    <3> QED BY <3>1, <3>2
  <2>3. StepFits'
    BY <2>2 DEF StepFits, hostVars
  <2> QED BY <2>1, <2>3, HearNumbers
<1>4. CASE StartServer
  BY <1>4 DEF StartServer, hostVars, history, NumbersAgree, HasNumber, StepFits
<1>5. CASE Query
  <2>1. /\ step' = "query" /\ out'.id = "query" /\ out'.n = 0
        /\ toServer' = {out'} /\ toHost' = {} /\ asked'.kind = "none"
        /\ broken' = FALSE
        /\ UNCHANGED <<sequence_number, last_packet>>
    BY <1>5 DEF Query, FastbootPacket, serverVars
  <2> QED BY <2>1 DEF NumbersAgree, HasNumber, StepFits
<1>6. ASSUME NEW kind \in Kinds, Command(kind)
      PROVE  NumbersAgree' /\ StepFits'
  <2> DEFINE q == FastbootPacket("fastboot", out.n + 1,
        Body(kind, out.n + 1, 0))
  <2>1. out.n \in Nat /\ out.n + 1 \in 0 .. MaxSeq /\ out.n + 1 \in Nat
    BY <1>6, PacketFields, FastbootNumbers DEF Command, FastbootTypeOK
  <2>2. Body(kind, out.n + 1, 0) \in Bodies
    BY <2>1, BodyType DEF Texts
  <2>3. q \in Packets /\ q.id = "fastboot" /\ q.n = out.n + 1
    BY <2>1, <2>2, PacketType
  <2>4. /\ Sends(q) /\ step = "idle" /\ step' = "write"
        /\ UNCHANGED <<sequence_number, last_packet, broken>>
    BY <1>6 DEF Command, serverVars, history
  <2> HIDE DEF q
  <2>5. NumbersAgree'
    BY <2>3, <2>4, SendsNumbers DEF NumbersAgree
  <2>6. StepFits'
    BY <2>3, <2>4 DEF StepFits, Sends
  <2> QED BY <2>5, <2>6
<1>7. CASE Take
  BY <1>7, TakeNumbers
<1>8. CASE LoseAnswer
  <2>1. /\ toHost' \subseteq toHost
        /\ UNCHANGED <<step, out, asked, toServer, sequence_number, last_packet,
                       broken>>
    BY <1>8 DEF LoseAnswer, serverVars, hostVars, history
  <2> QED BY <2>1 DEF NumbersAgree, HasNumber, StepFits
<1>9. CASE UNCHANGED fastbootVars
  BY <1>9 DEF fastbootVars, serverVars, hostVars, history, NumbersAgree,
              HasNumber, StepFits
<1> QED
  BY <1>1, <1>2, <1>3, <1>4, <1>5, <1>6, <1>7, <1>8, <1>9 DEF FastbootNext

-----------------------------------------------------------------------------
(***************************************************************************)
(* No command is run twice.                                                *)
(***************************************************************************)
\* Nothing was run, and no command came.
LEMMA RunsKept ==
  ASSUME FastbootTypeOK, RunsAreOld,
         UNCHANGED runs, sequence_number' \in Nat,
         sequence_number <= sequence_number',
         UNCHANGED <<command, pending_command>> \/ pending_command' = FALSE,
         \A p \in toServer' :
           \/ p \in toServer
           \/ p.id = "fastboot" /\ p.body.t \in Kinds =>
                p.body.k = p.n /\ p.n \in 1 .. MaxSeq
  PROVE  RunsAreOld'
<1>1. /\ sequence_number \in Nat /\ runs \in [1 .. MaxSeq -> Nat]
      /\ command.k \in 0 .. MaxSeq /\ MaxSeq \in Nat
  BY FastbootNumbers DEF FastbootTypeOK, Bodies
<1>2. ASSUME NEW k \in 1 .. MaxSeq
      PROVE  runs'[k] <= 1 /\ (runs'[k] = 1 => k < sequence_number')
  <2>1. runs[k] <= 1 /\ (runs[k] = 1 => k < sequence_number) /\ k \in Nat
    BY <1>1 DEF RunsAreOld
  <2> QED BY <1>1, <2>1
<1>3. ASSUME pending_command', command'.t \in Kinds
      PROVE  /\ command'.k \in 1 .. MaxSeq /\ command'.k < sequence_number'
             /\ runs'[command'.k] = 0
  <2>1. UNCHANGED <<command, pending_command>>
    BY <1>3
  <2>2. /\ command.k \in 1 .. MaxSeq /\ command.k < sequence_number
        /\ runs[command.k] = 0
    BY <1>3, <2>1 DEF RunsAreOld
  <2>3. command.k \in Nat
    BY <1>1
  <2>4. command.k < sequence_number'
    BY <1>1, <2>2, <2>3
  <2> QED BY <2>1, <2>2, <2>4
<1>4. \A p \in toServer' : p.id = "fastboot" /\ p.body.t \in Kinds =>
        p.body.k = p.n /\ p.n \in 1 .. MaxSeq
  BY DEF RunsAreOld
<1> QED BY <1>2, <1>3, <1>4 DEF RunsAreOld, Kinds

\* A command is run.
LEMMA RunCounted ==
  ASSUME FastbootTypeOK, RunsAreOld, Ran,
         pending_command, command.t \in Kinds, pending_command' = FALSE,
         sequence_number' \in Nat, sequence_number <= sequence_number',
         UNCHANGED toServer
  PROVE  RunsAreOld' /\ runs'[command.k] = 1
<1>1. /\ sequence_number \in Nat /\ runs \in [1 .. MaxSeq -> Nat]
      /\ MaxSeq \in Nat
  BY FastbootNumbers DEF FastbootTypeOK
<1>2. /\ command.k \in 1 .. MaxSeq /\ command.k < sequence_number
      /\ runs[command.k] = 0
  BY DEF RunsAreOld
<1>3. \A k \in 1 .. MaxSeq :
        runs'[k] = IF k = command.k THEN runs[k] + 1 ELSE runs[k]
  BY RanTypes
<1>4. ASSUME NEW k \in 1 .. MaxSeq
      PROVE  runs'[k] <= 1 /\ (runs'[k] = 1 => k < sequence_number')
  <2>1. runs[k] <= 1 /\ (runs[k] = 1 => k < sequence_number) /\ k \in Nat
    BY <1>1 DEF RunsAreOld
  <2>2. CASE k = command.k
    BY <1>1, <1>2, <1>3, <2>1, <2>2
  <2>3. CASE k # command.k
    BY <1>1, <1>3, <2>1, <2>3
  <2> QED BY <2>2, <2>3
<1>5. runs'[command.k] = 1
  BY <1>2, <1>3
<1>6. \A p \in toServer' : p.id = "fastboot" /\ p.body.t \in Kinds =>
        p.body.k = p.n /\ p.n \in 1 .. MaxSeq
  BY DEF RunsAreOld
<1> QED BY <1>4, <1>5, <1>6 DEF RunsAreOld, Kinds

\* The text of a command is left.
LEMMA TextIsNew ==
  ASSUME FastbootTypeOK, NumbersAgree, RunsAreOld,
         NEW p \in toServer, HearText(p)
  PROVE  RunsAreOld'
<1>1. /\ sequence_number \in Nat /\ runs \in [1 .. MaxSeq -> Nat]
      /\ MaxSeq \in Nat
  BY FastbootNumbers DEF FastbootTypeOK
<1>2. p.n = sequence_number /\ p.id = "fastboot" /\ command' = p.body
        /\ UNCHANGED <<runs, toServer>>
  BY TurnIsOut DEF HearText, Current, history
<1>3. sequence_number' = sequence_number + 1
  <2>1. FastbootSend("fastboot", 0, Empty)
    BY DEF HearText
  <2>2. sequence_number' = sequence_number + 0 + 1
    BY <2>1, EmptyType, SendType
  <2> QED BY <1>1, <2>2
<1>4. ASSUME NEW k \in 1 .. MaxSeq
      PROVE  runs'[k] <= 1 /\ (runs'[k] = 1 => k < sequence_number')
  <2>1. runs[k] <= 1 /\ (runs[k] = 1 => k < sequence_number) /\ k \in Nat
    BY <1>1 DEF RunsAreOld
  <2> QED BY <1>1, <1>2, <1>3, <2>1
<1>5. ASSUME command'.t \in Kinds
      PROVE  /\ command'.k \in 1 .. MaxSeq /\ command'.k < sequence_number'
             /\ runs'[command'.k] = 0
  <2>1. command'.k = sequence_number /\ sequence_number \in 1 .. MaxSeq
    BY <1>2, <1>5 DEF RunsAreOld
  <2>2. runs[sequence_number] \in Nat /\ runs[sequence_number] <= 1
          /\ runs[sequence_number] # 1
    BY <1>1, <2>1 DEF RunsAreOld
  <2> QED BY <1>1, <1>2, <1>3, <2>1, <2>2
<1>6. \A q \in toServer' : q.id = "fastboot" /\ q.body.t \in Kinds =>
        q.body.k = q.n /\ q.n \in 1 .. MaxSeq
  BY <1>2 DEF RunsAreOld
<1> QED BY <1>4, <1>5, <1>6 DEF RunsAreOld, Kinds

LEMMA HearRuns ==
  ASSUME FastbootTypeOK, NumbersAgree, RunsAreOld, NEW p \in toServer, Hear(p)
  PROVE  RunsAreOld'
<1>1. sequence_number' \in Nat /\ sequence_number <= sequence_number'
        /\ UNCHANGED toServer
  <2>1. sequence_number \in Nat
    BY DEF FastbootTypeOK
  <2>2. CASE HearRepeated(p)
    BY <2>1, <2>2 DEF HearRepeated, serverVars
  <2>3. CASE ~HearRepeated(p)
    <3>1. PICK id \in {"init", "fastboot"}, infos \in 0 .. MaxInfos,
               body \in Bodies : FastbootSend(id, infos, body)
      BY <2>3, HearSends
    <3>2. infos \in Nat
      BY FastbootNumbers
    <3>3. sequence_number' = sequence_number + infos + 1
      BY <3>1, <3>2, SendType
    <3> QED BY <2>1, <2>3, <3>2, <3>3, HearSends
  <2> QED BY <2>2, <2>3
<1>2. CASE HearInit(p)
  BY <1>1, <1>2, RunsKept DEF HearInit, commands
<1>3. CASE HearRepeated(p)
  BY <1>1, <1>3, RunsKept DEF HearRepeated, serverVars, commands, history
<1>4. CASE HearText(p)
  BY <1>4, TextIsNew
<1>5. CASE Execute(p)
  BY <1>1, <1>5, RunCounted DEF Execute, HandleCommand, Kinds
<1>6. CASE Boot(p)
  BY <1>1, <1>6, RunCounted DEF Boot, HandleCommand, Kinds
<1>7. CASE StartDownload(p)
  BY <1>1, <1>7, RunCounted DEF StartDownload, HandleCommand, Kinds
<1>8. CASE Unrecognized(p)
  BY <1>1, <1>8, RunsKept DEF Unrecognized, HandleCommand
<1>9. CASE Download(p)
  BY <1>1, <1>9, RunsKept DEF Download, history
<1> QED
  BY <1>2, <1>3, <1>4, <1>5, <1>6, <1>7, <1>8, <1>9
  DEF Hear, StoreData, RejectData, DataComplete

\* What the host sends is a text with its number, or no text.
LEMMA SendsRuns ==
  ASSUME FastbootTypeOK, RunsAreOld, NEW q, Sends(q),
         q.id = "fastboot" /\ q.body.t \in Kinds =>
           q.body.k = q.n /\ q.n \in 1 .. MaxSeq,
         UNCHANGED <<runs, command, pending_command, sequence_number>>
  PROVE  RunsAreOld'
<1>1. sequence_number \in Nat
  BY DEF FastbootTypeOK
<1>2. \A p \in toServer' : p \in toServer \/ p = q
  BY DEF Sends, Young
<1> QED BY <1>1, <1>2, RunsKept

LEMMA GoOnRuns ==
  ASSUME FastbootTypeOK, RunsAreOld, NEW to, NEW id, NEW n, NEW body,
         body.t \notin Kinds, GoOn(to, id, n, body)
  PROVE  RunsAreOld'
<1>1. Sends(FastbootPacket(id, n, body))
        /\ UNCHANGED <<runs, command, pending_command, sequence_number>>
  BY DEF GoOn, serverVars, commands, history
<1>2. FastbootPacket(id, n, body).body = body
  BY DEF FastbootPacket
<1> QED BY <1>1, <1>2, SendsRuns

LEMMA TakeRuns ==
  ASSUME FastbootTypeOK, RunsAreOld, Take
  PROVE  RunsAreOld'
<1>1. PICK p \in toHost :
        \/ TakeNumber(p) \/ TakeInit(p) \/ TakeAccepted(p) \/ TakeInfo(p)
        \/ TakeGoAhead(p) \/ TakeStored(p) \/ TakeFinal(p) \/ TakeNonsense(p)
  BY DEF Take
<1>2. Empty.t \notin Kinds /\ \A k, i : Body("data", k, i).t \notin Kinds
  BY DEF Empty, Body, Kinds
<1>3. sequence_number \in Nat
  BY DEF FastbootTypeOK
<1>4. ASSUME NEW to, NEW body, Stop(to, body) PROVE RunsAreOld'
  BY <1>3, <1>4, RunsKept DEF Stop, serverVars, commands
<1>5. CASE TakeNumber(p)
  BY <1>2, <1>5, GoOnRuns DEF TakeNumber
<1>6. CASE TakeInit(p)
  BY <1>4, <1>6 DEF TakeInit
<1>7. CASE TakeAccepted(p)
  BY <1>2, <1>7, GoOnRuns DEF TakeAccepted
<1>8. CASE TakeInfo(p)
  BY <1>2, <1>8, GoOnRuns DEF TakeInfo
<1>9. CASE TakeGoAhead(p)
  BY <1>2, <1>9, GoOnRuns DEF TakeGoAhead
<1>10. CASE TakeStored(p)
  <2>1. CASE out.body.i < Chunks
    BY <1>2, <1>10, <2>1, GoOnRuns DEF TakeStored
  <2>2. CASE ~(out.body.i < Chunks)
    BY <1>2, <1>10, <2>2, GoOnRuns DEF TakeStored
  <2> QED BY <2>1, <2>2
<1>11. CASE TakeFinal(p)
  BY <1>4, <1>11 DEF TakeFinal
<1>12. CASE TakeNonsense(p)
  BY <1>4, <1>12 DEF TakeNonsense
<1> QED BY <1>1, <1>5, <1>6, <1>7, <1>8, <1>9, <1>10, <1>11, <1>12

LEMMA RunsNext ==
  ASSUME FastbootTypeOK, NumbersAgree, RunsAreOld,
         [FastbootNext]_fastbootVars
  PROVE  RunsAreOld'
<1>1. sequence_number \in Nat
  BY DEF FastbootTypeOK
<1>2. CASE HearQuery
  BY <1>1, <1>2, RunsKept DEF HearQuery, commands
<1>3. CASE HearOther
  BY <1>1, <1>3, RunsKept DEF HearOther, commands
<1>4. CASE \E p \in toServer : Hear(p)
  BY <1>4, HearRuns
<1>5. CASE StartServer
  BY <1>1, <1>5, RunsKept DEF StartServer, commands, history
<1>6. CASE Query
  <2>1. \A p \in toServer' : p.id # "fastboot"
    BY <1>6 DEF Query, FastbootPacket
  <2>2. UNCHANGED <<runs, command, pending_command, sequence_number>>
    BY <1>6 DEF Query, serverVars, commands
  <2> QED BY <1>1, <2>1, <2>2, RunsKept
<1>7. ASSUME NEW kind \in Kinds, Command(kind)
      PROVE  RunsAreOld'
  <2> DEFINE q == FastbootPacket("fastboot", out.n + 1,
        Body(kind, out.n + 1, 0))
  <2>1. out.n \in Nat /\ out.n + 1 \in 1 .. MaxSeq
    BY <1>7, PacketFields, FastbootNumbers DEF Command, FastbootTypeOK
  <2>2. q.body.k = q.n /\ q.n = out.n + 1
    BY DEF FastbootPacket, Body
  <2>3. Sends(q) /\ UNCHANGED <<runs, command, pending_command,
          sequence_number>>
    BY <1>7 DEF Command, serverVars, commands, history
  <2> HIDE DEF q
  <2> QED BY <2>1, <2>2, <2>3, SendsRuns
<1>8. CASE Take
  BY <1>8, TakeRuns
<1>9. CASE LoseAnswer
  BY <1>1, <1>9, RunsKept DEF LoseAnswer, serverVars, commands, history
<1>10. CASE UNCHANGED fastbootVars
  BY <1>1, <1>10, RunsKept DEF fastbootVars, serverVars, commands, history
<1> QED
  BY <1>2, <1>3, <1>4, <1>5, <1>6, <1>7, <1>8, <1>9, <1>10 DEF FastbootNext

-----------------------------------------------------------------------------
(***************************************************************************)
(* A session that began clean.                                             *)
(***************************************************************************)
\* Nothing happened but to packets.
LEMMA SessionKept ==
  ASSUME SessionClean,
         UNCHANGED <<sequence_number, commands, download, step, out, asked, got,
                     runs, clean, broken>>,
         \A p \in toHost' \cup {last_packet'} :
           p.id = "fastboot" => p \in toHost \cup {last_packet}
  PROVE  SessionClean'
<1>1. UNCHANGED <<sequence_number, cmd, command, pending_command,
                  fastboot_bytes_expected, fastboot_bytes_received, buf,
                  image_size, step, out, asked, got, runs, clean, broken>>
  BY DEF commands, download
<1>2. ASSUME clean, asked.kind # "none", CommandFits(asked.k)
      PROVE  CommandFits(asked.k)'
  <2>1. ASSUME NEW k, k = asked.k, CommandFits(k) PROVE CommandFits(k)'
    <3>1. k \in 1 .. MaxSeq
            /\ (NotHeard(k) \/ TextLeft(k) \/ RanAndAnswered(k))'
      BY <1>1, <2>1
      DEF CommandFits, NotHeard, TextLeft, RanAndAnswered, Quiet, TooLarge,
          InDownload,
          Loaded
    <3>2. ASSUME NEW p \in toHost' \cup {last_packet'}, p.id = "fastboot"
          PROVE  AnswerFits(p, k)'
      <4>1. AnswerFits(p, k)
        BY <2>1, <3>2 DEF CommandFits
      <4> QED BY <1>1, <4>1 DEF AnswerFits, TooLarge, Quiet
    <3>3. HostFits(k)'
      BY <1>1, <2>1 DEF CommandFits, HostFits, Loaded, Quiet
    <3> QED BY <3>1, <3>2, <3>3 DEF CommandFits
  <2>2. PICK k : k = asked.k
    OBVIOUS
  <2>3. CommandFits(k)' /\ asked'.k = k
    BY <1>1, <1>2, <2>1, <2>2
  <2> QED BY <2>3
<1>3. CASE ~clean
  BY <1>1, <1>3 DEF SessionClean
<1>4. CASE clean /\ asked.kind = "none"
  BY <1>1, <1>4 DEF SessionClean, Quiet
<1>5. CASE clean /\ asked.kind # "none"
  BY <1>1, <1>2, <1>5 DEF SessionClean
<1> QED BY <1>3, <1>4, <1>5

\* When it is the turn of a packet, in a clean session with a command
ServerTurn(p, k) ==
  /\ sequence_number = out.n
  /\ \/ step = "write" /\ NotHeard(k) /\ p.body = Body(asked.kind, k, 0)
     \/ step = "read" /\ TextLeft(k) /\ p.body.t = "none"
     \/ /\ step = "read" /\ asked.kind = "download" /\ InDownload(k)
             /\ RanAndAnswered(k)
        /\ fastboot_bytes_received = Chunks /\ p.body.t = "none"
     \/ /\ step = "data" /\ asked.kind = "download" /\ InDownload(k)
             /\ RanAndAnswered(k)
        /\ fastboot_bytes_received < Chunks
        /\ p.body = Body("data", k, fastboot_bytes_received + 1)

LEMMA TurnInSession ==
  ASSUME FastbootTypeOK, NumbersAgree, SessionClean, clean = TRUE,
         NEW p \in toServer, Current(p)
  PROVE  /\ asked.kind # "none" /\ asked.kind \in Kinds /\ ~broken
         /\ step \notin {"off", "query", "init", "idle"}
         /\ ServerTurn(p, asked.k) /\ CommandFits(asked.k)
<1>1. /\ p = out /\ out.n = sequence_number /\ step \notin {"query", "idle"}
      /\ out.n \in Nat
  BY TurnIsOut, PacketFields DEF FastbootTypeOK
<1>2. asked.kind # "none" /\ asked.kind \in Kinds
  <2>1. asked.kind \in Kinds \cup {"none"}
    BY DEF FastbootTypeOK
  <2>2. sequence_number # out.n + 1
    BY <1>1
  <2> QED BY <2>1, <2>2 DEF SessionClean
<1>3. /\ ~broken /\ step \notin {"off", "query", "init", "idle"}
      /\ CommandFits(asked.k)
  BY <1>1, <1>2 DEF SessionClean
<1>4. PICK k \in Nat : k = asked.k
  BY FastbootNumbers DEF FastbootTypeOK
<1>n. /\ k \in Nat /\ out.n \in Nat /\ sequence_number \in Nat
      /\ sequence_number = out.n
  BY <1>1, <1>4 DEF FastbootTypeOK
<1>5. HostFits(k) /\ (NotHeard(k) \/ TextLeft(k) \/ RanAndAnswered(k))
  BY <1>3, <1>4 DEF CommandFits
<1>6. fastboot_bytes_received \in Nat /\ Chunks \in Nat /\ Chunks > 0
  BY LoadNumbers, FastbootNumbers
<1>7. step \in {"write", "read", "data"}
  BY <1>3 DEF FastbootTypeOK
<1>8. CASE step = "write"
  <2>1. out.n = k /\ out.body = Body(asked.kind, k, 0)
    BY <1>5, <1>8 DEF HostFits
  <2>2. NotHeard(k)
    BY <1>1, <1>5, <2>1 DEF TextLeft, RanAndAnswered
  <2> QED BY <1>1, <1>2, <1>3, <1>4, <1>8, <2>1, <2>2 DEF ServerTurn
<1>9. CASE step = "read"
  <2>1. out.n > k /\ out.body.t = "none"
    BY <1>5, <1>9, EmptyType DEF HostFits
  <2>2. ~NotHeard(k)
    <3>1. sequence_number # k
      BY <1>n, <2>1
    <3> QED BY <3>1 DEF NotHeard
  <2>3. CASE TextLeft(k)
    BY <1>1, <1>2, <1>3, <1>4, <1>9, <2>1, <2>3 DEF ServerTurn
  <2>4. CASE RanAndAnswered(k)
    <3>1. sequence_number > k + 1
      BY <2>4 DEF RanAndAnswered
    <3>2. asked.kind = "download" /\ out.n = k + 2 + Chunks
      BY <1>1, <1>4, <1>5, <1>9, <3>1 DEF HostFits
    <3>3. TooLarge(k) \/ InDownload(k) \/ Loaded(k)
      BY <2>4, <3>2 DEF RanAndAnswered
    <3>4. ~TooLarge(k)
      BY <1>1, <1>4, <1>6, <3>2 DEF TooLarge
    <3>5. ~Loaded(k)
      BY <1>1, <1>4, <1>6, <3>2 DEF Loaded
    <3>6. InDownload(k)
      BY <3>3, <3>4, <3>5
    <3>7. fastboot_bytes_received = Chunks
      <4>1. sequence_number = k + 2 + fastboot_bytes_received
        BY <3>6 DEF InDownload
      <4>2. out.n = k + 2 + Chunks
        BY <3>2
      <4>3. k + 2 + fastboot_bytes_received = k + 2 + Chunks
        BY <1>n, <4>1, <4>2
      <4> QED BY <1>n, <1>6, <4>3
    <3> QED
      BY <1>1, <1>2, <1>3, <1>4, <1>9, <2>1, <2>4, <3>2, <3>6, <3>7
      DEF ServerTurn
  <2> QED BY <1>5, <2>2, <2>3, <2>4
<1>10. CASE step = "data"
  <2>1. /\ asked.kind = "download" /\ cmd
        /\ out.body.i \in 1 .. Chunks
        /\ out.body = Body("data", k, out.body.i)
        /\ out.n = k + 1 + out.body.i
    BY <1>5, <1>10 DEF HostFits
  <2>2. RanAndAnswered(k)
    BY <1>5, <2>1 DEF NotHeard, TextLeft, Quiet
  <2>3. InDownload(k)
    BY <2>1, <2>2 DEF RanAndAnswered, TooLarge, Loaded, Quiet
  <2>4. out.body.i = fastboot_bytes_received + 1
    <3>1. sequence_number = k + 2 + fastboot_bytes_received
      BY <2>3 DEF InDownload
    <3> DEFINE i == out.body.i
    <3>2. i \in Nat /\ k + 1 + i = out.n
      BY <2>1, <1>6
    <3>3. k + 1 + i = k + 2 + fastboot_bytes_received
      BY <1>n, <3>1, <3>2
    <3>4. i \in Nat
      BY <3>2
    <3> HIDE DEF i
    <3>5. i = fastboot_bytes_received + 1
      BY <1>n, <1>6, <3>3, <3>4
    <3> QED BY <3>5 DEF i
  <2>5. fastboot_bytes_received < Chunks
    BY <1>6, <2>1, <2>4
  <2> QED
    BY <1>1, <1>2, <1>3, <1>4, <1>10, <2>1, <2>2, <2>3, <2>4, <2>5
    DEF ServerTurn
<1> QED BY <1>7, <1>8, <1>9, <1>10

\* The server's part of a step in a clean session
LEMMA ServerMoves ==
  ASSUME asked.kind # "none", ~broken,
         step \notin {"off", "query", "init"}, out.id = "fastboot",
         UNCHANGED <<hostVars, broken>>,
         NEW k \in 1 .. MaxSeq, k = asked.k,
         TextLeft(k)' \/ RanAndAnswered(k)', HostFits(k)',
         \A p \in toHost' \cup {last_packet'} :
           p.id = "fastboot" => AnswerFits(p, k)'
  PROVE  SessionClean'
<1>1. CommandFits(k)'
  BY DEF CommandFits
<1>2. UNCHANGED <<step, out, asked, broken>> /\ asked'.k = k
  BY DEF hostVars
<1>3. CommandFits(asked.k)'
  BY <1>1, <1>2
<1> QED BY <1>2, <1>3 DEF SessionClean

\* What was answered before
LEMMA OldAnswer ==
  ASSUME FastbootTypeOK, NumbersAgree, step # "query",
         NEW k, CommandFits(k),
         NEW p \in toHost \cup {last_packet}, p.id = "fastboot"
  PROVE  /\ p.n \in Nat /\ p.n < sequence_number /\ AnswerFits(p, k)
         /\ sequence_number \in Nat
<1>1. sequence_number \in Nat /\ p \in Packets
  BY DEF FastbootTypeOK
<1>2. p.n \in Nat
  BY <1>1, PacketFields
<1>3. CASE p \in toHost
  BY <1>1, <1>2, <1>3 DEF NumbersAgree, HasNumber, CommandFits
<1>4. CASE p = last_packet
  <2>1. p.n = sequence_number - 1
    BY <1>4 DEF NumbersAgree, HasNumber
  <2> QED BY <1>1, <1>2, <1>4, <2>1 DEF CommandFits
<1> QED BY <1>3, <1>4

\* The acknowledgement of a text fits whatever follows.
LEMMA FirstAnswer ==
  ASSUME NEW k \in Nat, NEW p, p.n \in Nat, p.n <= k,
         p.n = k => p.body.t = "none"
  PROVE  AnswerFits(p, k)'
<1>1. Chunks \in Nat
  BY FastbootNumbers
<1>2. ~(p.n > k) /\ p.n # k + 1 /\ ~(p.n > k + 1) /\ p.n # k + 2 + Chunks
  BY <1>1
<1> QED BY <1>2 DEF AnswerFits

LEMMA TextSession ==
  ASSUME FastbootTypeOK, NumbersAgree, SessionClean, clean = TRUE,
         NEW p \in toServer, HearText(p)
  PROVE  SessionClean'
<1>1. Current(p) /\ ~cmd /\ ~pending_command
  BY DEF HearText
<1>2. /\ asked.kind # "none" /\ asked.kind \in Kinds /\ ~broken
      /\ step \notin {"off", "query", "init", "idle"}
      /\ CommandFits(asked.k)
  BY <1>1, TurnInSession
<1>3. PICK k \in 1 .. MaxSeq : k = asked.k
  BY <1>2 DEF CommandFits
<1>4. /\ k \in Nat /\ sequence_number \in Nat /\ Empty \in Bodies
      /\ out.id = "fastboot"
  BY <1>2, <1>3, FastbootNumbers, EmptyType DEF FastbootTypeOK, SessionClean
<1>5. step = "write" /\ NotHeard(k) /\ p.body = Body(asked.kind, k, 0)
  BY <1>1, <1>3, TurnInSession DEF ServerTurn, TextLeft, InDownload
<1>6. /\ command' = p.body /\ pending_command' = TRUE
      /\ FastbootSend("fastboot", 0, Empty)
      /\ UNCHANGED <<cmd, hostVars, broken>>
  BY DEF HearText, history
<1>7. /\ sequence_number' = sequence_number + 0 + 1
      /\ last_packet'.n = sequence_number + 0 /\ last_packet'.body = Empty
      /\ \A q \in toHost' : q \in toHost \/ q = last_packet'
  <2>1. \A q \in toHost' : q \in toHost \/ q = last_packet'
                             \/ \E j \in 0 .. 0 - 1 : q.n = sequence_number + j
    BY <1>4, <1>6, SendType
  <2> QED BY <1>4, <1>6, <2>1, SendType
<1>8. sequence_number = k /\ sequence_number' = k + 1 /\ last_packet'.n = k
  BY <1>4, <1>5, <1>7 DEF NotHeard
<1>9. TextLeft(k)'
  BY <1>1, <1>5, <1>6, <1>8 DEF TextLeft, hostVars
<1>10. HostFits(k)'
  <2>1. step' = "write" /\ out' = out /\ asked' = asked
    BY <1>5, <1>6 DEF hostVars
  <2>2. out.n = k /\ out.body = Body(asked.kind, k, 0)
    BY <1>2, <1>3, <1>5 DEF CommandFits, HostFits
  <2>3. sequence_number' <= k + 1
    BY <1>4, <1>8
  <2> QED BY <2>1, <2>2, <2>3 DEF HostFits
<1>11. ASSUME NEW q \in toHost' \cup {last_packet'}, q.id = "fastboot"
       PROVE  AnswerFits(q, k)'
  <2>1. CASE q \in toHost
    <3>1. q.n \in Nat /\ q.n < k
      BY <1>2, <1>3, <1>8, <1>11, <2>1, OldAnswer
    <3> QED BY <1>4, <3>1, FirstAnswer
  <2>2. CASE q = last_packet'
    <3>1. q.n = k /\ q.body.t = "none"
      BY <1>7, <1>8, <2>2, EmptyType
    <3> QED BY <1>4, <3>1, FirstAnswer
  <2> QED BY <1>7, <1>11, <2>1, <2>2
<1> QED BY <1>2, <1>3, <1>4, <1>6, <1>9, <1>10, <1>11, ServerMoves

\* The command is run: what was left is what was asked, and nobody ran it.
LEMMA RunTurn ==
  ASSUME FastbootTypeOK, NumbersAgree, RunsAreOld, SessionClean, clean = TRUE,
         NEW p \in toServer, HandleCommand(p)
  PROVE  /\ asked.kind # "none" /\ asked.kind \in Kinds /\ ~broken
         /\ step = "read" /\ out.id = "fastboot" /\ out.n = asked.k + 1
         /\ out.body = Empty
         /\ sequence_number = asked.k + 1 /\ asked.k \in 1 .. MaxSeq
         /\ command = Body(asked.kind, asked.k, 0)
         /\ CommandFits(asked.k)
<1>1. Current(p) /\ ~cmd /\ pending_command
  BY DEF HandleCommand
<1>2. /\ asked.kind # "none" /\ asked.kind \in Kinds /\ ~broken
      /\ step \notin {"off", "query", "init", "idle"}
      /\ CommandFits(asked.k) /\ asked.k \in 1 .. MaxSeq
  BY <1>1, TurnInSession DEF CommandFits
<1>3. PICK k \in 1 .. MaxSeq : k = asked.k
  BY <1>2
<1>4. out.id = "fastboot"
  BY <1>2 DEF SessionClean
<1>5. step = "read" /\ TextLeft(k) /\ sequence_number = out.n
  BY <1>1, <1>3, TurnInSession DEF ServerTurn, NotHeard, Quiet, InDownload
<1>6. out.body = Empty
  BY <1>2, <1>3, <1>5 DEF CommandFits, HostFits
<1> QED BY <1>2, <1>3, <1>4, <1>5, <1>6 DEF TextLeft

\* An answer to the command that was run
LEMMA RunSession ==
  ASSUME FastbootTypeOK, NumbersAgree, RunsAreOld, SessionClean, clean = TRUE,
         NEW p \in toServer, HandleCommand(p), Ran,
         command.t \in Kinds \ {"download"}, UNCHANGED cmd,
         NEW t \in {"OKAY", "FAIL"}, NEW infos \in Nat,
         FastbootSend("fastboot", infos, Body(t, command.k, infos))
  PROVE  SessionClean'
<1>1. /\ asked.kind # "none" /\ ~broken /\ step = "read"
      /\ out.id = "fastboot" /\ asked.k \in 1 .. MaxSeq
      /\ CommandFits(asked.k) /\ out.body = Empty
  BY RunTurn
<1>2. PICK k \in 1 .. MaxSeq : k = asked.k
  BY <1>1
<1>3. /\ k \in Nat /\ sequence_number = k + 1 /\ sequence_number \in Nat
      /\ out.n = k + 1
  <2>1. k \in Nat /\ sequence_number \in Nat
    BY FastbootNumbers DEF FastbootTypeOK
  <2> QED BY <1>2, <2>1, RunTurn
<1>4. command.k = k /\ asked.kind # "download"
  BY <1>2, RunTurn DEF Body
<1>5. Body(t, k, infos) \in Bodies /\ Body(t, k, infos).t = t
        /\ Body(t, k, infos).k = k
  <2>1. t \in Texts /\ k \in 0 .. MaxSeq
    BY <1>3, FastbootNumbers DEF Texts
  <2> QED BY <2>1, BodyType
<1>6. /\ sequence_number' = sequence_number + infos + 1
      /\ last_packet'.n = sequence_number + infos
      /\ last_packet'.body = Body(t, k, infos)
      /\ \A q \in toHost' :
           \/ q \in toHost \/ q = last_packet'
           \/ \E j \in 0 .. infos - 1 :
                q.n = sequence_number + j /\ q.body.t = "INFO"
  BY <1>4, <1>5, SendType
<1>7. /\ UNCHANGED <<command, cmd, hostVars, broken>>
      /\ pending_command' = FALSE /\ ~cmd /\ pending_command
  BY DEF HandleCommand
<1>8. runs'[k] = 1
  <2>1. sequence_number' \in Nat /\ sequence_number <= sequence_number'
    BY <1>3, <1>6
  <2>2. command.t \in Kinds /\ UNCHANGED toServer
    BY DEF HandleCommand
  <2> QED BY <1>4, <1>7, <2>1, <2>2, RunCounted
<1>9. UNCHANGED <<step, out, asked>>
  BY <1>7 DEF hostVars
<1>10. RanAndAnswered(k)'
  <2>1. sequence_number' > k + 1
    BY <1>3, <1>6
  <2> QED BY <1>4, <1>7, <1>8, <1>9, <2>1 DEF RanAndAnswered, Quiet
<1>11. HostFits(k)'
  <2>1. out.n > k
    BY <1>3
  <2> QED BY <1>1, <1>3, <1>4, <1>9, <2>1 DEF HostFits
<1>12. ASSUME NEW q \in toHost' \cup {last_packet'}, q.id = "fastboot"
       PROVE  AnswerFits(q, k)'
  <2>1. CASE q \in toHost
    <3>1. q.n \in Nat /\ q.n < k + 1 /\ AnswerFits(q, k)
      BY <1>1, <1>2, <1>3, <1>12, <2>1, OldAnswer
    <3>2. q.n <= k /\ (q.n = k => q.body.t = "none")
      BY <1>3, <3>1 DEF AnswerFits
    <3> QED BY <1>3, <3>1, <3>2, FirstAnswer
  <2>2. CASE q = last_packet'
    <3>1. /\ q.n = sequence_number' - 1 /\ q.n # k
          /\ q.body.t = t /\ q.body.k = k
      BY <1>3, <1>5, <1>6, <2>2
    <3> QED BY <1>4, <1>9, <3>1 DEF AnswerFits
  <2>3. CASE \E j \in 0 .. infos - 1 :
               q.n = sequence_number + j /\ q.body.t = "INFO"
    <3>1. PICK j \in 0 .. infos - 1 :
            q.n = sequence_number + j /\ q.body.t = "INFO"
      BY <2>3
    <3>2. q.n # sequence_number' - 1 /\ q.n # k
      BY <1>3, <1>6, <3>1
    <3> QED BY <1>4, <1>9, <3>1, <3>2 DEF AnswerFits
  <2> QED BY <1>6, <1>12, <2>1, <2>2, <2>3
<1> QED BY <1>1, <1>2, <1>7, <1>10, <1>11, <1>12, ServerMoves

\* A download begins, or is refused.
LEMMA StartDownloadSession ==
  ASSUME FastbootTypeOK, NumbersAgree, RunsAreOld, SessionClean, clean = TRUE,
         NEW p \in toServer, StartDownload(p)
  PROVE  SessionClean'
<1>1. HandleCommand(p) /\ Ran /\ command.t = "download"
  BY DEF StartDownload
<1>2. /\ asked.kind # "none" /\ ~broken /\ step = "read"
      /\ out.id = "fastboot" /\ asked.k \in 1 .. MaxSeq
      /\ CommandFits(asked.k) /\ out.body = Empty
  BY <1>1, RunTurn
<1>3. PICK k \in 1 .. MaxSeq : k = asked.k
  BY <1>2
<1>4. /\ k \in Nat /\ sequence_number = k + 1 /\ sequence_number \in Nat
      /\ out.n = k + 1
  <2>1. k \in Nat /\ sequence_number \in Nat
    BY FastbootNumbers DEF FastbootTypeOK
  <2> QED BY <1>1, <1>3, <2>1, RunTurn
<1>5. command.k = k /\ asked.kind = "download"
  BY <1>1, <1>3, RunTurn DEF Body
<1>6. PICK fits \in BOOLEAN :
        /\ cmd' = fits
        /\ FastbootSend("fastboot", 0,
                        Body(IF fits THEN "DATA" ELSE "FAIL", command.k, 0))
        /\ fits => /\ fastboot_bytes_received' = 0
                   /\ fastboot_bytes_expected' = Chunks
  BY DEF StartDownload
<1> DEFINE t == IF fits THEN "DATA" ELSE "FAIL"
<1>7. Body(t, k, 0) \in Bodies /\ Body(t, k, 0).t = t /\ Body(t, k, 0).k = k
  <2>1. k \in 0 .. MaxSeq
    BY <1>4, FastbootNumbers
  <2>2. t \in Texts
    BY DEF Texts
  <2> QED BY <2>1, <2>2, BodyType
<1>8. /\ sequence_number' = sequence_number + 0 + 1
      /\ last_packet'.n = sequence_number + 0
      /\ last_packet'.body = Body(t, k, 0)
      /\ \A q \in toHost' :
           \/ q \in toHost \/ q = last_packet'
           \/ \E j \in 0 .. 0 - 1 : q.n = sequence_number + j
  BY <1>5, <1>6, <1>7, SendType
<1>9. /\ sequence_number' = k + 2 /\ last_packet'.n = k + 1
      /\ \A q \in toHost' : q \in toHost \/ q = last_packet'
  BY <1>4, <1>8
<1>10. /\ UNCHANGED <<command, hostVars, broken>> /\ pending_command' = FALSE
       /\ pending_command /\ UNCHANGED toServer
  BY <1>1 DEF HandleCommand
<1>11. UNCHANGED <<step, out, asked>>
  BY <1>10 DEF hostVars
<1>12. runs'[k] = 1
  <2>1. sequence_number' \in Nat /\ sequence_number <= sequence_number'
    BY <1>4, <1>9
  <2>2. command.t \in Kinds
    BY <1>1 DEF Kinds
  <2> QED BY <1>1, <1>5, <1>10, <2>1, <2>2, RunCounted
<1>13. TooLarge(k)' <=> ~fits
  <2>1. sequence_number' = k + 2 /\ pending_command' = FALSE /\ cmd' = fits
    BY <1>6, <1>9, <1>10
  <2> QED BY <2>1 DEF TooLarge, Quiet
<1>14. RanAndAnswered(k)'
  <2>1. sequence_number' > k + 1
    BY <1>4, <1>9
  <2>2. CASE ~fits
    BY <1>5, <1>10, <1>11, <1>12, <1>13, <2>1, <2>2 DEF RanAndAnswered
  <2>3. CASE fits
    <3>1. fastboot_bytes_received' = 0 /\ fastboot_bytes_expected' = Chunks
      BY <1>6, <2>3
    <3>2. sequence_number' = k + 2 + fastboot_bytes_received'
      BY <1>4, <1>9, <3>1
    <3>3. \A i \in 1 .. fastboot_bytes_received' : buf'[i] = Body("data", k, i)
      BY <3>1
    <3>4. InDownload(k)'
      BY <1>6, <1>10, <2>3, <3>1, <3>2, <3>3 DEF InDownload
    <3> QED BY <1>5, <1>10, <1>11, <1>12, <2>1, <3>4 DEF RanAndAnswered
  <2> QED BY <2>2, <2>3
<1>15. HostFits(k)'
  <2>1. out.n > k /\ sequence_number' <= k + 2
    BY <1>4, <1>9
  <2> QED BY <1>2, <1>4, <1>5, <1>11, <2>1 DEF HostFits
<1>16. ASSUME NEW q \in toHost' \cup {last_packet'}, q.id = "fastboot"
       PROVE  AnswerFits(q, k)'
  <2>1. CASE q \in toHost
    <3>1. q.n \in Nat /\ q.n < k + 1 /\ AnswerFits(q, k)
      BY <1>2, <1>3, <1>4, <1>16, <2>1, OldAnswer
    <3>2. q.n <= k /\ (q.n = k => q.body.t = "none")
      BY <1>4, <3>1 DEF AnswerFits
    <3> QED BY <1>4, <3>1, <3>2, FirstAnswer
  <2>2. CASE q = last_packet'
    <3>1. /\ q.n = k + 1 /\ q.n # k /\ ~(q.n > k + 1) /\ q.n # k + 2 + Chunks
          /\ q.body.t = t /\ q.body.k = k
      BY <1>4, <1>7, <1>8, <1>9, <2>2, FastbootNumbers
    <3>2. IF TooLarge(k)' THEN q.body.t = "FAIL" ELSE q.body.t = "DATA"
      BY <1>13, <3>1
    <3> QED BY <1>5, <1>11, <3>1, <3>2 DEF AnswerFits
  <2> QED BY <1>9, <1>16, <2>1, <2>2
<1> QED BY <1>2, <1>3, <1>10, <1>14, <1>15, <1>16, ServerMoves

\* A packet of a download, or its end
LEMMA DownloadTurn ==
  ASSUME FastbootTypeOK, NumbersAgree, SessionClean, clean = TRUE,
         NEW p \in toServer, Download(p)
  PROVE  /\ asked.kind = "download" /\ ~broken
         /\ step \notin {"off", "query", "init", "idle"}
         /\ out.id = "fastboot" /\ asked.k \in 1 .. MaxSeq
         /\ CommandFits(asked.k) /\ InDownload(asked.k)
              /\ RanAndAnswered(asked.k)
         /\ fastboot_bytes_expected = Chunks /\ sequence_number = out.n
         /\ \/ /\ step = "read" /\ p.body.t = "none" /\ Remaining = 0
               /\ fastboot_bytes_received = Chunks
            \/ /\ step = "data" /\ p.body.t = "data" /\ Remaining > 0
               /\ fastboot_bytes_received < Chunks
               /\ p.body = Body("data", asked.k, fastboot_bytes_received + 1)
<1>1. Current(p) /\ cmd
  BY DEF Download
<1>2. /\ asked.kind # "none" /\ ~broken
      /\ step \notin {"off", "query", "init", "idle"}
      /\ CommandFits(asked.k) /\ asked.k \in 1 .. MaxSeq
  BY <1>1, TurnInSession DEF CommandFits
<1>3. out.id = "fastboot"
  BY <1>2 DEF SessionClean
<1>4. PICK k \in 1 .. MaxSeq : k = asked.k
  BY <1>2
<1>5. ServerTurn(p, k)
  BY <1>1, <1>4, TurnInSession
<1>6. fastboot_bytes_received \in Nat /\ Chunks \in Nat
  BY LoadNumbers, FastbootNumbers
<1>7. ~NotHeard(k) /\ ~TextLeft(k)
  BY <1>1 DEF NotHeard, TextLeft, Quiet
<1>8. fastboot_bytes_expected = Chunks
  BY <1>5, <1>7 DEF ServerTurn, InDownload
<1>9. CASE step = "read"
  <2>1. /\ asked.kind = "download" /\ InDownload(k) /\ RanAndAnswered(k)
        /\ fastboot_bytes_received = Chunks /\ p.body.t = "none"
        /\ sequence_number = out.n
    BY <1>5, <1>7, <1>9 DEF ServerTurn
  <2>2. Remaining = 0
    BY <1>6, <1>8, <2>1 DEF Remaining
  <2> QED BY <1>2, <1>3, <1>4, <1>8, <1>9, <2>1, <2>2
<1>10. CASE step = "data"
  <2>1. /\ asked.kind = "download" /\ InDownload(k) /\ RanAndAnswered(k)
        /\ fastboot_bytes_received < Chunks
        /\ p.body = Body("data", k, fastboot_bytes_received + 1)
        /\ sequence_number = out.n
    BY <1>5, <1>7, <1>10 DEF ServerTurn
  <2>2. Remaining > 0
    BY <1>6, <1>8, <2>1 DEF Remaining
  <2>3. p.body.t = "data"
    BY <2>1 DEF Body
  <2> QED BY <1>2, <1>3, <1>4, <1>8, <1>10, <2>1, <2>2, <2>3
<1> QED BY <1>5, <1>7, <1>9, <1>10 DEF ServerTurn

LEMMA StoreSession ==
  ASSUME FastbootTypeOK, NumbersAgree, SessionClean, clean = TRUE,
         NEW p \in toServer, StoreData(p)
  PROVE  SessionClean'
<1>1. /\ Download(p) /\ p.body.t # "none"
      /\ fastboot_bytes_received' = fastboot_bytes_received + 1
      /\ buf' = [buf EXCEPT ![fastboot_bytes_received'] = p.body]
      /\ FastbootSend("fastboot", 0, Empty)
      /\ UNCHANGED <<cmd, fastboot_bytes_expected>>
  BY DEF StoreData
<1>2. /\ asked.kind = "download" /\ ~broken
      /\ step = "data" /\ out.id = "fastboot"
      /\ CommandFits(asked.k) /\ InDownload(asked.k) /\ RanAndAnswered(asked.k)
      /\ fastboot_bytes_expected = Chunks /\ fastboot_bytes_received < Chunks
      /\ asked.k \in 1 .. MaxSeq /\ sequence_number = out.n
  BY <1>1, DownloadTurn
<1>3. PICK k \in 1 .. MaxSeq : k = asked.k
  BY <1>2
<1>4. p.body = Body("data", k, fastboot_bytes_received + 1)
  BY <1>1, <1>3, DownloadTurn
<1>5. /\ k \in Nat /\ sequence_number \in Nat /\ out.n \in Nat
      /\ fastboot_bytes_received \in Nat /\ Chunks \in Nat /\ Empty \in Bodies
      /\ buf \in [1 .. Chunks -> Bodies]
  BY FastbootNumbers, LoadNumbers, EmptyType, PacketFields DEF FastbootTypeOK
<1>6. sequence_number = k + 2 + fastboot_bytes_received
  BY <1>2, <1>3 DEF InDownload
<1>7. /\ sequence_number' = sequence_number + 0 + 1
      /\ last_packet'.n = sequence_number + 0
      /\ last_packet'.body = Empty
      /\ \A q \in toHost' :
           \/ q \in toHost \/ q = last_packet'
           \/ \E j \in 0 .. 0 - 1 : q.n = sequence_number + j
  <2>1. FastbootSend("fastboot", 0, Empty) /\ Empty \in Bodies
    BY <1>1, <1>5
  <2> QED BY <2>1, SendType
<1>8. /\ sequence_number' = sequence_number + 1
      /\ last_packet'.n = sequence_number
      /\ \A q \in toHost' : q \in toHost \/ q = last_packet'
  BY <1>5, <1>7
<1>9. /\ UNCHANGED <<command, pending_command, hostVars, runs, broken>>
  BY <1>1 DEF Download, history
<1>10. UNCHANGED <<step, out, asked>>
  BY <1>9 DEF hostVars
<1>11. InDownload(k)'
  <2>1. cmd /\ ~pending_command
        /\ \A i \in 1 .. fastboot_bytes_received : buf[i] = Body("data", k, i)
    BY <1>2, <1>3 DEF InDownload
  <2>2. sequence_number' = k + 2 + fastboot_bytes_received'
    BY <1>1, <1>5, <1>6, <1>8
  <2>3. ASSUME NEW i \in 1 .. fastboot_bytes_received'
        PROVE  buf'[i] = Body("data", k, i)
    <3>1. i \in 1 .. Chunks /\ fastboot_bytes_received' \in 1 .. Chunks
      BY <1>1, <1>2, <1>5
    <3>2. CASE i = fastboot_bytes_received'
      BY <1>1, <1>4, <1>5, <3>1, <3>2
    <3>3. CASE i # fastboot_bytes_received'
      <4>1. i \in 1 .. fastboot_bytes_received
        BY <1>1, <1>5, <3>1, <3>3
      <4> QED BY <1>1, <1>5, <2>1, <3>1, <3>3, <4>1
    <3> QED BY <3>2, <3>3
  <2> QED BY <1>1, <1>2, <1>9, <2>1, <2>2, <2>3 DEF InDownload
<1>12. RanAndAnswered(k)'
  <2>1. command.k = k /\ runs[k] = 1
    BY <1>2, <1>3 DEF RanAndAnswered
  <2>2. sequence_number' > k + 1 /\ ~pending_command'
    BY <1>5, <1>6, <1>8, <1>11 DEF InDownload
  <2> QED BY <1>2, <1>9, <1>10, <1>11, <2>1, <2>2 DEF RanAndAnswered
<1>13. HostFits(k)'
  <2>1. /\ cmd /\ out.body.i \in 1 .. Chunks
        /\ out.body = Body("data", k, out.body.i) /\ out.n = k + 1 + out.body.i
    BY <1>2, <1>3 DEF CommandFits, HostFits
  <2>2. sequence_number' <= out.n + 1
    BY <1>2, <1>5, <1>8
  <2> QED BY <1>1, <1>2, <1>10, <2>1, <2>2 DEF HostFits
<1>14. ASSUME NEW q \in toHost' \cup {last_packet'}, q.id = "fastboot"
       PROVE  AnswerFits(q, k)'
  <2>1. ~TooLarge(k) /\ ~TooLarge(k)'
    BY <1>2, <1>3, <1>11 DEF TooLarge, InDownload, Quiet
  <2>2. CASE q \in toHost
    <3>1. AnswerFits(q, k)
      BY <1>2, <1>3, <1>14, <2>2, OldAnswer
    <3> QED BY <1>2, <1>10, <2>1, <3>1 DEF AnswerFits
  <2>3. CASE q = last_packet'
    <3>1. q.body.t = "none"
      BY <1>7, <2>3, EmptyType
    <3>2. q.n > k /\ q.n # k + 1 /\ q.n # k + 2 + Chunks
      BY <1>2, <1>5, <1>6, <1>8, <2>3
    <3> QED BY <1>2, <1>10, <3>1, <3>2 DEF AnswerFits
  <2> QED BY <1>8, <1>14, <2>2, <2>3
<1> QED BY <1>2, <1>3, <1>9, <1>12, <1>13, <1>14, ServerMoves

LEMMA CompleteSession ==
  ASSUME FastbootTypeOK, NumbersAgree, SessionClean, clean = TRUE,
         NEW p \in toServer, DataComplete(p)
  PROVE  SessionClean'
<1>1. /\ Download(p) /\ p.body.t = "none" /\ cmd' = FALSE
      /\ image_size' = fastboot_bytes_received
      /\ FastbootSend("fastboot", 0, Body("OKAY", command.k, 0))
      /\ UNCHANGED buf
  BY DEF DataComplete
<1>2. /\ asked.kind = "download" /\ ~broken
      /\ step = "read" /\ out.id = "fastboot"
      /\ CommandFits(asked.k) /\ InDownload(asked.k) /\ RanAndAnswered(asked.k)
      /\ fastboot_bytes_received = Chunks
      /\ asked.k \in 1 .. MaxSeq /\ sequence_number = out.n
  BY <1>1, DownloadTurn
<1>3. PICK k \in 1 .. MaxSeq : k = asked.k
  BY <1>2
<1>4. /\ k \in Nat /\ sequence_number \in Nat /\ out.n \in Nat
      /\ Chunks \in Nat /\ Chunks > 0 /\ buf \in [1 .. Chunks -> Bodies]
  BY FastbootNumbers, PacketFields DEF FastbootTypeOK
<1>5. sequence_number = k + 2 + Chunks
  BY <1>2, <1>3 DEF InDownload
<1>6. command.k = k /\ runs[k] = 1
  BY <1>2, <1>3 DEF RanAndAnswered
<1>7. Body("OKAY", k, 0) \in Bodies /\ Body("OKAY", k, 0).t = "OKAY"
        /\ Body("OKAY", k, 0).k = k
  <2>1. k \in 0 .. MaxSeq /\ "OKAY" \in Texts
    BY <1>4, FastbootNumbers DEF Texts
  <2> QED BY <2>1, BodyType
<1>8. /\ sequence_number' = sequence_number + 0 + 1
      /\ last_packet'.n = sequence_number + 0
      /\ last_packet'.body = Body("OKAY", k, 0)
      /\ \A q \in toHost' :
           \/ q \in toHost \/ q = last_packet'
           \/ \E j \in 0 .. 0 - 1 : q.n = sequence_number + j
  BY <1>1, <1>6, <1>7, SendType
<1>9. /\ sequence_number' = k + 3 + Chunks
      /\ last_packet'.n = k + 2 + Chunks
      /\ \A q \in toHost' : q \in toHost \/ q = last_packet'
  BY <1>4, <1>5, <1>8
<1>10. /\ UNCHANGED <<command, pending_command, hostVars, runs, broken>>
  BY <1>1 DEF Download, history
<1>11. UNCHANGED <<step, out, asked>>
  BY <1>10 DEF hostVars
<1>12. Loaded(k)'
  <2>1. /\ ~pending_command
        /\ \A i \in 1 .. Chunks : buf[i] = Body("data", k, i)
    BY <1>2, <1>3 DEF InDownload
  <2>2. buf = [i \in 1 .. Chunks |-> Body("data", k, i)]
    BY <1>4, <2>1
  <2> QED BY <1>1, <1>2, <1>9, <1>10, <2>1, <2>2 DEF Loaded, Quiet
<1>13. RanAndAnswered(k)'
  <2>1. sequence_number' > k + 1 /\ ~pending_command'
    BY <1>4, <1>9, <1>12 DEF Loaded, Quiet
  <2> QED BY <1>2, <1>6, <1>10, <1>11, <1>12, <2>1 DEF RanAndAnswered
<1>14. HostFits(k)'
  <2>1. out.n > k /\ out.body = Empty /\ out.n = k + 2 + Chunks
    BY <1>2, <1>3, <1>4, <1>5 DEF CommandFits, HostFits
  <2> QED BY <1>2, <1>11, <2>1 DEF HostFits
<1>15. ASSUME NEW q \in toHost' \cup {last_packet'}, q.id = "fastboot"
       PROVE  AnswerFits(q, k)'
  <2>1. ~TooLarge(k)
    BY <1>2, <1>3 DEF TooLarge, InDownload, Quiet
  <2>2. ~TooLarge(k)'
    <3>1. sequence_number' # k + 2
      BY <1>4, <1>9
    <3> QED BY <3>1 DEF TooLarge
  <2>3. CASE q \in toHost
    <3>1. AnswerFits(q, k)
      BY <1>2, <1>3, <1>15, <2>3, OldAnswer
    <3> QED BY <1>2, <1>11, <2>1, <2>2, <3>1 DEF AnswerFits
  <2>4. CASE q = last_packet'
    <3>1. q.body.t = "OKAY" /\ q.body.k = k
      BY <1>7, <1>8, <2>4
    <3>2. q.n # k /\ q.n # k + 1 /\ ~(q.n < k + 2 + Chunks)
      BY <1>4, <1>9, <2>4
    <3> QED BY <1>2, <1>11, <3>1, <3>2 DEF AnswerFits
  <2> QED BY <1>9, <1>15, <2>3, <2>4
<1> QED BY <1>2, <1>3, <1>10, <1>13, <1>14, <1>15, ServerMoves

\* A session begins clean when nothing was left of the last.
LEMMA InitSession ==
  ASSUME FastbootTypeOK, NumbersAgree, StepFits, NEW p \in toServer, HearInit(p)
  PROVE  SessionClean'
<1>1. /\ p = out /\ out.n = sequence_number /\ step \notin {"query", "idle"}
      /\ sequence_number \in Nat
  BY TurnIsOut DEF HearInit, FastbootTypeOK
<1>2. step = "init" /\ out.id = "init" /\ asked.kind = "none" /\ ~broken
  BY <1>1 DEF HearInit, StepFits
<1>3. /\ clean' = (~cmd /\ ~pending_command)
      /\ FastbootSend("init", 0, Empty)
      /\ UNCHANGED <<cmd, pending_command, step, out, asked, broken>>
  BY DEF HearInit, commands, hostVars
<1>4. sequence_number' = sequence_number + 0 + 1
  BY <1>3, EmptyType, SendType
<1>5. sequence_number' = out.n + 1
  BY <1>1, <1>4
<1> QED BY <1>2, <1>3, <1>5 DEF SessionClean, Quiet

\* What the server hears leaves the session as it is said to be
LEMMA HearSession ==
  ASSUME FastbootTypeOK, NumbersAgree, StepFits, RunsAreOld, SessionClean,
         NEW p \in toServer, Hear(p)
  PROVE  SessionClean'
<1>1. CASE HearInit(p)
  BY <1>1, InitSession
<1>2. CASE HearRepeated(p)
  BY <1>2, SessionKept DEF HearRepeated, serverVars, hostVars, history
<1>3. CASE ~HearInit(p) /\ ~HearRepeated(p) /\ clean # TRUE
  <2>1. clean' = FALSE
    <3>1. clean = FALSE
      BY <1>3 DEF FastbootTypeOK
    <3> QED
      BY <1>3, <3>1
      DEF Hear, HearText, HandleCommand, Execute, Boot, StartDownload,
          Unrecognized, Download, StoreData, RejectData, DataComplete, history
  <2> QED BY <2>1 DEF SessionClean
<1>4. CASE clean = TRUE
  <2>1. CASE HearText(p)
    BY <1>4, <2>1, TextSession
  <2>2. CASE Execute(p)
    <3>1. PICK t \in {"OKAY", "FAIL"},
               infos \in 0 .. (IF command.t = "long" THEN MaxInfos ELSE 0) :
            FastbootSend("fastboot", infos, Body(t, command.k, infos))
      BY <2>2 DEF Execute
    <3>2. infos \in Nat
      <4>1. CASE command.t = "long"
        BY <4>1, FastbootNumbers
      <4>2. CASE command.t # "long"
        BY <4>2
      <4> QED BY <4>1, <4>2
    <3>3. HandleCommand(p) /\ Ran /\ UNCHANGED cmd
      BY <2>2 DEF Execute
    <3>4. command.t \in Kinds \ {"download"}
      BY <2>2 DEF Execute, Kinds
    <3> QED BY <1>4, <3>1, <3>2, <3>3, <3>4, RunSession
  <2>3. CASE Boot(p)
    <3>1. PICK done \in BOOLEAN :
            FastbootSend("fastboot", 0,
                         Body(IF done THEN "OKAY" ELSE "FAIL", command.k, 0))
      BY <2>3 DEF Boot
    <3>2. PICK t \in {"OKAY", "FAIL"} :
            FastbootSend("fastboot", 0, Body(t, command.k, 0))
      BY <3>1
    <3>3. HandleCommand(p) /\ Ran /\ UNCHANGED cmd
      BY <2>3 DEF Boot
    <3>4. command.t \in Kinds \ {"download"}
      BY <2>3 DEF Boot, Kinds
    <3> QED BY <1>4, <3>2, <3>3, <3>4, RunSession
  <2>4. CASE StartDownload(p)
    BY <1>4, <2>4, StartDownloadSession
  <2>5. CASE Unrecognized(p)
    <3>1. command.t = asked.kind /\ asked.kind \in Kinds
      BY <1>4, <2>5, RunTurn DEF Unrecognized, Body
    <3> QED BY <2>5, <3>1 DEF Unrecognized
  <2>6. CASE StoreData(p)
    BY <1>4, <2>6, StoreSession
  <2>7. CASE RejectData(p)
    <3>1. Download(p) /\ (p.body.t = "none") # (Remaining = 0)
      BY <2>7 DEF RejectData
    <3>2. \/ p.body.t = "none" /\ Remaining = 0
          \/ p.body.t # "none" /\ Remaining # 0
      <4>1. Remaining > 0 => Remaining # 0
        BY LoadNumbers DEF Remaining
      <4> QED BY <1>4, <3>1, <4>1, DownloadTurn
    <3> QED BY <3>1, <3>2
  <2>8. CASE DataComplete(p)
    BY <1>4, <2>8, CompleteSession
  <2> QED
    BY <1>1, <1>2, <2>1, <2>2, <2>3, <2>4, <2>5, <2>6, <2>7, <2>8 DEF Hear
<1> QED BY <1>1, <1>2, <1>3, <1>4

\* The host's part of a step in a clean session with a command
LEMMA HostMoves ==
  ASSUME SessionClean, clean = TRUE, asked.kind # "none",
         step' \notin {"off", "query", "init"}, out'.id = "fastboot",
         UNCHANGED <<sequence_number, cmd, command, pending_command,
                     fastboot_bytes_expected, fastboot_bytes_received, buf,
                     image_size, last_packet, asked, runs, clean, broken>>,
         toHost' \subseteq toHost,
         NEW k \in 1 .. MaxSeq, k = asked.k, HostFits(k)'
  PROVE  SessionClean'
<1>1. ~broken /\ CommandFits(k)
  BY DEF SessionClean
<1>2. (NotHeard(k) \/ TextLeft(k) \/ RanAndAnswered(k))'
  BY <1>1
  DEF CommandFits, NotHeard, TextLeft, RanAndAnswered, Quiet, TooLarge,
      InDownload, Loaded
<1>3. ASSUME NEW p \in toHost' \cup {last_packet'}, p.id = "fastboot"
      PROVE  AnswerFits(p, k)'
  <2>1. AnswerFits(p, k)
    BY <1>1, <1>3 DEF CommandFits
  <2> QED BY <2>1 DEF AnswerFits, TooLarge, Quiet
<1>4. CommandFits(k)'
  BY <1>2, <1>3 DEF CommandFits
<1>5. CommandFits(asked.k)'
  BY <1>4
<1> QED BY <1>1, <1>5 DEF SessionClean

\* The answer the host takes, in a clean session with a command
LEMMA AnswerInSession ==
  ASSUME FastbootTypeOK, NumbersAgree, StepFits, SessionClean, clean = TRUE,
         NEW p \in toHost, Answer(p), step # "init"
  PROVE  /\ asked.kind # "none" /\ asked.k \in 1 .. MaxSeq
         /\ step \in {"write", "read", "data"}
         /\ p.n = out.n /\ out.n < sequence_number
         /\ out.n \in Nat /\ sequence_number \in Nat
         /\ CommandFits(asked.k) /\ AnswerFits(p, asked.k)
<1>1. step # "query" /\ step # "off"
  BY DEF SessionClean
<1>2. /\ p.n = out.n /\ p.id = out.id /\ out.n < sequence_number
      /\ step \in {"write", "read", "data"}
  BY <1>1, AnswerIsToOut
<1>3. out.n \in Nat /\ sequence_number \in Nat
  BY PacketFields DEF FastbootTypeOK
<1>4. asked.kind # "none" /\ out.id = "fastboot" /\ CommandFits(asked.k)
  BY <1>2 DEF SessionClean
<1> QED BY <1>2, <1>3, <1>4 DEF CommandFits

\* Where the server is when the host takes an answer
LEMMA AnswerTells ==
  ASSUME FastbootTypeOK, NumbersAgree, StepFits, SessionClean, clean = TRUE,
         NEW p \in toHost, Answer(p), step # "init",
         NEW k \in Nat, k = asked.k
  PROVE  /\ step = "write" => p.body.t = "none" /\ out.n = k
                                /\ sequence_number = k + 1
         /\ step = "read" /\ asked.kind # "download" =>
              /\ RanAndAnswered(k) /\ out.n > k
              /\ \/ p.body.t = "INFO" /\ out.n + 1 < sequence_number
                 \/ /\ p.body.t \in {"OKAY", "FAIL"} /\ p.body.k = k
                    /\ sequence_number = out.n + 1
         /\ step = "read" /\ asked.kind = "download" =>
              \/ /\ p.body.t = "FAIL" /\ p.body.k = k /\ TooLarge(k)
                 /\ RanAndAnswered(k) /\ sequence_number = out.n + 1
              \/ /\ p.body.t = "DATA" /\ InDownload(k)
                 /\ out.n = k + 1 /\ sequence_number = k + 2
              \/ /\ p.body.t = "OKAY" /\ p.body.k = k /\ Loaded(k)
                 /\ RanAndAnswered(k) /\ sequence_number = out.n + 1
         /\ step = "data" =>
              /\ p.body.t = "none" /\ asked.kind = "download" /\ cmd
              /\ out.body.i \in 1 .. Chunks /\ out.n = k + 1 + out.body.i
              /\ sequence_number = out.n + 1
<1>1. /\ step \in {"write", "read", "data"}
      /\ p.n = out.n /\ out.n < sequence_number
      /\ out.n \in Nat /\ sequence_number \in Nat
      /\ HostFits(k) /\ AnswerFits(p, k)
      /\ NotHeard(k) \/ TextLeft(k) \/ RanAndAnswered(k)
  BY AnswerInSession DEF CommandFits
<1>2. Chunks \in Nat /\ Chunks > 0 /\ fastboot_bytes_received \in Nat
  BY FastbootNumbers, LoadNumbers
<1>3. ASSUME sequence_number > k + 1 PROVE RanAndAnswered(k)
  <2>1. sequence_number # k /\ sequence_number # k + 1
    BY <1>1, <1>3
  <2> QED BY <1>1, <2>1 DEF NotHeard, TextLeft
<1>4. CASE step = "write"
  <2>1. out.n = k /\ sequence_number <= k + 1
    BY <1>1, <1>4 DEF HostFits
  <2>2. sequence_number = k + 1
    BY <1>1, <2>1
  <2>3. p.body.t = "none"
    BY <1>1, <2>1 DEF AnswerFits
  <2> QED BY <1>4, <2>1, <2>2, <2>3
<1>5. CASE step = "read" /\ asked.kind # "download"
  <2>1. out.n > k
    BY <1>1, <1>5 DEF HostFits
  <2>2. RanAndAnswered(k)
    BY <1>1, <1>3, <2>1
  <2>3. CASE p.n = sequence_number - 1
    <3>1. p.body.t \in {"OKAY", "FAIL"} /\ p.body.k = k
      BY <1>1, <1>5, <2>1, <2>3 DEF AnswerFits
    <3> QED BY <1>1, <1>5, <2>1, <2>2, <2>3, <3>1
  <2>4. CASE p.n # sequence_number - 1
    <3>1. p.body.t = "INFO"
      BY <1>1, <1>5, <2>1, <2>4 DEF AnswerFits
    <3> QED BY <1>1, <1>5, <2>1, <2>2, <2>4, <3>1
  <2> QED BY <2>3, <2>4
<1>6. CASE step = "read" /\ asked.kind = "download"
  <2>1. \/ out.n = k + 1 /\ sequence_number <= k + 2
        \/ out.n = k + 2 + Chunks
    BY <1>1, <1>6 DEF HostFits
  <2>2. RanAndAnswered(k) /\ (TooLarge(k) \/ InDownload(k) \/ Loaded(k))
    <3>1. sequence_number > k + 1
      BY <1>1, <1>2, <2>1
    <3> QED BY <1>3, <1>6, <3>1 DEF RanAndAnswered
  <2>3. CASE out.n = k + 1 /\ sequence_number <= k + 2
    <3>1. sequence_number = k + 2
      BY <1>1, <2>3
    <3>2. ~Loaded(k)
      <4>1. sequence_number # k + 3 + Chunks
        BY <1>2, <3>1
      <4> QED BY <4>1 DEF Loaded
    <3>3. CASE TooLarge(k)
      BY <1>1, <1>6, <2>2, <2>3, <3>1, <3>3 DEF AnswerFits
    <3>4. CASE ~TooLarge(k)
      BY <1>1, <1>6, <2>2, <2>3, <3>1, <3>2, <3>4 DEF AnswerFits
    <3> QED BY <3>3, <3>4
  <2>4. CASE out.n = k + 2 + Chunks
    <3>1. p.body.t = "OKAY" /\ p.body.k = k
      BY <1>1, <1>6, <2>4 DEF AnswerFits
    <3>2. ~TooLarge(k)
      <4>1. sequence_number # k + 2
        BY <1>1, <1>2, <2>4
      <4> QED BY <4>1 DEF TooLarge
    <3>3. ~InDownload(k)
      <4>1. ASSUME InDownload(k) PROVE FALSE
        <5>1. /\ fastboot_bytes_received <= Chunks
              /\ sequence_number = k + 2 + fastboot_bytes_received
          BY <4>1, LoadNumbers DEF InDownload
        <5> QED BY <1>1, <1>2, <2>4, <5>1
      <4> QED BY <4>1
    <3>4. Loaded(k) /\ sequence_number = k + 3 + Chunks
      BY <2>2, <3>2, <3>3 DEF Loaded
    <3>5. sequence_number = out.n + 1
      BY <1>1, <1>2, <2>4, <3>4
    <3> QED BY <1>6, <2>2, <3>1, <3>4, <3>5
  <2> QED BY <2>1, <2>3, <2>4
<1>7. CASE step = "data"
  <2>1. /\ asked.kind = "download" /\ cmd
        /\ out.body.i \in 1 .. Chunks /\ out.n = k + 1 + out.body.i
        /\ sequence_number <= out.n + 1
    BY <1>1, <1>7 DEF HostFits
  <2>2. sequence_number = out.n + 1
    BY <1>1, <2>1
  <2>3. p.n > k + 1 /\ p.n < k + 2 + Chunks
    BY <1>1, <1>2, <2>1
  <2>4. p.body.t = "none"
    BY <1>1, <2>1, <2>3 DEF AnswerFits
  <2> QED BY <1>7, <2>1, <2>2, <2>4
<1> QED BY <1>1, <1>4, <1>5, <1>6, <1>7

\* The host sends its next packet.
LEMMA GoOnSession ==
  ASSUME FastbootTypeOK, SessionClean, clean = TRUE, asked.kind # "none",
         NEW to \in {"read", "data"}, NEW n \in Nat, NEW body \in Bodies,
         GoOn(to, "fastboot", n, body),
         NEW k \in 1 .. MaxSeq, k = asked.k,
         step' = to /\ out'.n = n /\ out'.body = body => HostFits(k)'
  PROVE  SessionClean'
<1> DEFINE q == FastbootPacket("fastboot", n, body)
<1>1. q.id = "fastboot" /\ q.n = n /\ q.body = body
  BY PacketType
<1>2. /\ Sends(q) /\ step' = to
      /\ UNCHANGED <<serverVars, asked, history>>
  BY DEF GoOn
<1> HIDE DEF q
<1>3. out' = q /\ toHost' \subseteq toHost
  BY <1>2 DEF Sends, Young
<1>4. HostFits(k)'
  BY <1>1, <1>2, <1>3
<1>5. UNCHANGED <<sequence_number, cmd, command, pending_command,
                  fastboot_bytes_expected, fastboot_bytes_received, buf,
                  image_size, last_packet, asked, runs, clean, broken>>
  BY <1>2 DEF serverVars, commands, download, history
<1> QED BY <1>1, <1>2, <1>3, <1>4, <1>5, HostMoves

LEMMA TakeSession ==
  ASSUME FastbootTypeOK, NumbersAgree, StepFits, SessionClean, clean = TRUE,
         Take
  PROVE  SessionClean'
<1>1. PICK p \in toHost :
        /\ Answer(p)
        /\ \/ TakeNumber(p) \/ TakeInit(p) \/ TakeAccepted(p) \/ TakeInfo(p)
           \/ TakeGoAhead(p) \/ TakeStored(p) \/ TakeFinal(p) \/ TakeNonsense(p)
  BY DEF Take
<1>2. CASE TakeNumber(p)
  BY <1>2 DEF TakeNumber, SessionClean
<1>3. CASE TakeInit(p)
  <2>1. /\ step = "init" /\ step' = "idle"
        /\ UNCHANGED <<serverVars, out, asked, clean, broken>>
    BY <1>3 DEF TakeInit, Stop
  <2>2. /\ ~broken /\ out.id = "init" /\ asked.kind = "none"
        /\ Quiet /\ sequence_number = out.n + 1
    BY <2>1 DEF SessionClean
  <2> QED BY <2>1, <2>2 DEF SessionClean, Quiet, serverVars, commands
<1>4. CASE step # "init"
  <2>1. PICK k \in 1 .. MaxSeq : k = asked.k
    BY <1>1, <1>4, AnswerInSession
  <2>2. /\ k \in Nat /\ out.n \in Nat /\ sequence_number \in Nat
        /\ out.n + 1 \in Nat /\ asked.kind # "none" /\ CommandFits(k)
        /\ Chunks \in Nat /\ Chunks > 0 /\ Empty \in Bodies /\ ~broken
    <3>1. k \in Nat /\ Chunks \in Nat /\ Chunks > 0
      BY FastbootNumbers
    <3> QED BY <1>1, <1>4, <2>1, <3>1, AnswerInSession, EmptyType
            DEF SessionClean
  <2>3. HostFits(k)
    BY <2>2 DEF CommandFits
  <2>4. CASE TakeAccepted(p)
    <3>1. step = "write" /\ GoOn("read", "fastboot", out.n + 1, Empty)
      BY <2>4 DEF TakeAccepted
    <3>2. out.n = k /\ sequence_number = k + 1
      BY <1>1, <1>4, <2>1, <2>2, <3>1, AnswerTells
    <3>3. UNCHANGED <<asked, sequence_number>>
      BY <3>1 DEF GoOn, serverVars
    <3>4. ASSUME step' = "read", out'.n = out.n + 1, out'.body = Empty
          PROVE  HostFits(k)'
      <4>1. out'.n > k /\ out'.n = k + 1 /\ sequence_number' <= k + 2
        BY <2>2, <3>2, <3>3, <3>4
      <4> QED BY <3>4, <4>1 DEF HostFits
    <3> QED BY <2>1, <2>2, <3>1, <3>4, GoOnSession
  <2>5. CASE TakeInfo(p)
    <3>1. /\ step = "read" /\ p.body.t = "INFO"
          /\ GoOn("read", "fastboot", out.n + 1, Empty)
      BY <2>5 DEF TakeInfo
    <3>2. /\ asked.kind # "download" /\ out.n > k
          /\ out.n + 1 < sequence_number
      BY <1>1, <1>4, <2>1, <2>2, <3>1, AnswerTells
    <3>3. UNCHANGED <<asked, sequence_number>>
      BY <3>1 DEF GoOn, serverVars
    <3>4. ASSUME step' = "read", out'.n = out.n + 1, out'.body = Empty
          PROVE  HostFits(k)'
      <4>1. out'.n > k /\ out'.n < sequence_number'
        BY <2>2, <3>2, <3>3, <3>4
      <4> QED BY <3>2, <3>3, <3>4, <4>1 DEF HostFits
    <3> QED BY <2>1, <2>2, <3>1, <3>4, GoOnSession
  <2>6. CASE TakeGoAhead(p)
    <3>1. /\ step = "read" /\ p.body.t = "DATA" /\ asked.kind = "download"
          /\ GoOn("data", "fastboot", out.n + 1, Body("data", asked.k, 1))
      BY <2>6 DEF TakeGoAhead
    <3>2. InDownload(k) /\ out.n = k + 1 /\ sequence_number = k + 2
      BY <1>1, <1>4, <2>1, <2>2, <3>1, AnswerTells
    <3>3. UNCHANGED <<asked, sequence_number, cmd>>
      BY <3>1 DEF GoOn, serverVars, commands
    <3>4. Body("data", k, 1) \in Bodies /\ Body("data", k, 1).i = 1
      <4>1. k \in 0 .. MaxSeq /\ "data" \in Texts
        BY <2>2, FastbootNumbers DEF Texts
      <4> QED BY <4>1, BodyType
    <3>5. ASSUME step' = "data", out'.n = out.n + 1,
                 out'.body = Body("data", k, 1)
          PROVE  HostFits(k)'
      <4>1. /\ out'.body.i = 1 /\ 1 \in 1 .. Chunks /\ out'.n = k + 1 + 1
            /\ sequence_number' <= out'.n + 1
        BY <2>2, <3>2, <3>3, <3>4, <3>5
      <4>2. cmd' /\ asked'.kind = "download"
        BY <3>1, <3>2, <3>3 DEF InDownload
      <4> QED BY <3>5, <4>1, <4>2 DEF HostFits
    <3> QED BY <2>1, <2>2, <3>1, <3>4, <3>5, GoOnSession
  <2>7. CASE TakeStored(p)
    <3>0. step = "data"
      BY <2>7 DEF TakeStored
    <3>1. /\ asked.kind = "download" /\ cmd
          /\ out.body.i \in 1 .. Chunks /\ out.n = k + 1 + out.body.i
          /\ sequence_number = out.n + 1
      BY <1>1, <1>4, <2>1, <2>2, <3>0, AnswerTells
    <3>2. PICK i \in 1 .. Chunks : i = out.body.i
      BY <3>1
    <3>3. out.n = k + 1 + i /\ i \in Nat /\ i + 1 \in Nat
      BY <2>2, <3>1, <3>2
    <3>4. CASE i < Chunks
      <4>1. GoOn("data", "fastboot", out.n + 1, Body("data", k, i + 1))
        BY <2>1, <2>7, <3>2, <3>4 DEF TakeStored
      <4>2. UNCHANGED <<asked, sequence_number, cmd>>
        BY <4>1 DEF GoOn, serverVars, commands
      <4>3. Body("data", k, i + 1) \in Bodies
              /\ Body("data", k, i + 1).i = i + 1
        <5>1. k \in 0 .. MaxSeq /\ "data" \in Texts
          BY <2>2, FastbootNumbers DEF Texts
        <5> QED BY <3>3, <5>1, BodyType
      <4>4. ASSUME step' = "data", out'.n = out.n + 1,
                   out'.body = Body("data", k, i + 1)
            PROVE  HostFits(k)'
        <5>1. /\ out'.body.i = i + 1 /\ i + 1 \in 1 .. Chunks
              /\ out'.n = k + 1 + (i + 1) /\ sequence_number' <= out'.n + 1
          BY <2>2, <3>1, <3>3, <3>4, <4>2, <4>3, <4>4
        <5> QED BY <3>1, <4>2, <4>4, <5>1 DEF HostFits
      <4> QED BY <2>1, <2>2, <4>1, <4>3, <4>4, GoOnSession
    <3>5. CASE ~(i < Chunks)
      <4>1. GoOn("read", "fastboot", out.n + 1, Empty)
        BY <2>7, <3>2, <3>5 DEF TakeStored
      <4>2. UNCHANGED <<asked, sequence_number>>
        BY <4>1 DEF GoOn, serverVars
      <4>3. i = Chunks
        BY <2>2, <3>2, <3>5
      <4>4. ASSUME step' = "read", out'.n = out.n + 1, out'.body = Empty
            PROVE  HostFits(k)'
        <5>1. out'.n > k /\ out'.n = k + 2 + Chunks
          BY <2>2, <3>3, <4>3, <4>4
        <5> QED BY <3>1, <4>2, <4>4, <5>1 DEF HostFits
      <4> QED BY <2>1, <2>2, <4>1, <4>4, GoOnSession
    <3> QED BY <3>4, <3>5
  <2>8. CASE TakeFinal(p)
    <3>1. /\ step = "read" /\ p.body.t \in {"OKAY", "FAIL"}
          /\ step' = "idle" /\ got' = p.body
          /\ UNCHANGED <<serverVars, toHost, out, asked, runs, clean, broken>>
      BY <2>8 DEF TakeFinal, Stop
    <3>2. /\ p.body.k = k /\ RanAndAnswered(k) /\ Quiet
          /\ sequence_number = out.n + 1
          /\ asked.kind = "download" /\ p.body.t = "OKAY" => Loaded(k)
      <4>1. CASE asked.kind = "download"
        BY <1>1, <1>4, <2>1, <2>2, <3>1, <4>1, AnswerTells DEF TooLarge, Loaded
      <4>2. CASE asked.kind # "download"
        BY <1>1, <1>4, <2>1, <2>2, <3>1, <4>2, AnswerTells DEF RanAndAnswered
      <4> QED BY <4>1, <4>2
    <3>3. UNCHANGED <<sequence_number, cmd, command, pending_command,
                      fastboot_bytes_expected, fastboot_bytes_received, buf,
                      image_size, last_packet, asked, runs, clean, broken>>
      BY <3>1 DEF serverVars, commands, download
    <3>4. HostFits(k)'
      BY <3>1, <3>2, <3>3 DEF HostFits, RanAndAnswered, Quiet, Loaded
    <3>5. out'.id = "fastboot"
      BY <2>2, <3>1 DEF SessionClean
    <3> QED BY <2>1, <2>2, <3>1, <3>3, <3>4, <3>5, HostMoves
  <2>9. CASE TakeNonsense(p)
    <3>1. CASE step \in {"write", "data"} /\ p.body.t # "none"
      BY <1>1, <1>4, <2>1, <2>2, <3>1, AnswerTells
    <3>2. CASE step = "read" /\ p.body.t \notin {"INFO", "OKAY", "FAIL"}
                 /\ (p.body.t = "DATA" => asked.kind # "download")
      <4>1. CASE asked.kind = "download"
        BY <1>1, <1>4, <2>1, <2>2, <3>2, <4>1, AnswerTells
      <4>2. CASE asked.kind # "download"
        BY <1>1, <1>4, <2>1, <2>2, <3>2, <4>2, AnswerTells
      <4> QED BY <4>1, <4>2
    <3> QED BY <2>9, <3>1, <3>2 DEF TakeNonsense
  <2> QED
    BY <1>1, <1>2, <1>3, <2>4, <2>5, <2>6, <2>7, <2>8, <2>9
<1>5. CASE step = "init"
  BY <1>1, <1>2, <1>3, <1>5
  DEF TakeAccepted, TakeInfo, TakeGoAhead, TakeStored, TakeFinal, TakeNonsense
<1> QED BY <1>4, <1>5

\* The host's next command
LEMMA CommandSession ==
  ASSUME FastbootTypeOK, NumbersAgree, SessionClean, clean = TRUE,
         NEW kind \in Kinds, Command(kind)
  PROVE  SessionClean'
<1> DEFINE q == FastbootPacket("fastboot", out.n + 1, Body(kind, out.n + 1, 0))
<1>1. /\ step = "idle" /\ out.n < MaxSeq /\ step' = "write" /\ Sends(q)
      /\ asked' = [k |-> out.n + 1, kind |-> kind]
      /\ UNCHANGED <<serverVars, history>>
  BY DEF Command
<1>2. out.n \in Nat /\ sequence_number \in Nat /\ MaxSeq \in Nat
  BY PacketFields, FastbootNumbers DEF FastbootTypeOK
<1>3. ~broken /\ Quiet /\ sequence_number = out.n + 1
  <2>1. CASE asked.kind = "none"
    BY <2>1 DEF SessionClean
  <2>2. CASE asked.kind # "none"
    BY <1>1, <2>2 DEF SessionClean, CommandFits, HostFits
  <2> QED BY <2>1, <2>2
<1>4. PICK k \in 1 .. MaxSeq : k = out.n + 1
  <2>1. out.n + 1 \in 1 .. MaxSeq
    BY <1>1, <1>2
  <2> QED BY <2>1
<1>5. q.id = "fastboot" /\ q.n = k /\ q.body = Body(kind, k, 0)
  BY <1>4 DEF FastbootPacket
<1> HIDE DEF q
<1>6. /\ out' = q /\ toHost' \subseteq toHost /\ asked'.k = k
      /\ asked'.kind = kind
  BY <1>1, <1>4 DEF Sends, Young
<1>7. UNCHANGED <<sequence_number, cmd, pending_command, last_packet, clean,
                  broken>>
  BY <1>1 DEF serverVars, commands, history
<1>8. NotHeard(k)'
  BY <1>3, <1>4, <1>7 DEF NotHeard, Quiet
<1>9. HostFits(k)'
  <2>1. sequence_number' <= k + 1
    BY <1>2, <1>3, <1>4, <1>7
  <2> QED BY <1>1, <1>5, <1>6, <2>1 DEF HostFits
<1>10. ASSUME NEW p \in toHost' \cup {last_packet'}, p.id = "fastboot"
       PROVE  AnswerFits(p, k)'
  <2>1. p \in toHost \/ p = last_packet
    BY <1>6, <1>7, <1>10
  <2>2. p.n \in Nat /\ p.n < sequence_number
    <3>1. p \in Packets
      BY <2>1 DEF FastbootTypeOK
    <3>2. p.n \in Nat
      BY <3>1, PacketFields
    <3>3. CASE p \in toHost
      BY <1>1, <1>10, <3>2, <3>3 DEF NumbersAgree, HasNumber
    <3>4. CASE p = last_packet
      <4>1. p.n = sequence_number - 1
        BY <1>10, <3>4 DEF NumbersAgree, HasNumber
      <4> QED BY <1>2, <3>2, <4>1
    <3> QED BY <2>1, <3>2, <3>3, <3>4
  <2>3. k \in Nat /\ p.n <= k /\ p.n # k
    BY <1>2, <1>3, <1>4, <2>2
  <2> QED BY <2>2, <2>3, FirstAnswer
<1>11. CommandFits(k)'
  BY <1>8, <1>9, <1>10 DEF CommandFits
<1>12. CommandFits(asked.k)' /\ asked'.kind # "none"
  BY <1>6, <1>11 DEF Kinds
<1> QED BY <1>1, <1>3, <1>5, <1>6, <1>7, <1>12 DEF SessionClean

LEMMA SessionNext ==
  ASSUME FastbootTypeOK, NumbersAgree, StepFits, RunsAreOld, SessionClean,
         [FastbootNext]_fastbootVars
  PROVE  SessionClean'
<1>1. CASE HearQuery
  <2>1. last_packet'.id = "query" /\ toHost' = toHost \cup {last_packet'}
    BY <1>1 DEF HearQuery, FastbootPacket
  <2> QED BY <1>1, <2>1, SessionKept DEF HearQuery, hostVars
<1>2. CASE HearOther
  <2>1. last_packet'.id = "other" /\ toHost' = toHost
    BY <1>2 DEF HearOther, FastbootPacket
  <2> QED BY <1>2, <2>1, SessionKept DEF HearOther, hostVars
<1>3. CASE \E p \in toServer : Hear(p)
  BY <1>3, HearSession
<1>4. CASE StartServer
  BY <1>4, SessionKept DEF StartServer, hostVars, history
<1>5. CASE Query
  BY <1>5 DEF Query, SessionClean
<1>6. CASE LoseAnswer
  BY <1>6, SessionKept DEF LoseAnswer, serverVars, hostVars, history
<1>7. CASE UNCHANGED fastbootVars
  BY <1>7, SessionKept DEF fastbootVars, serverVars, hostVars, history
<1>8. CASE Take \/ \E kind \in Kinds : Command(kind)
  <2>1. CASE clean = TRUE
    BY <1>8, <2>1, TakeSession, CommandSession
  <2>2. CASE clean # TRUE
    <3>1. clean = FALSE
      BY <2>2 DEF FastbootTypeOK
    <3>2. UNCHANGED clean
      BY <1>8
      DEF Take, TakeNumber, TakeInit, TakeAccepted, TakeInfo, TakeGoAhead,
          TakeStored, TakeFinal, TakeNonsense, GoOn, Stop, Command, history
    <3> QED BY <3>1, <3>2 DEF SessionClean
  <2> QED BY <2>1, <2>2
<1> QED
  BY <1>1, <1>2, <1>3, <1>4, <1>5, <1>6, <1>7, <1>8 DEF FastbootNext

LEMMA FastbootInvInit == FastbootInit => FastbootInv
<1> SUFFICES ASSUME FastbootInit PROVE FastbootInv
  OBVIOUS
<1>1. FastbootTypeOK
  BY FastbootInitTypes
<1>2. NumbersAgree
  <2>1. /\ step = "off" /\ out.id = "none" /\ out.n = 0
        /\ last_packet.id = "none" /\ sequence_number = 1
        /\ toServer = {} /\ toHost = {}
    BY DEF FastbootInit, NoPacket, FastbootPacket
  <2>2. 1 <= 0 + MaxInfos + 1
    BY FastbootNumbers
  <2> QED BY <2>1, <2>2 DEF NumbersAgree, HasNumber
<1>3. StepFits
  BY DEF FastbootInit, StepFits, NoPacket, FastbootPacket
<1>4. RunsAreOld
  <2>1. \A k \in 1 .. MaxSeq : runs[k] = 0
    BY DEF FastbootInit
  <2> QED BY <2>1 DEF FastbootInit, RunsAreOld
<1>5. SessionClean
  BY DEF FastbootInit, SessionClean
<1> QED BY <1>1, <1>2, <1>3, <1>4, <1>5 DEF FastbootInv

LEMMA FastbootInvNext ==
  FastbootInv /\ [FastbootNext]_fastbootVars => FastbootInv'
<1> SUFFICES ASSUME FastbootInv, [FastbootNext]_fastbootVars
             PROVE  FastbootInv'
  OBVIOUS
<1>1. /\ FastbootTypeOK /\ NumbersAgree /\ StepFits /\ RunsAreOld
      /\ SessionClean
  BY DEF FastbootInv
<1> QED
  BY <1>1, FastbootTypesNext, NumbersNext, RunsNext, SessionNext DEF FastbootInv

\* RunsSound for every range of numbers wide enough, lifetime of packets,
\* size of download, number of INFO packets and of sessions: however packets
\* are lost, repeated and delayed, and whatever the host gives up, the server
\* runs no command twice (fastboot_handler, fastboot_send).
THEOREM NoCommandTwice == FastbootSpec => []RunsSound
<1>1. FastbootInv => RunsSound
  BY DEF FastbootInv, RunsAreOld, RunsSound, RunOnce
<1> QED BY <1>1, FastbootInvInit, FastbootInvNext, PTL DEF FastbootSpec

\* AnswerIsOwn likewise: in a session that found the server without a command
\* the host takes the answers to its own command, which was run, and an image
\* announced as complete is the one it sent.
THEOREM AnswerAlwaysOwn == FastbootSpec => []AnswerIsOwn
<1>1. FastbootInv => AnswerIsOwn
  <2> SUFFICES ASSUME FastbootInv PROVE AnswerIsOwn
    OBVIOUS
  <2>1. CASE clean /\ step = "idle" /\ asked.kind # "none"
    <3>1. ~broken /\ HostFits(asked.k)
      BY <2>1 DEF FastbootInv, SessionClean, CommandFits
    <3> QED BY <2>1, <3>1 DEF HostFits, Loaded, AnswerIsOwn
  <2>2. CASE ~(clean /\ step = "idle" /\ asked.kind # "none")
    BY <2>2 DEF FastbootInv, SessionClean, AnswerIsOwn
  <2> QED BY <2>1, <2>2
<1> QED BY <1>1, FastbootInvInit, FastbootInvNext, PTL DEF FastbootSpec
=============================================================================
