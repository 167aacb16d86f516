-------------------------------- MODULE Dhcp --------------------------------
(***************************************************************************)
(* DHCP (net/bootp.c) under net_loop() (net/net.c): DISCOVER until a       *)
(* server offers an address, REQUEST it, and take it when the request is   *)
(* acknowledged; then load a file, if the user wants so.  What fails is    *)
(* begun again, on another interface, as often as netretry allows (which   *)
(* interface is next, and when all had their turn: NetLoop).               *)
(*                                                                         *)
(* Every request has an id of its own and only replies to the ids of the   *)
(* cache are looked at.  An id is named by its age, the number of requests *)
(* sent since.  Replies may be repeated and late, over new requests and    *)
(* new tries, until their request has the age ReplyLifetime + 1.           *)
(***************************************************************************)
EXTENDS Naturals, Sequences, NetLoopState

CONSTANTS
  Servers,
  IdCache,          \* CONFIG_BOOTP_ID_CACHE_SIZE
  LongWords,        \* entries of the cache, of 32 bits, in one ulong
  MaxRetransmits,   \* of one try, at most, before it gives up
  ReplyLifetime     \* requests sent until the last reply to one is gone

ASSUME DhcpAssumption ==
  /\ {IdCache, LongWords, ReplyLifetime} \subseteq Nat \ {0}
  /\ LongWords <= IdCache
  /\ MaxRetransmits \in Nat
  /\ "none" \notin Servers

Ids == 0 .. ReplyLifetime
Old == ReplyLifetime + 1
Older(a) == IF a = Old THEN Old ELSE a + 1

VARIABLES
  autoload,         \* of the environment
  udp_handler,      \* "none", "dhcp" or "tftp"
  dhcp_state,
  bootp_ids,        \* their ages
  timeouts,         \* of this try
  dhcp_server_ip,   \* named by the server, as net_ip is by the one it is from
  \* History and environment.
  sent,             \* requests of this try, at most Old
  dhcp_requests     \* <<id, server>> of the REQUESTs that may be answered

dhcpEnvVars == <<netretry, autoload>>
dhcpVars == <<phase, net_state, dhcpEnvVars, net_try_count, active,
              time_handler, udp_handler, dhcp_state, bootp_ids, timeouts,
              net_ip, dhcp_server_ip, sent, dhcp_requests>>

DhcpInit ==
  /\ phase = "command" /\ net_state = "CONTINUE"
  /\ netretry = "no" /\ autoload = FALSE
  /\ net_try_count = 1 /\ active = FALSE
  /\ time_handler = "none" /\ udp_handler = "none"
  /\ dhcp_state = "INIT" /\ bootp_ids = <<>> /\ timeouts = 0
  /\ net_ip = "none" /\ dhcp_server_ip = "none"
  /\ sent = 0 /\ dhcp_requests = {}
-----------------------------------------------------------------------------
\* Mutated form: the last entry of the cache is not used.
AddId_Early(ids) ==
  IF Len(ids) < IdCache - 1 THEN Append(ids, 0)
  ELSE [i \in 1 .. Len(ids) |->
          CASE i = Len(ids) -> 0
            [] i <= IdCache - LongWords -> ids[i + 1]
            [] OTHER -> ids[i]]

\* bootp_add_id().  When the cache is full the ids move down by one, but as
\* many of them fewer as a ulong holds.
AddId(ids) ==
  IF Len(ids) < IdCache THEN Append(ids, 0)
  ELSE [i \in 1 .. IdCache |->
          CASE i = IdCache -> 0
            [] i <= IdCache - LongWords -> ids[i + 1]
            [] OTHER -> ids[i]]

\* bootp_request(), after which every earlier request is one older
BootpRequest(ids, before) ==
  /\ dhcp_state' = "SELECTING"
  /\ bootp_ids' = AddId([i \in DOMAIN ids |-> Older(ids[i])])
  /\ sent' = Older(before)
  /\ dhcp_requests' =
       {<<Older(r[1]), r[2]>> : r \in dhcp_requests} \cap (Ids \X Servers)
  /\ time_handler' = "bootp"
  /\ udp_handler' = "dhcp"

\* Mutated form of bootp_reset(): the ids stay.
Reset_KeepsIds ==
  /\ timeouts' = 0
  /\ BootpRequest(bootp_ids, 0)

\* bootp_reset(), and the first request of a try
Reset ==
  /\ timeouts' = 0
  /\ BootpRequest(<<>>, 0)
-----------------------------------------------------------------------------
\* net_loop(DHCP) up to its restart label, with an interface that started
DhcpEnter ==
  /\ phase = "command"
  /\ netretry' \in {"no", "once", "yes"}
  /\ autoload' \in BOOLEAN
  /\ phase' = "start" /\ net_try_count' = 1 /\ active' = TRUE
  /\ UNCHANGED <<net_state, time_handler, udp_handler, dhcp_state, bootp_ids,
                 timeouts, net_ip, dhcp_server_ip, sent, dhcp_requests>>

\* From the restart label
Start ==
  /\ phase = "start"
  /\ phase' = "loop" /\ net_state' = "CONTINUE"
  /\ net_ip' = "none"
  /\ Reset
  /\ UNCHANGED <<dhcpEnvVars, net_try_count, active, dhcp_server_ip>>

\* bootp_match_id()
Known(id) == \E i \in DOMAIN bootp_ids : bootp_ids[i] = id

\* dhcp_handler() sees a reply to this id, and check_reply_packet() lets it pass
Hears(id) ==
  /\ phase = "loop" /\ net_state = "CONTINUE" /\ active
  /\ udp_handler = "dhcp"
  /\ Known(id)

\* dhcp_handler() in SELECTING: the reply is taken for an offer, whatever it is
Select(id, s) ==
  /\ Hears(id)
  /\ dhcp_state = "SELECTING"
  /\ dhcp_state' = "REQUESTING"
  /\ dhcp_server_ip' = s
  /\ time_handler' = "bootp"
  /\ dhcp_requests' = dhcp_requests \cup {<<id, s>>}
  /\ UNCHANGED <<phase, net_state, dhcpEnvVars, net_try_count, active,
                 udp_handler, bootp_ids, timeouts, net_ip, sent>>

\* net_auto_load(), when TFTP can start and when it cannot
AutoLoad ==
  \/ ~autoload /\ net_state' = "SUCCESS" /\ UNCHANGED udp_handler
  \/ autoload /\ net_state' = "FAIL" /\ UNCHANGED udp_handler
  \/ autoload /\ udp_handler' = "tftp" /\ UNCHANGED net_state

\* ... in REQUESTING: an acknowledgement, of any server that was asked
Ack(id, s) ==
  /\ Hears(id)
  /\ dhcp_state = "REQUESTING"
  /\ <<id, s>> \in dhcp_requests
  /\ dhcp_server_ip' = s
  /\ net_ip' = s
  /\ dhcp_state' = "BOUND"
  /\ time_handler' = "none"
  /\ AutoLoad
  /\ UNCHANGED <<phase, dhcpEnvVars, net_try_count, active, bootp_ids,
                 timeouts, sent, dhcp_requests>>
-----------------------------------------------------------------------------
\* netretry does not allow another try
Refuses ==
  /\ netretry # "yes"
  /\ net_try_count > IF netretry = "once" THEN 1 ELSE 0

\* Mutated form of net_start_again(): no timer after the last interface.
DhcpStartAgain_NoTimer ==
  /\ active' \in (IF Refuses THEN {FALSE} ELSE BOOLEAN)
  /\ \/ /\ Refuses
        /\ net_state' = "FAIL"
        /\ UNCHANGED <<net_try_count, time_handler, udp_handler>>
     \/ /\ ~Refuses
        /\ net_try_count' = IF netretry = "yes" THEN 1 ELSE net_try_count + 1
        /\ \/ net_state' = "RESTART" /\ UNCHANGED <<time_handler, udp_handler>>
           \/ /\ UNCHANGED net_state
              /\ time_handler' = "none" /\ udp_handler' = "none"

\* Mutated form: the tries are not counted.
DhcpStartAgain_Uncounted ==
  /\ active' \in (IF Refuses THEN {FALSE} ELSE BOOLEAN)
  /\ UNCHANGED net_try_count
  /\ \/ /\ Refuses
        /\ net_state' = "FAIL"
        /\ UNCHANGED <<time_handler, udp_handler>>
     \/ /\ ~Refuses
        /\ \/ net_state' = "RESTART" /\ UNCHANGED <<time_handler, udp_handler>>
           \/ /\ UNCHANGED net_state
              /\ time_handler' = "again" /\ udp_handler' = "none"

\* net_start_again(): another interface starts or not; the next try is at once
\* or, when all had their turn, after a pause, which leaves net_state as it is
DhcpStartAgain ==
  /\ active' \in (IF Refuses THEN {FALSE} ELSE BOOLEAN)
  /\ \/ /\ Refuses
        /\ net_state' = "FAIL"
        /\ UNCHANGED <<net_try_count, time_handler, udp_handler>>
     \/ /\ ~Refuses
        /\ net_try_count' = IF netretry = "yes" THEN 1 ELSE net_try_count + 1
        /\ \/ net_state' = "RESTART" /\ UNCHANGED <<time_handler, udp_handler>>
           \/ /\ UNCHANGED net_state
              /\ time_handler' = "again" /\ udp_handler' = "none"

\* bootp_timeout_handler(): it asks again
Retransmit ==
  /\ phase = "loop" /\ net_state = "CONTINUE"
  /\ time_handler = "bootp"
  /\ timeouts < MaxRetransmits
  /\ timeouts' = timeouts + 1
  /\ BootpRequest(bootp_ids, sent)
  /\ UNCHANGED <<phase, net_state, dhcpEnvVars, net_try_count, active, net_ip,
                 dhcp_server_ip>>

\* ... or its time is over
GiveUp ==
  /\ phase = "loop" /\ net_state = "CONTINUE"
  /\ time_handler = "bootp"
  /\ DhcpStartAgain
  /\ UNCHANGED <<phase, dhcpEnvVars, dhcp_state, bootp_ids, timeouts, net_ip,
                 dhcp_server_ip, sent, dhcp_requests>>

\* start_again_timeout_handler()
PauseOver ==
  /\ phase = "loop" /\ net_state = "CONTINUE"
  /\ time_handler = "again"
  /\ net_state' = "RESTART"
  /\ time_handler' = "none"
  /\ UNCHANGED <<phase, dhcpEnvVars, net_try_count, active, udp_handler,
                 dhcp_state, bootp_ids, timeouts, net_ip, dhcp_server_ip, sent,
                 dhcp_requests>>

\* The file is loaded, refused by the server, or not there in time
Load ==
  /\ phase = "loop" /\ net_state = "CONTINUE"
  /\ udp_handler = "tftp"
  /\ \/ /\ net_state' \in {"SUCCESS", "FAIL"}
        /\ UNCHANGED <<net_try_count, active, time_handler, udp_handler>>
     \/ DhcpStartAgain
  /\ UNCHANGED <<phase, dhcpEnvVars, dhcp_state, bootp_ids, timeouts, net_ip,
                 dhcp_server_ip, sent, dhcp_requests>>
-----------------------------------------------------------------------------
\* The way out of net_loop()
DhcpLeave ==
  /\ phase' = "command" /\ net_state' = "CONTINUE"
  /\ time_handler' = "none" /\ udp_handler' = "none"
  /\ UNCHANGED <<dhcpEnvVars, net_try_count, dhcp_state, bootp_ids, timeouts,
                 net_ip, dhcp_server_ip, sent, dhcp_requests>>

\* ctrl-C
DhcpAbort == phase = "loop" /\ DhcpLeave /\ active' = FALSE

DhcpSuccess ==
  phase = "loop" /\ net_state = "SUCCESS" /\ DhcpLeave /\ active' = FALSE

\* FAIL, and net_start_again() refuses
DhcpFail ==
  /\ phase = "loop" /\ net_state = "FAIL"
  /\ Refuses
  /\ DhcpLeave /\ active' = FALSE

\* ... or only sets a timer: the state stays FAIL, and net_loop() ends
FailDespiteTimer ==
  /\ phase = "loop" /\ net_state = "FAIL"
  /\ ~Refuses
  /\ DhcpLeave /\ active' \in BOOLEAN

\* FAIL, and net_start_again() goes on at once
FailAgain ==
  /\ phase = "loop" /\ net_state = "FAIL"
  /\ ~Refuses
  /\ DhcpStartAgain /\ net_state' = "RESTART"
  /\ UNCHANGED <<phase, dhcpEnvVars, dhcp_state, bootp_ids, timeouts, net_ip,
                 dhcp_server_ip, sent, dhcp_requests>>

DhcpRestart ==
  /\ phase = "loop" /\ net_state = "RESTART"
  /\ phase' = "start"
  /\ UNCHANGED <<net_state, dhcpEnvVars, net_try_count, active, time_handler,
                 udp_handler, dhcp_state, bootp_ids, timeouts, net_ip,
                 dhcp_server_ip, sent, dhcp_requests>>

Timeout == Retransmit \/ GiveUp \/ PauseOver
Answered == \E id \in Ids, s \in Servers : Ack(id, s)

DhcpNext ==
  \/ DhcpEnter \/ Start
  \/ \E id \in Ids, s \in Servers : Select(id, s) \/ Ack(id, s)
  \/ Retransmit \/ GiveUp \/ PauseOver \/ Load
  \/ DhcpAbort \/ DhcpSuccess \/ DhcpFail \/ FailDespiteTimer \/ FailAgain
  \/ DhcpRestart

\* The loop goes on and time passes
DhcpFairness ==
  /\ WF_dhcpVars(Start)
  /\ WF_dhcpVars(Timeout) /\ WF_dhcpVars(Load)
  /\ WF_dhcpVars(DhcpSuccess \/ DhcpFail \/ FailDespiteTimer \/ FailAgain
                 \/ DhcpRestart)

\* What GetsLease supposes of the network: an interface that works has its
\* turn, and a server that answers
ServerAnswers ==
  /\ SF_dhcpVars((GiveUp \/ FailAgain) /\ active')
  /\ SF_dhcpVars(\E s \in Servers : Select(0, s))
  /\ SF_dhcpVars(Answered)

DhcpSpec == DhcpInit /\ [][DhcpNext]_dhcpVars /\ DhcpFairness
-----------------------------------------------------------------------------
\* Every variable has its type; the cache of ids is never overrun
\* (bootp_add_id).
DhcpTypeOK ==
  /\ phase \in {"command", "start", "loop"}
  /\ net_state \in {"CONTINUE", "SUCCESS", "FAIL", "RESTART"}
  /\ netretry \in {"no", "once", "yes"}
  /\ {autoload, active} \subseteq BOOLEAN
  /\ net_try_count \in 1 .. 2
  /\ time_handler \in {"none", "bootp", "again"}
  /\ udp_handler \in {"none", "dhcp", "tftp"}
  /\ dhcp_state \in {"INIT", "SELECTING", "REQUESTING", "BOUND"}
  /\ bootp_ids \in UNION {[1 .. n -> 0 .. Old] : n \in 0 .. IdCache}
  /\ timeouts \in 0 .. MaxRetransmits
  /\ {net_ip, dhcp_server_ip} \subseteq Servers \cup {"none"}
  /\ sent \in 0 .. Old
  /\ dhcp_requests \subseteq Ids \X Servers

\* An address is one that this try asked its server for, after all the replies
\* to other servers' offers, to earlier requests and to earlier tries, and the
\* server it is leased from is remembered with it (bootp_reset,
\* check_reply_packet, dhcp_handler).
LeaseIsOwn ==
  net_ip # "none" =>
    /\ dhcp_state = "BOUND"
    /\ dhcp_server_ip = net_ip
    /\ \E id \in Ids : id < sent /\ <<id, net_ip>> \in dhcp_requests

\* DHCP ends, unless it is to retry for ever: without an answer as well, and
\* whether the interfaces it moves to start or not (bootp_timeout_handler,
\* net_start_again, net_loop).
DhcpEnds == (phase # "command" /\ netretry # "yes") ~> phase = "command"

\* When a server answers, DHCP that retries for ever gets an address: no try
\* ends without a timer or in a state that no reply leaves, and the newest id
\* is always known (bootp_add_id, bootp_timeout_handler, net_start_again).
GetsLease ==
  ServerAnswers =>
    ((phase # "command" /\ netretry = "yes") ~>
       (net_ip # "none" \/ phase = "command"))

\* A reply to the last request is heard, and while a try has sent no more
\* requests than the cache has entries, late replies to the earlier ones are, too
\* (bootp_add_id, bootp_match_id).
RecentKept ==
  dhcp_state \in {"SELECTING", "REQUESTING"} =>
    \A id \in Ids :
      (id = 0 \/ (id <= timeouts /\ timeouts < IdCache)) => Known(id)

\* As README:1447 has it, the replies to the last IdCache requests are heard.
\* It is false where a ulong is longer than an id: memmove() is given too small
\* a size, and the id before the newest is lost (bootp_add_id).
OutstandingKept ==
  (phase = "loop" /\ dhcp_state \in {"SELECTING", "REQUESTING"}) =>
    \A id \in 0 .. IdCache - 1 : id < sent => Known(id)

\* What holds in every state: the types, and addresses of this try only.
LeaseSound == DhcpTypeOK /\ LeaseIsOwn
=============================================================================
