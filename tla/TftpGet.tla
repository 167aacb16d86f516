------------------------------- MODULE TftpGet -------------------------------
(***************************************************************************)
(* Loading a file by TFTP (net/tftp.c, tftpboot) and the part of           *)
(* net/net.c that runs and restarts it.  Blocks are numbered modulo        *)
(* SeqSize; the client stores each at the place its number and the wraps   *)
(* counted so far give it, acknowledges it, and recovers by timeouts.      *)
(*                                                                         *)
(* The server is not part of the source: it is any server that answers     *)
(* each request from a port of its own (a Tid), with or without an OACK,   *)
(* sends one block at a time and sends it again when it likes.  Packets    *)
(* are lost; those of one Tid are delivered in order, unless Reorder.      *)
(*                                                                         *)
(* Abstractions: the file is FileLen units long and unit u holds u; a      *)
(* block size is a number of units; the port of each try differs from the  *)
(* ports of earlier tries (1024 + time % 3072); ARP always answers; a      *)
(* timer never runs out in the one iteration of net_loop() whose packets   *)
(* ended the try.                                                          *)
(***************************************************************************)
EXTENDS Integers, Sequences, SequencesExt, NetState

CONSTANTS
  SeqSize,      \* TFTP_SEQUENCE_SIZE
  FileLen,      \* length of the file
  SmallBlock,   \* TFTP_BLOCK_SIZE
  BigBlock,     \* tftp_block_size_option
  MemSizes,     \* what tftp_load_size, the free memory at load_addr, may be:
                \* with 0 tftp_start() refuses
  MaxTimeouts,  \* tftp_timeout_count_max
  Retries,      \* what "netretry" says
  Tids,         \* ports of the server
  ChanLen,      \* bound on the packets in flight to or from one Tid
  Reorder       \* does the network reorder packets?

ASSUME TftpAssumption ==
  /\ SeqSize \in Nat /\ SeqSize >= 2
  /\ {FileLen, MaxTimeouts, Retries} \cup MemSizes \subseteq Nat
  /\ {SmallBlock, BigBlock, ChanLen} \subseteq Nat \ {0}
  /\ Reorder \in BOOLEAN

WellKnown == "69"   \* the remote port until the server answers
ASSUME TidAssumption == WellKnown \notin Tids

Ports == 1 .. Retries + 1
Nothing == -1   \* in memory where nothing was stored

VARIABLES
  tftp,      \* the static variables of net/tftp.c
  timer,     \* time_handler: "none", "tftp" or "again"; with "again", the
             \* UDP handler is the one that drops everything
  fired,     \* has a timeout been handled since net_loop() looked at net_state?
  mem,       \* memory from load_addr on
  net_boot_file_size,
  result,    \* what net_loop() returned: "running" yet, "ok" or "failed"
  \* The server and the network
  requests,  \* ports of ours from which a request is on its way
  srv,       \* the transfer each Tid serves
  down, up   \* packets on their way from and to each Tid

loopVars == <<net_state, net_try_count, timer, fired>>
fileVars == <<mem, net_boot_file_size>>
tftpVars == <<tftp, loopVars, fileVars, result, requests, srv, down, up>>

\* tftp_init_load_addr() finds free memory at load_addr.
LoadAddrFree == DOMAIN mem # {}

\* tftp_start() once it has a place for the file
Started(t, port) ==
  [t EXCEPT !.state = "SEND_RRQ", !.remote_port = WellKnown, !.our_port = port,
            !.cur_block = 0, !.block_size = SmallBlock, !.timeout_count = 0]

\* Without one nothing is set up and nothing sent; what an earlier load left
\* in tftp is then looked at by nobody.
TftpInit ==
  /\ \E size \in MemSizes : mem = [u \in 0 .. size - 1 |-> Nothing]
  /\ tftp = Started([state |-> "", remote_port |-> WellKnown, our_port |-> 1,
                     cur_block |-> 0, prev_block |-> 0, wrap_offset |-> 0,
                     block_size |-> SmallBlock, timeout_count |-> 0], 1)
  /\ net_state = IF LoadAddrFree THEN "CONTINUE" ELSE "FAIL"
  /\ timer = IF LoadAddrFree THEN "tftp" ELSE "none"
  /\ requests = IF LoadAddrFree THEN {1} ELSE {}
  /\ net_try_count = 1
  /\ fired = FALSE
  /\ net_boot_file_size = 0
  /\ result = "running"
  /\ srv = [t \in Tids |-> [phase |-> "free", port |-> 1, size |-> SmallBlock,
                            block |-> 0]]
  /\ down = [t \in Tids |-> <<>>]
  /\ up = [t \in Tids |-> <<>>]

\* net_loop() has not returned.
Running == result = "running"

-----------------------------------------------------------------------------
(***************************************************************************)
(* The server.                                                             *)
(***************************************************************************)
LastBlock(s) == FileLen \div s.size + 1

Packet(s) ==
  IF s.phase = "oack" THEN [op |-> "OACK", size |-> s.size]
  ELSE LET at == (s.block - 1) * s.size
       IN [op |-> "DATA", block |-> s.block % SeqSize, at |-> at,
           len |-> IF s.block = LastBlock(s) THEN FileLen - at ELSE s.size]

\* A packet for which there is no room is lost.
Put(chan, packet) == IF Len(chan) < ChanLen THEN Append(chan, packet) ELSE chan

\* A request is answered, with the block size we asked for, without options, or
\* by an error.
Serve(t, port) ==
  /\ Running
  /\ port \in requests
  /\ srv[t].phase = "free"
  /\ requests' = requests \ {port}
  /\ \/ \E s \in {[phase |-> "oack", port |-> port, size |-> BigBlock, block |-> 0],
                  [phase |-> "data", port |-> port, size |-> SmallBlock, block |-> 1]} :
          /\ srv' = [srv EXCEPT ![t] = s]
          /\ down' = [down EXCEPT ![t] = <<Packet(s)>>]
     \/ \E fatal \in BOOLEAN :
          /\ srv' = [srv EXCEPT ![t].phase = "refused", ![t].port = port]
          /\ down' = [down EXCEPT ![t] = <<[op |-> "ERROR", fatal |-> fatal]>>]
  /\ UNCHANGED <<tftp, loopVars, fileVars, result, up>>

SendAgain(t) ==
  /\ Running
  /\ srv[t].phase \in {"oack", "data"}
  /\ Len(down[t]) < ChanLen
  /\ down' = [down EXCEPT ![t] = Append(@, Packet(srv[t]))]
  /\ UNCHANGED <<tftp, loopVars, fileVars, result, requests, srv, up>>

\* An acknowledgement that does not match the last packet sent is ignored.
TakeAck(t) ==
  /\ Running
  /\ up[t] # <<>>
  /\ up' = [up EXCEPT ![t] = Tail(@)]
  /\ IF srv[t].phase \in {"oack", "data"} /\ Head(up[t]) = srv[t].block % SeqSize
     THEN LET s == IF srv[t].block = LastBlock(srv[t])
                   THEN [srv[t] EXCEPT !.phase = "done"]
                   ELSE [srv[t] EXCEPT !.phase = "data", !.block = @ + 1]
          IN /\ srv' = [srv EXCEPT ![t] = s]
             /\ down' = IF s.phase = "done" THEN down
                        ELSE [down EXCEPT ![t] = Put(@, Packet(s))]
     ELSE UNCHANGED <<srv, down>>
  /\ UNCHANGED <<tftp, loopVars, fileVars, result, requests>>

Lose ==
  /\ Running
  /\ \/ \E port \in requests :
          requests' = requests \ {port} /\ UNCHANGED <<down, up>>
     \/ \E t \in Tids : down[t] # <<>> /\ down' = [down EXCEPT ![t] = Tail(@)]
                        /\ UNCHANGED <<requests, up>>
     \/ \E t \in Tids : up[t] # <<>> /\ up' = [up EXCEPT ![t] = Tail(@)]
                        /\ UNCHANGED <<requests, down>>
  /\ UNCHANGED <<tftp, loopVars, fileVars, result, srv>>

-----------------------------------------------------------------------------
\* tftp_send()
Send(t) ==
  IF t.state = "SEND_RRQ"
  THEN requests' = requests \cup {t.our_port} /\ UNCHANGED up
  ELSE up' = [up EXCEPT ![t.remote_port] = Put(@, t.cur_block)]
       /\ UNCHANGED requests

SendNothing == UNCHANGED <<requests, up>>

\* net_start_again(), called with time_handler "now".  eth_try_another() may
\* or may not find that every interface was tried.
StartAgain(now) ==
  IF net_try_count > Retries
  THEN /\ net_state' = "FAIL"
       /\ timer' = now
       /\ UNCHANGED net_try_count
  ELSE /\ net_try_count' = net_try_count + 1
       /\ \/ net_state' = "RESTART" /\ timer' = now
          \/ timer' = "again" /\ UNCHANGED net_state

\* Mutated form: the wrap is counted in blocks of the default size.
UpdateBlockNumber_DefaultSize(t) ==
  IF t.cur_block = 0 /\ t.prev_block # 0
  THEN [t EXCEPT !.wrap_offset = @ + SmallBlock * SeqSize, !.timeout_count = 0]
  ELSE t

\* update_block_number()
UpdateBlockNumber(t) ==
  IF t.cur_block = 0 /\ t.prev_block # 0
  THEN [t EXCEPT !.wrap_offset = @ + t.block_size * SeqSize,
                 !.timeout_count = 0]
  ELSE t

\* Mutated form: the wraps of the last try are kept.
NewTransfer_KeepsWrap(t) == [t EXCEPT !.prev_block = 0]

\* new_transfer()
NewTransfer(t) == [t EXCEPT !.prev_block = 0, !.wrap_offset = 0]

\* TFTP_OACK in tftp_handler()
TakeOack(t, packet) ==
  LET acked == [tftp EXCEPT !.state = "OACK", !.remote_port = t,
                            !.block_size = packet.size]
  IN /\ tftp' = acked
     /\ Send(acked)
     /\ UNCHANGED <<loopVars, fileVars>>

\* The memory check of store_block()
Fits(offset, len) == offset .. offset + len - 1 \subseteq DOMAIN mem

\* The memory after store_block()
Stored(offset, packet) ==
  [u \in DOMAIN mem |-> IF u >= offset /\ u < offset + packet.len
                        THEN packet.at + (u - offset) ELSE mem[u]]

\* A block that is not the one received last is stored and acknowledged; a
\* short one is the last.
StoreBlock(t, packet) ==
  LET offset == (t.cur_block - 1) * t.block_size + t.wrap_offset
      size == offset + packet.len
  IN IF Fits(offset, packet.len)
     THEN /\ mem' = Stored(offset, packet)
          /\ net_boot_file_size' =
               IF net_boot_file_size < size THEN size ELSE net_boot_file_size
          /\ Send(t)
          /\ net_state' = IF packet.len < t.block_size THEN "SUCCESS" ELSE net_state
     ELSE net_state' = "FAIL" /\ SendNothing /\ UNCHANGED fileVars

\* TFTP_DATA in tftp_handler()
TakeData(tid, packet) ==
  LET counted == UpdateBlockNumber([tftp EXCEPT !.cur_block = packet.block])
      first == tftp.state \in {"SEND_RRQ", "OACK"}
      t == IF first
           THEN NewTransfer([counted EXCEPT !.state = "DATA", !.remote_port = tid])
           ELSE counted
  IN IF first /\ t.cur_block # 1
     THEN /\ tftp' = t
          /\ StartAgain(timer)
          /\ SendNothing
          /\ UNCHANGED <<fileVars, fired>>
     ELSE IF t.cur_block = t.prev_block
     THEN /\ tftp' = t
          /\ SendNothing
          /\ UNCHANGED <<loopVars, fileVars>>
     ELSE /\ tftp' = [t EXCEPT !.prev_block = t.cur_block]
          /\ timer' = "tftp"
          /\ StoreBlock(t, packet)
          /\ UNCHANGED <<net_try_count, fired>>

\* TFTP_ERROR in tftp_handler()
TakeError(packet) ==
  /\ IF packet.fatal
     THEN net_state' = "FAIL" /\ UNCHANGED <<net_try_count, timer>>
     ELSE StartAgain(timer)
  /\ SendNothing
  /\ UNCHANGED <<tftp, fileVars, fired>>

\* Packets for a port we left and, once the server has answered, those from
\* another of its ports are dropped.
Accepted(t) ==
  /\ timer # "again"
  /\ srv[t].port = tftp.our_port
  /\ tftp.state = "SEND_RRQ" \/ t = tftp.remote_port

\* tftp_handler(): eth_rx() handles several packets, and net_loop() a timeout,
\* before net_loop() looks at net_state again.
Receive(t) ==
  \E i \in 1 .. (IF Reorder THEN Len(down[t]) ELSE 1) :
    /\ Running
    /\ ~fired
    /\ down[t] # <<>>
    /\ down' = [down EXCEPT ![t] = RemoveAt(@, i)]
    /\ LET packet == down[t][i] IN
         IF ~Accepted(t)
         THEN SendNothing /\ UNCHANGED <<tftp, loopVars, fileVars>>
         ELSE \/ packet.op = "OACK" /\ TakeOack(t, packet)
              \/ packet.op = "DATA" /\ TakeData(t, packet)
              \/ packet.op = "ERROR" /\ TakeError(packet)
    /\ UNCHANGED <<result, srv>>

\* Mutated form: the handler, which net_loop() has removed, is not set again.
TftpTimeout_Once ==
  LET t == [tftp EXCEPT !.timeout_count = @ + 1]
  IN /\ Running
     /\ timer = "tftp"
     /\ net_state = "CONTINUE"
     /\ tftp' = t
     /\ IF t.timeout_count > MaxTimeouts
        THEN StartAgain("none") /\ SendNothing
        ELSE timer' = "none" /\ Send(t) /\ UNCHANGED <<net_state, net_try_count>>
     /\ fired' = (net_state' # "CONTINUE")
     /\ UNCHANGED <<fileVars, result, srv, down>>

\* tftp_timeout_handler()
TftpTimeout ==
  LET t == [tftp EXCEPT !.timeout_count = @ + 1]
  IN /\ Running
     /\ timer = "tftp"
     /\ net_state = "CONTINUE"
     /\ tftp' = t
     /\ IF t.timeout_count > MaxTimeouts
        THEN StartAgain("none") /\ SendNothing
        ELSE Send(t) /\ UNCHANGED <<net_state, net_try_count, timer>>
     /\ fired' = (net_state' # "CONTINUE")
     /\ UNCHANGED <<fileVars, result, srv, down>>

\* start_again_timeout_handler()
AgainTimeout ==
  /\ Running
  /\ timer = "again"
  /\ net_state = "CONTINUE"
  /\ timer' = "none"
  /\ net_state' = "RESTART"
  /\ fired' = TRUE
  /\ UNCHANGED <<tftp, net_try_count, fileVars, result, requests, srv, down, up>>

\* net_loop() finds NETLOOP_RESTART: tftp_start() sends the request again, or
\* refuses again
LoopRestart ==
  /\ Running
  /\ net_state = "RESTART"
  /\ \/ /\ LoadAddrFree
        /\ net_state' = "CONTINUE"
        /\ tftp' = Started(tftp, net_try_count)
        /\ timer' = "tftp"
        /\ Send(tftp')
     \/ /\ ~LoadAddrFree
        /\ net_state' = "FAIL"
        /\ SendNothing
        /\ UNCHANGED <<tftp, timer>>
  /\ fired' = FALSE
  /\ net_boot_file_size' = 0
  /\ UNCHANGED <<net_try_count, mem, result, srv, down>>

\* net_loop() finds NETLOOP_FAIL, and calls net_start_again() itself; when
\* every interface was tried net_state stays as it is.
LoopFail ==
  /\ Running
  /\ net_state = "FAIL"
  /\ \/ /\ net_try_count <= Retries
        /\ net_state' = "RESTART"
        /\ net_try_count' = net_try_count + 1
        /\ UNCHANGED <<result, fired>>
     \/ /\ result' = "failed"
        /\ UNCHANGED <<net_state, net_try_count, fired>>
  /\ UNCHANGED <<tftp, timer, fileVars, requests, srv, down, up>>

\* net_loop() finds NETLOOP_SUCCESS
LoopSuccess ==
  /\ Running
  /\ net_state = "SUCCESS"
  /\ result' = "ok"
  /\ UNCHANGED <<tftp, loopVars, fileVars, requests, srv, down, up>>

TftpNext ==
  \/ \E t \in Tids, port \in Ports : Serve(t, port)
  \/ \E t \in Tids : SendAgain(t)
  \/ \E t \in Tids : TakeAck(t)
  \/ Lose
  \/ \E t \in Tids : Receive(t)
  \/ TftpTimeout
  \/ AgainTimeout
  \/ LoopRestart
  \/ LoopFail
  \/ LoopSuccess

\* Time passes, and net_loop() looks at net_state after every packet and every
\* timeout; the server and the network owe nothing.
TftpFairness ==
  /\ WF_tftpVars(TftpTimeout \/ AgainTimeout)
  /\ WF_tftpVars(LoopRestart \/ LoopFail \/ LoopSuccess)

TftpSpec == TftpInit /\ [][TftpNext]_tftpVars /\ TftpFairness

-----------------------------------------------------------------------------
\* Every variable has its type.
TftpTypeOK ==
  /\ tftp.state \in {"SEND_RRQ", "OACK", "DATA"}
  /\ tftp.remote_port \in Tids \cup {WellKnown}
  /\ tftp.our_port \in Ports
  /\ {tftp.cur_block, tftp.prev_block} \subseteq 0 .. SeqSize - 1
  /\ \E size \in {SmallBlock, BigBlock} :
       tftp.wrap_offset \in 0 .. FileLen + size
  /\ tftp.block_size \in {SmallBlock, BigBlock}
  /\ tftp.timeout_count \in 0 .. MaxTimeouts + 1
  /\ net_state \in {"CONTINUE", "RESTART", "SUCCESS", "FAIL"}
  /\ net_try_count \in 1 .. Retries + 1
  /\ timer \in {"none", "tftp", "again"}
  /\ fired \in BOOLEAN
  /\ \E size \in MemSizes : /\ mem \in [0 .. size - 1 -> 0 .. FileLen \cup {Nothing}]
                            /\ net_boot_file_size \in 0 .. size
  /\ result \in {"running", "ok", "failed"}

\* When net_loop() returns success the whole file is in memory, and "filesize"
\* is its length: whatever was lost, sent again or left over from an earlier
\* try, and however often the block number wrapped.
FileIsWhole ==
  result = "ok" =>
    /\ net_boot_file_size = FileLen
    /\ \A u \in 0 .. FileLen - 1 : mem[u] = u

\* Every block is stored where it belongs, also in tries that come to nothing.
InPlace == \A u \in DOMAIN mem : mem[u] \in {u, Nothing}

\* What the server was told has arrived is in memory: no block is acknowledged
\* before it is stored, and none that could not be stored.
AckedIsStored ==
  \A t \in Tids :
    srv[t].phase \in {"data", "done"} =>
      \A u \in 0 .. (IF srv[t].phase = "done" THEN FileLen
                     ELSE (srv[t].block - 1) * srv[t].size) - 1 :
        u \in DOMAIN mem /\ mem[u] = u

\* Block number 0 "means that there was a wrap around" (update_block_number()):
\* no more wraps are counted than the server's block number has made.
ZeroIsWrap ==
  tftp.state = "DATA" /\ tftp.remote_port \in Tids =>
    tftp.wrap_offset <=
      (srv[tftp.remote_port].block \div SeqSize) * SeqSize * tftp.block_size

\* A transfer ends, in success or in failure, whatever server and network do:
\* the timeout handler is never lost, and timeouts are counted across blocks.
Ends == <>~Running

\* What holds in every state: types, every block in its place, and what was
\* acknowledged in memory (store_block, tftp_handler).
BlocksSound == TftpTypeOK /\ InPlace /\ AckedIsStored
=============================================================================
