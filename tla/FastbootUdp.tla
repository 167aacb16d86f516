---------------------------- MODULE FastbootUdp -----------------------------
(***************************************************************************)
(* The fastboot server over UDP (net/fastboot.c, and of                    *)
(* drivers/fastboot/fb_command.c the commands and the download).  Every    *)
(* packet of the host has a 16-bit sequence number and is answered; the    *)
(* host repeats a packet until it is, and the server answers a repeated    *)
(* packet with a copy of its last one.  A command takes two packets: the   *)
(* first leaves its text, the second, empty, runs it and takes the answer. *)
(* The host may quit at any point and start again with a QUERY; the        *)
(* server's variables are static and survive that.                         *)
(*                                                                         *)
(* Sequence numbers are counted without wrap in the model, to tell a       *)
(* packet's age; whatever the server or the host compares is modulo        *)
(* SeqNumbers (2^16).  A packet of the host stays in toServer, since it is *)
(* repeated and may be delivered twice, until it is Lifetime packets old;  *)
(* never to be received is to be lost.  Sizes are counted in data packets. *)
(***************************************************************************)
EXTENDS Integers

CONSTANTS
  SeqNumbers,  \* the sequence number is taken modulo this
  Lifetime,    \* of a packet, in newer packets of the host
  Chunks,      \* data packets of a download
  MaxInfos,    \* INFO packets of a long command
  MaxSeq,      \* bound: the last number of a command
  Sessions     \* bound: how often the host begins

ASSUME FastbootAssumption ==
  /\ {SeqNumbers, Lifetime, Chunks, MaxInfos, MaxSeq, Sessions} \subseteq Nat
  /\ Chunks > 0
  /\ SeqNumbers > Lifetime + MaxInfos + 2

VARIABLES
  \* The server.
  serving,   \* is net_loop(FASTBOOT) running?
  sequence_number, last_packet,
  cmd,       \* is it FASTBOOT_COMMAND_DOWNLOAD?
  command,   \* the text that waits to be run
  pending_command,
  fastboot_bytes_expected, fastboot_bytes_received,
  buf,       \* the memory at fastboot_buf_addr
  image_size,
  \* The network.
  toServer, toHost,
  \* The host.
  step,      \* "off", "query", "init", "idle", "write", "read" or "data"
  out,       \* the last packet it sent, which it repeats while it waits
  asked,     \* the command it sent: its number and its kind
  got,       \* the final answer it took
  sessions,
  \* History, for the properties only.
  runs,      \* how often each command was run
  clean,     \* this session found the server without a command
  disturbed, \* somebody else was answered, or an old QUERY
  broken     \* the host met an answer it has no use for

download ==
  <<fastboot_bytes_expected, fastboot_bytes_received, buf, image_size>>
commands == <<cmd, command, pending_command>>
serverVars == <<serving, sequence_number, last_packet, commands, download>>
hostVars == <<step, out, asked, got, sessions>>
history == <<runs, clean, disturbed, broken>>
fastbootVars == <<serverVars, toServer, toHost, hostVars, history>>

Kinds == {"short", "long", "boot", "download"}

\* A payload: a text or an answer of command k, or the i-th data of it
Body(t, k, i) == [t |-> t, k |-> k, i |-> i]
Empty == Body("none", 0, 0)
FastbootPacket(id, n, body) == [id |-> id, n |-> n, body |-> body]
NoPacket == FastbootPacket("none", 0, Empty)

Wire(n) == n % SeqNumbers

FastbootInit ==
  /\ serving = TRUE /\ sequence_number = 1 /\ last_packet = NoPacket
  /\ cmd = FALSE /\ command = Empty /\ pending_command = FALSE
  /\ fastboot_bytes_expected = 0 /\ fastboot_bytes_received = 0
  /\ buf = [i \in 1 .. Chunks |-> Empty] /\ image_size = 0
  /\ toServer = {} /\ toHost = {}
  /\ step = "off" /\ out = NoPacket /\ asked = [k |-> 0, kind |-> "none"]
  /\ got = Empty /\ sessions = 0
  /\ runs = [k \in 1 .. MaxSeq |-> 0]
  /\ clean = FALSE /\ disturbed = FALSE /\ broken = FALSE
-----------------------------------------------------------------------------
(***************************************************************************)
(* The server.                                                             *)
(***************************************************************************)
\* The packet whose turn it is
Current(p) ==
  /\ serving
  /\ p \in toServer /\ p.id # "query"
  /\ Wire(p.n) = Wire(sequence_number)

\* Mutated: does not keep the last packet
FastbootSend_Forgets(id, infos, body) ==
  LET n == sequence_number + infos
      info(j) ==
        FastbootPacket(id, sequence_number + j, Body("INFO", body.k, j))
  IN /\ toHost' = toHost \cup {info(j) : j \in 0 .. infos - 1}
                         \cup {FastbootPacket(id, n, body)}
     /\ sequence_number' = n + 1
     /\ UNCHANGED last_packet

\* fastboot_send: answer, after some INFO packets, and keep the last
FastbootSend(id, infos, body) ==
  LET n == sequence_number + infos
      info(j) ==
        FastbootPacket(id, sequence_number + j, Body("INFO", body.k, j))
  IN /\ last_packet' = FastbootPacket(id, n, body)
     /\ toHost' =
          toHost \cup {info(j) : j \in 0 .. infos - 1} \cup {last_packet'}
     /\ sequence_number' = n + 1

\* An old QUERY makes it forget its last answer, too
HearQuery ==
  /\ serving
  /\ \E p \in toServer : p.id = "query"
  /\ last_packet' =
       FastbootPacket("query", 0, Body("number", 0, sequence_number))
  /\ toHost' = toHost \cup {last_packet'}
  /\ disturbed' = (disturbed \/ step # "query")
  /\ UNCHANGED <<serving, sequence_number, commands, download, toServer,
                 hostVars, runs, clean, broken>>

\* A QUERY of another host, or a packet of an unknown kind
HearOther ==
  /\ serving
  /\ last_packet' = FastbootPacket("other", 0, Empty)
  /\ disturbed' = TRUE
  /\ UNCHANGED <<serving, sequence_number, commands, download, toServer, toHost,
                 hostVars, runs, clean, broken>>

\* Nothing that is left of the last session is reset
HearInit(p) ==
  /\ Current(p) /\ p.id = "init"
  /\ FastbootSend("init", 0, Empty)
  /\ clean' = (~cmd /\ ~pending_command)
  /\ UNCHANGED <<serving, commands, download, toServer, hostVars, runs,
                 disturbed, broken>>

\* The previous packet again; after the wrap to 0 the code compares with -1
HearRepeated(p) ==
  /\ serving
  /\ p \in toServer /\ p.id # "query"
  /\ Wire(p.n) = Wire(sequence_number) - 1
  /\ toHost' = toHost \cup {last_packet}
  /\ UNCHANGED <<serverVars, toServer, hostVars, history>>

HearText(p) ==
  /\ Current(p) /\ p.id = "fastboot"
  /\ ~cmd /\ ~pending_command
  /\ command' = p.body
  /\ pending_command' = TRUE
  /\ FastbootSend("fastboot", 0, Empty)
  /\ UNCHANGED <<serving, cmd, download, toServer, hostVars, history>>

\* Mutated: the command stays
HandleCommand_Stays(p) ==
  /\ Current(p) /\ p.id = "fastboot"
  /\ ~cmd /\ pending_command
  /\ UNCHANGED <<pending_command, command, buf, image_size, toServer, hostVars,
                 clean, disturbed, broken>>

\* fastboot_handle_command
HandleCommand(p) ==
  /\ Current(p) /\ p.id = "fastboot"
  /\ ~cmd /\ pending_command
  /\ pending_command' = FALSE
  /\ UNCHANGED <<command, buf, image_size, toServer, hostVars, clean,
                 disturbed, broken>>

Ran == runs' = [runs EXCEPT ![command.k] = @ + 1]

\* A command that answers at once, or with INFO every 30 s while it works
Execute(p) ==
  /\ HandleCommand(p)
  /\ command.t \in {"short", "long"}
  /\ Ran
  /\ \E t \in {"OKAY", "FAIL"},
        infos \in 0 .. (IF command.t = "long" THEN MaxInfos ELSE 0) :
          FastbootSend("fastboot", infos, Body(t, command.k, infos))
  /\ UNCHANGED <<serving, cmd>>
  /\ UNCHANGED <<fastboot_bytes_expected, fastboot_bytes_received>>

\* Once the answer is out the handler itself boots the image, runs bootcmd or
\* resets the board; nothing is answered after it.  The flag for a reboot into
\* the boot loader may fail to be set
Boot(p) ==
  /\ HandleCommand(p)
  /\ command.t = "boot"
  /\ Ran
  /\ \E done \in BOOLEAN :
       /\ FastbootSend("fastboot", 0,
            Body(IF done THEN "OKAY" ELSE "FAIL", command.k, 0))
       /\ serving' = ~done
  /\ UNCHANGED <<cmd, fastboot_bytes_expected, fastboot_bytes_received>>

\* Refused without a parameter, for a size of 0 and for one too large for the
\* buffer
StartDownload(p) ==
  /\ HandleCommand(p)
  /\ command.t = "download"
  /\ Ran
  /\ \E fits \in BOOLEAN :
       /\ cmd' = fits
       /\ FastbootSend("fastboot", 0,
            Body(IF fits THEN "DATA" ELSE "FAIL", command.k, 0))
       /\ \/ /\ fastboot_bytes_expected' = Chunks
             /\ fastboot_bytes_received' = 0
          \/ /\ ~fits
             /\ fastboot_bytes_expected' = 0 /\ fastboot_bytes_received' = 0
          \/ /\ ~fits
             /\ UNCHANGED <<fastboot_bytes_expected, fastboot_bytes_received>>
  /\ UNCHANGED serving

\* The text is not a command
Unrecognized(p) ==
  /\ HandleCommand(p)
  /\ command.t \notin Kinds
  /\ FastbootSend("fastboot", 0, Body("FAIL", command.k, 0))
  /\ UNCHANGED <<serving, cmd, runs, fastboot_bytes_expected,
                 fastboot_bytes_received>>

\* A packet while a download is on
Download(p) ==
  /\ Current(p) /\ p.id = "fastboot"
  /\ cmd
  /\ UNCHANGED <<serving, command, pending_command, toServer>>
  /\ UNCHANGED <<hostVars, history>>

Remaining == fastboot_bytes_expected - fastboot_bytes_received

\* fastboot_data_download
StoreData(p) ==
  /\ Download(p)
  /\ p.body.t # "none" /\ Remaining > 0
  /\ fastboot_bytes_received' = fastboot_bytes_received + 1
  /\ buf' = [buf EXCEPT ![fastboot_bytes_received'] = p.body]
  /\ FastbootSend("fastboot", 0, Empty)
  /\ UNCHANGED <<cmd, fastboot_bytes_expected, image_size>>

RejectData(p) ==
  /\ Download(p)
  /\ (p.body.t = "none") # (Remaining = 0)
  /\ cmd' = FALSE
  /\ FastbootSend("fastboot", 0, Body("FAIL", command.k, 0))
  /\ UNCHANGED download

\* Mutated: takes the size when the counter is reset
DataComplete_Late(p) ==
  /\ Download(p)
  /\ p.body.t = "none" /\ Remaining = 0
  /\ cmd' = FALSE
  /\ FastbootSend("fastboot", 0, Body("OKAY", command.k, 0))
  /\ fastboot_bytes_expected' = 0 /\ fastboot_bytes_received' = 0
  /\ image_size' = fastboot_bytes_received'
  /\ UNCHANGED buf

\* fastboot_data_complete
DataComplete(p) ==
  /\ Download(p)
  /\ p.body.t = "none" /\ Remaining = 0
  /\ cmd' = FALSE
  /\ FastbootSend("fastboot", 0, Body("OKAY", command.k, 0))
  /\ image_size' = fastboot_bytes_received
  /\ fastboot_bytes_expected' = 0 /\ fastboot_bytes_received' = 0
  /\ UNCHANGED buf

\* fastboot_start_server, from the command line again
StartServer ==
  /\ ~serving
  /\ serving' = TRUE
  /\ UNCHANGED <<sequence_number, last_packet, commands, download, toServer,
                 toHost, hostVars, history>>
-----------------------------------------------------------------------------
(***************************************************************************)
(* The host, which is not part of this code, and the network.              *)
(***************************************************************************)
Young(packets, n) == {p \in packets : p.n + Lifetime >= n \/ p.id = "query"}

\* A new packet, and what is too old by now is gone
Sends(p) ==
  /\ out' = p
  /\ toServer' = Young(toServer, p.n) \cup {p}
  /\ toHost' = Young(toHost, p.n)

\* It begins, or gives up and begins again when the network has calmed down
Query ==
  /\ sessions < Sessions
  /\ sessions' = sessions + 1
  /\ step' = "query"
  /\ out' = FastbootPacket("query", 0, Empty)
  /\ toServer' = {out'} /\ toHost' = {}
  /\ asked' = [k |-> 0, kind |-> "none"]
  /\ got' = Empty
  /\ clean' = FALSE /\ disturbed' = FALSE /\ broken' = FALSE
  /\ UNCHANGED <<serverVars, runs>>

\* The next command; its number is that of its first packet
Command(kind) ==
  /\ step = "idle"
  /\ out.n < MaxSeq
  /\ asked' = [k |-> out.n + 1, kind |-> kind]
  /\ Sends(FastbootPacket("fastboot", out.n + 1, Body(kind, out.n + 1, 0)))
  /\ step' = "write"
  /\ UNCHANGED <<serverVars, got, sessions, history>>

Waiting == step \notin {"off", "idle"}

\* The answer to the packet it sent last, as far as it can tell
Answer(p) == Waiting /\ p \in toHost /\ p.id = out.id /\ Wire(p.n) = Wire(out.n)

\* On to the next packet, numbered n
GoOn(to, id, n, body) ==
  /\ step' = to
  /\ Sends(FastbootPacket(id, n, body))
  /\ UNCHANGED <<serverVars, asked, got, sessions, history>>

\* The exchange is over
Stop(to, answer) ==
  /\ step' = to
  /\ got' = answer
  /\ UNCHANGED <<serverVars, toServer, toHost, out, asked, sessions>>
  /\ UNCHANGED <<runs, clean, disturbed>>

TakeNumber(p) == step = "query" /\ GoOn("init", "init", p.body.i, Empty)
TakeInit(p) == step = "init" /\ Stop("idle", Empty) /\ UNCHANGED broken

TakeAccepted(p) ==
  /\ step = "write" /\ p.body.t = "none"
  /\ GoOn("read", "fastboot", out.n + 1, Empty)

TakeInfo(p) ==
  /\ step = "read" /\ p.body.t = "INFO"
  /\ GoOn("read", "fastboot", out.n + 1, Empty)

TakeGoAhead(p) ==
  /\ step = "read" /\ p.body.t = "DATA" /\ asked.kind = "download"
  /\ GoOn("data", "fastboot", out.n + 1, Body("data", asked.k, 1))

TakeStored(p) ==
  /\ step = "data" /\ p.body.t = "none"
  /\ IF out.body.i < Chunks
       THEN GoOn("data", "fastboot", out.n + 1,
                 Body("data", asked.k, out.body.i + 1))
       ELSE GoOn("read", "fastboot", out.n + 1, Empty)

TakeFinal(p) ==
  /\ step = "read" /\ p.body.t \in {"OKAY", "FAIL"}
  /\ Stop("idle", p.body) /\ UNCHANGED broken

TakeNonsense(p) ==
  /\ \/ step \in {"write", "data"} /\ p.body.t # "none"
     \/ step = "read" /\ p.body.t \notin {"INFO", "OKAY", "FAIL"}
          /\ (p.body.t = "DATA" => asked.kind # "download")
  /\ Stop("off", Empty)
  /\ broken' = TRUE

Take ==
  \E p \in toHost :
    /\ Answer(p)
    /\ \/ TakeNumber(p) \/ TakeInit(p) \/ TakeAccepted(p) \/ TakeInfo(p)
       \/ TakeGoAhead(p) \/ TakeStored(p) \/ TakeFinal(p) \/ TakeNonsense(p)

LoseAnswer ==
  /\ \E p \in toHost : toHost' = toHost \ {p}
  /\ UNCHANGED <<serverVars, toServer, hostVars, history>>
-----------------------------------------------------------------------------
Hear(p) ==
  \/ HearInit(p) \/ HearRepeated(p) \/ HearText(p)
  \/ Execute(p) \/ Boot(p) \/ StartDownload(p) \/ Unrecognized(p)
  \/ StoreData(p) \/ RejectData(p) \/ DataComplete(p)

FastbootNext ==
  \/ HearQuery
  \/ HearOther
  \/ \E p \in toServer : Hear(p)
  \/ StartServer
  \/ Query
  \/ \E kind \in Kinds : Command(kind)
  \/ Take
  \/ LoseAnswer

\* The host's packet gets through again and again while it is repeated,
\* and so do the answers
FastbootSpec ==
  /\ FastbootInit /\ [][FastbootNext]_fastbootVars
  /\ WF_fastbootVars(step = "query" /\ HearQuery)
  /\ WF_fastbootVars(\E p \in toServer : p = out /\ Hear(p))
  /\ SF_fastbootVars(Take)
-----------------------------------------------------------------------------
Bodies == [t : Kinds \cup {"none", "INFO", "OKAY", "FAIL", "DATA", "data",
                           "number"},
           k : 0 .. MaxSeq, i : Nat]
Packets == [id : {"none", "query", "init", "fastboot", "other"}, n : Nat,
            body : Bodies]

\* Every variable has its type, and no more is received than was announced
FastbootTypeOK ==
  /\ serving \in BOOLEAN /\ cmd \in BOOLEAN /\ pending_command \in BOOLEAN
  /\ sequence_number \in Nat \ {0} /\ last_packet \in Packets
  /\ command \in Bodies
  /\ fastboot_bytes_expected \in {0, Chunks}
  /\ fastboot_bytes_received \in 0 .. fastboot_bytes_expected
  /\ buf \in [1 .. Chunks -> Bodies] /\ image_size \in {0, Chunks}
  /\ toServer \subseteq Packets /\ toHost \subseteq Packets
  /\ step \in {"off", "query", "init", "idle", "write", "read", "data"}
  /\ out \in Packets /\ got \in Bodies /\ sessions \in 0 .. Sessions
  /\ asked \in [k : 0 .. MaxSeq, kind : Kinds \cup {"none"}]
  /\ runs \in [1 .. MaxSeq -> Nat]
  /\ clean \in BOOLEAN /\ disturbed \in BOOLEAN /\ broken \in BOOLEAN

\* However its packets are lost, repeated and delayed, and whatever the host
\* gives up, the server runs no command twice.
RunOnce == \A k \in 1 .. MaxSeq : runs[k] <= 1

\* In a session that found the server without a command, the final answer the
\* host takes is to the command it sent, which was run, and after the OKAY of
\* a download the image is that download, whole and in order; on the way it
\* never meets an answer it has no use for: what the server sends again is
\* what it sent first.
AnswerIsOwn ==
  clean =>
    /\ ~broken
    /\ step = "idle" /\ asked.kind # "none" =>
         /\ got.k = asked.k
         /\ runs[asked.k] = 1
         /\ asked.kind = "download" /\ got.t = "OKAY" =>
              /\ image_size = Chunks
              /\ buf = [i \in 1 .. Chunks |-> Body("data", asked.k, i)]

\* The host that waits gets its answer, though answers are lost, if nobody
\* else is answered meanwhile (last_packet is then not its own), its command
\* sends no INFO (only the last packet is kept), the number does not wrap
\* (0 - 1 is -1) and the server has not left.
HostGoesOn ==
  Waiting ~> \/ ~Waiting \/ disturbed \/ asked.kind = "long" \/ ~serving
             \/ Wire(out.n) = SeqNumbers - 1

\* What holds in every state: the types, and no command run twice.
RunsSound == FastbootTypeOK /\ RunOnce
=============================================================================
