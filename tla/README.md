# U-Boot 2019 (A1000B): specifications, checks and proofs

The subject is `src/a1000_uboot2019/`, a U-Boot of 2019 with the board support
of the Black Sesame A1000B (`configs/bsta1000b_defconfig`,
`include/configs/bsta1000b.h`).  `src/a1000_uboot2019_analysis/` is the same
tree with the comments of a reader added; it is left aside, and paths below are
relative to the first.

U-Boot is one thread without preemption.  What makes it hard is not
interleaving of threads but

* power that fails, or a reset, between any two steps of writing to a medium,
  and the media that report errors half-way;
* packets that are lost, repeated, late or left over from an earlier attempt,
  against one timeout handler and static variables that outlive an operation;
* counters of 8 and 16 bits that wrap (serial numbers, block numbers, ring
  indices), and caches that must be discarded when what they hold changes.

* static state and recursion through hooks: an operation that failed half-way
  leaves its traces to the next, and a driver's hook may call back into the
  code that called it.

The project therefore models the persistent environment, the block cache, the
network (main loop, ARP, ping, link-local addresses, DHCP, TFTP, fastboot),
virtqueues and the life of devices in the driver model.

## 1. Inventory

| Component | State | Operations | Hard behaviour | Correct when | Module |
|---|---|---|---|---|---|
| Redundant environment (`env/common.c`) | two copies (CRC, flags byte, data), `gd->env_valid`, `env_flags` | import, export, choice of the newer copy | wrap of the serial byte; one copy unreadable | the last environment saved is found | `EnvRedund`, `EnvPromise` |
| ... on MMC (`env/mmc.c`) | card, the above | load, save | power failure in a write, failed writes retried | as above, and the live copy is never written | `EnvMmc` |
| ... in SPI flash (`env/sf.c`) | sectors shared with others | load, six-step save | power failure or error in or between any steps | as above, and the neighbour's data comes back | `EnvSf` |
| ... in parallel flash (`env/flash.c`) | flags, pointers `flash_addr`, `flash_addr_new` | init, load with repair, save | the repair itself interrupted, pointers and flags out of step | as above, and one copy ends up active | `EnvFlash` |
| ... on NAND, UBI, EEPROM, files, NVRAM | one copy or two | load, save | as above | as above | planned |
| Environment drivers (`env/env.c`) | `gd->env_load_prio`, `env_has_init`, `env_valid` | init, load, save over several locations | a look-up has a side effect | saves go where the loads came from | `EnvDriver` |
| Environment table, callbacks, flags (`lib/hashtable.c`, `env/callback.c`, `env/flags.c`) | open-addressing table | search, enter, delete, import, walk | callbacks that refuse half-way, deleted slots | a name is found iff it was entered | planned |
| Block cache and block devices (`drivers/block/`) | list of nodes, counters, limits | fill, hit, invalidate, configure; read, write, select | stale blocks, buffer reuse, failed `malloc()` | a hit is what the device holds | `BlkCache` |
| Partition tables (`disk/`) | MBR, two GPTs | write, read, verify | power failure between the two GPTs | one good table is always found | planned |
| Network loop (`net/net.c`) | `net_state`, one timeout handler, handlers, retries | `net_loop`, `net_start_again` | several packets before the state is looked at | every operation ends | `NetLoop`, `TftpGet` |
| ARP, devices (`net/arp.c`, `net/eth*.c`) | address waited for, tries | request, receive, timeout | state left over from a failed operation | waiting ends; no frame is lost | `NetLoop` |
| TFTP (`net/tftp.c`) | state, block, wraps, ports, timeouts | get; put; server | loss, repetition, wrap, retry | the file arrives whole, or failure | `TftpGet`; put planned |
| DHCP/BOOTP (`net/bootp.c`) | state, transaction ids, timeouts | discover, offer, request, ack | late answers to earlier ids | one lease, from a server that was asked for it | `Dhcp` |
| Link-local (`net/link_local.c`) | state, probes, claims, conflicts | timeouts | counters left by a search that was cut short | a claimed address was probed | `NetLoop` |
| NFS, ping, RARP, SNTP, WOL, CDP, DNS | request, tries | one exchange each | loss | they end | not modelled |
| Fastboot over UDP (`net/fastboot.c`, `drivers/fastboot/`) | 16-bit sequence number, last packet, command, download | packet received | repetition, wrap | each command runs once and gets its own answer | `FastbootUdp` |
| DFU (`drivers/dfu/`) | buffer, offset, block number | read, write, flush | drain and wrap, errors | the medium holds what was sent | planned |
| Driver model (`drivers/core/`) | tree of devices, flags, uclass lists, sequence numbers | bind, probe, remove, unbind | failure at any hook | an active device has active parents, its data and a number of its own | `Device` |
| Virtio (`drivers/virtio/`) | rings, free list, indices | add, kick, get | 16-bit indices, order of the device | no descriptor is used twice, no notification lost | `VirtQueue`, `BufQueue` |
| LMB (`lib/lmb.c`) | sorted regions | add, reserve, free, allocate | adjacent and overlapping regions | regions are sorted and disjoint | planned |
| Boot counter, autoboot | counter, `upgrade_available` | increment, limit, reset | resets between its steps | a bad image is given up after the limit | planned |
| MMC, MTD, NAND, UBI, USB, filesystems, FIT and bootm, command line, malloc, SPL, boards, EFI, tools | | | | | not modelled: `PROJECT.json` says why |

How they interact.  `env_init()` and `env_relocate()` run every environment
driver at start-up; a driver reads and writes its medium directly (flash) or
through `blk_dread()`/`blk_dwrite()` and so through the block cache (MMC).  An
environment driver and the shared code in `env/common.c` talk through
`gd->env_valid` and the static `env_flags`.  A network command calls
`net_loop()`, which calls the protocol's start function and then its handlers,
for packets and for the one timeout; protocols answer by `net_set_state()`,
`net_set_timeout_handler()` and `net_start_again()`.  `netretry` and the server
addresses come from the environment.

The hazards of each part, at their lines, are in `PROJECT.json`; those of
planned parts name the module that is to cover them.

## 2. Plan

Done: `EnvRedund`, `EnvPromise`, `EnvMmc`, `EnvSf`, `EnvFlash`, `EnvDriver`,
`BlkCache`, `TftpGet`, `BufQueue`, `VirtQueue`, `NetLoop`, `FastbootUdp`,
`Device`, `Dhcp`, and proofs for all of them: every safety property of the runs
is a theorem.

Modules still worth writing, should there be room: `TftpPut` (sending, and the
TFTP server), `GptWrite` (a power failure between the blocks of the two
tables), `BootCount` over `EnvPromise`, `Dfu`, `HashTable` and `Lmb` as
functions against reference definitions, `EnvOther` (NAND and UBI on
`EnvRedund`).

## 3. Modules

**`EnvPromise`** is the abstract specification: what a user of `saveenv` may
rely on, in terms of the environment in RAM, the last one saved or loaded
(`saved`) and those whose save was begun and never reported done (`maybe`).  A
boot that read everything loads one of `{saved} \cup maybe` and that settles
it; a boot that could not read everything may load anything, and a save after
it may cost anything until it is done.

**`EnvRedund`** (no state) is `env_import_redund()`, the serial number and what
`mkenvimage` leaves on a new medium.  A CRC that does not match makes a copy
`Bad`; an interrupted write leaves a copy as it was, complete or `Bad`.

**`EnvMmc`**: `errors` is what the card gets wrong, reads, writes, both or
nothing (of those in `CardErrors`).  `Load` is `env_mmc_load()`; a save is `SaveExport` (export,
choice of the copy, `env_flags` incremented) and `SaveWritten` or `SaveFailed`.
`PowerFail` may come at any time.  `degraded`, `saved` and `maybe` are history
variables, here and below.

**`EnvSf`**: one action per step of `env_sf_save()` (`SetUp`, `Erase`, `Write`,
`Restore`, `Obsolete`), `SaveFails` for an error in each and `SetupFails` for
`setup_flash_device()`, which also resets the environment in RAM.  `rest` says
whether the neighbour's data in each sector is in flash, `saved_buffer` whether
it is in RAM.

**`EnvFlash`**: `Probe` is `env_flash_init()`, `LoadRepair` and `LoadActivate`
are the two repairs of `env_flash_load()`, whose results the code ignores, and
the save has a step per call.  Flash bits only go from 1 to 0.
`SaveFailsUnnoticed` is the set of errors for which the function returns 0;
`silent` says whether the board is one on which they occur, and `ret` what the
user was told.
With no valid copy `env_relocate()` skips the load, and `Probe` goes to `idle`.

**`EnvDriver`**: drivers are chosen freely (which operations they have, what
they return); the actions are the iterations of the loops in `env_init()` and
`env_load()` with the side effect of `env_driver_lookup()`, `LookUp`; `stage`
says how far the start has come, `gd_valid` is `gd->env_valid`.  When the
last driver's init leaves `ENV_INVALID`, `env_relocate()` loads nothing and
`env_load_prio` stays at the last location looked up, the lowest priority;
`RightPlace` is therefore about boots that ran `env_load()`.

**`BlkCache`**: the list is a sequence with the most recent node at its head.
`Read` is `blk_dread()` with `blkcache_read()` and `blkcache_fill()` (a
`malloc()` may fail), `Write` is `blk_dwrite()` and `blk_derase()`, `Select`
and `SelectAndInit` change the hardware partition without and with
`part_init()`, `Configure` is `blkcache configure`.  Each node remembers
(history) which hardware partition it was read from.  `NumBlocks`, `Limits`
bound the data.

**`TftpGet`**: `tftp` holds the static variables of `net/tftp.c`; `Receive` is
`tftp_handler()` for OACK, DATA and ERROR, `TftpTimeout` its timeout handler,
`StartAgain` is `net_start_again()` (either branch of `net_restart_wrap`),
`LoopRestart`, `LoopFail`, `LoopSuccess` are what `net_loop()` does with
`net_state`, `AgainTimeout` is `start_again_timeout_handler()`.  Where no memory
is free at `load_addr` (`LoadAddrFree`) `tftp_start()` sends nothing and fails.  The server and
the network are not in the repository and are modelled from what the client
expects of them: each request is answered from a new port, with an OACK of the
block size asked for, with block 1, or with an error; the server sends one
block at a time and repeats it when it likes; any packet may be lost; packets
of one port stay in order unless `Reorder`.  Left out: ARP (it always answers),
storing to parallel flash, a multicast or `tsize` option, progress output,
ctrl-C.

**`BufQueue`** is what a virtqueue promises: a queue of buffers that the device
takes in order and finishes in any, and that come back to the driver once.
**`VirtQueue`** implements it: `Fill` and `Publish` are `virtqueue_add()` before
and after the descriptors are written, `NoSpace` its refusal, `Kick` is
`virtqueue_kick()`, `GetBuf` is `virtqueue_get_buf()` with `detach_buf()`.  The
device (external) polls, asks for a notification, looks once more and sleeps.
The driver's stores reach memory later than they are made, that of
`avail->idx` by `Drain`, those to descriptors and ring by `Arrive`: the barriers
are empty, and `KeepsOrder` says whether the machine keeps the two in order all
the same.  That loads pass each other (the empty `virtio_rmb()`) is left out;
`in_time` (history) says that no kick came before its index was in memory.

**`NetLoop`** is one iteration of `net_loop()` in the order of the code: ARP
timer, packets, ctrl-C, timeout handler, `net_state`; with ping, ARP, the two
transmit buffers, the link-local search, `net_start_again()` and the rotation
of interfaces.  Operations follow each other and inherit the static variables
the code does not reset.  `Return` is the end of `net_loop()`, `Leave` the same
with `net_cleanup_loop()`, which a refusal for want of an address (`Refused`)
does not come to; a bad `llipaddr` (`LinkLocalRefused`) fails the operation.
`fresh` says that the timer was set in this
iteration, so that it cannot have run out.

**`Dhcp`** has the loop in less detail and the protocol in more: `Select` and
`Ack` are `dhcp_handler()` in SELECTING and REQUESTING, `Retransmit` and
`GiveUp` `bootp_timeout_handler()`, `StartAgain` `net_start_again()` with its
three outcomes, `AddId` `bootp_add_id()` as it is on a 64-bit machine.  Ids are
named by age, so that a reply can be late by any number of requests up to
`ReplyLifetime`.  Servers and the transfer that follows are external.  Left out:
options other than the server's identity, packets without an address, BOOTP
without DHCP, `ethaddr` unset.

**`FastbootUdp`**: the actions whose names begin with `Hear` are
`fastboot_handler()` for one kind of packet and state, with `fastboot_send()`;
`HandleCommand`, `Execute`, `Boot` and `StartDownload` with their refusals are
`fastboot_handle_command()`,
`StoreData`, `RejectData`, `DataComplete` the download.  The host (the actions
whose names begin with `Take`, `Query`, `Command`) and the network
(`LoseAnswer`, and `Young` for how long a packet may be under way) are
external, from the protocol the server's comments refer to.  Sequence numbers
are compared modulo `SeqNumbers`.

`NetLoop`, `Dhcp` and `TftpGet` are about the same `net_loop()` in different
detail.  **`NetState`** declares what all three share, `net_state` and
`net_try_count`; **`NetLoopState`** what `NetLoop` and `Dhcp` do.  So that one
module can speak of all of them and of `FastbootUdp`, their `Init`, `Next` and
`Spec` carry the component's name (`DhcpNext`, `TftpSpec`, `FastbootInit`).

**`Device`**: the calls of `device_bind_common()`, `device_probe()`,
`device_remove()` and `device_unbind()` under way are a stack of frames; each
action runs the innermost one up to its next call, or to its end.  Any hook may
fail; the hooks of a bind bind children, those of a probe may probe the devices
of `Uses`.  `mishaps` (history) notes the failures the code does not undo (see
section 7); the properties except what follows from them and nothing else.

`MC*.tla` and `MC*.cfg` give the constants for TLC.

## 4. Runs

| Run | States | Shows |
|---|---|---|
| `env_mmc` | 343 256 | saves go where the load came from, else to the best choice (`RightPlace`); on a card without errors no power failure costs the environment, across the wrap of the serial number, the copy a boot would load is never written, and `EnvPromise` is kept; on any other a good copy in use is not the last |
| `env_sf` | 54 552 | under errors and power failures anywhere: durable, neighbour kept, refinement |
| `env_flash` | 88 655 | the same with repairs at load; flags come to name one copy; refinement on boards on which no failed save returns 0 |
| `env_flash_success` | violation | a save that returns 0 may not have saved (`SuccessIsSaved`) |
| `blk_cache` | 39 744 | no stale node; counters and buffers right, no useless duplicate (`ListSound`) |
| `tftp_get` | 1.4 million | a load that succeeds has the whole file in place; nothing is acknowledged before it is stored (`BlocksSound`); every load ends |
| `virtqueue` | 714 632 | descriptors are neither lost nor shared (`RingSound`); refinement of `BufQueue` where stores keep their order; a device does not sleep over a kick whose index was in memory (`KickIsHeard`) |
| `virtqueue_kick` | violation | a buffer that was kicked for may never be taken (`KickedIsTaken`) |
| `net_loop` | 679 794 | the packet that waits for ARP is kept (`PacketSafe`); success means an answer or a claimed address; no interface is tried twice; pings end |
| `fastboot_udp` | 318 303 | no command runs twice (`RunsSound`); a clean session gets its own answers and its whole image; a host that waits is answered |
| `device` | 841 390 | parents before children, data and numbers with the device, recursion ends, DMA off at hand-over |
| `dhcp` | 105 981 | the address in use was asked for in this try, of the server it is remembered with (`LeaseSound`); the reply to the last request is heard, and to all until the cache is full (`RecentKept`); an operation ends; one that retries gets an address |

Each property has a mutant in `PROJECT.json`: a definition with a plausible
bug, kept beside the right one ("Mutated form"), with which TLC finds the
property violated.  The two runs
that expect a violation show a disagreement of section 7, and have a finding
each.  A name that ends in `Sound`, `Safe` or `Place` is the
module's type invariant together with the named parts it lists.

Bounds.  *Environment*: two values to save and the default are enough to tell
the last one saved from any other; `FlagMax` is 4 instead of 255 on MMC, so
that the serial number wraps within a few saves (its comparison looks at 0 and
`FlagMax` only; the proofs hold for every `FlagMax >= 2`), and 255 in flash,
where the values themselves matter.  The number of saves, failures and boots is
not bounded.  *Drivers*, in the same run as MMC, with whose store they share
no state (`MCEnvMmc` takes a step of one or the other): three locations, so that a loop has a first, an inner
and a last.  *Block cache*: two devices of different block size, one with two
hardware partitions; two blocks, so that runs overlap, contain each other and
are disjoint; limits 0 to 2, so that the cache is off, full and evicting.
*TFTP*: five units in blocks of one or two and numbers modulo 3, so that the
number wraps in the middle with both block sizes; memory full, too small and
large enough; one timeout allowed and one retry; two ports of the server, one per
request that may be served; two packets in flight each way (`ChanLen`; what
does not fit is lost).  A run under `Retries = 1` has leftovers of the first
try meet the second.

*Virtqueue*: two descriptors and indices modulo 4, so that ring and indices
wrap at different times; one buffer of two parts and two of one.  *Network
loop*: three interfaces, so that some are skipped, fail and work; two ARP
tries, two probes and one announcement.  *Fastboot*: numbers modulo 5, two
sessions and at most two commands (`MaxSeq = 4` counts an INIT and the two
packets of each command), so that one may leave the server half-way and the
other find it there; downloads of two packets; a packet is
lost or delivered again until one newer one was sent.  *Driver model*: four possible
devices and so numbers below `DM_MAX_SEQ = 5`; a bus
with a device and a hub, and on the hub a second device of the first's uclass,
which all others probe themselves; the sequence of calls is not bounded.
*DHCP*: the cache of four ids of the code, five requests in a try, so that it
overflows, and replies up to three requests late; two servers.

Fairness.  `net_loop()` is one endless loop and time passes: in `TftpGet`,
`NetLoop`, `Dhcp` the loop goes on, and a timer that is set runs out, in
`NetLoop` unless ARP sets it back for ever.  Nothing is assumed of peers or the
network, except where the property is that they are heard: `GetsLease` supposes
(as its premise, `ServerAnswers`) that an interface that starts has its turn
again and again, and that replies which are due again and again are received;
`FastbootUdp` that a repeated packet arrives in the end and so does one of its
answers.  `VirtQueue` supposes that a device which is awake goes on, that a
driver which began to add or to kick finishes the call, and that a store
reaches memory.  `Device` supposes that hooks return.  The environment and
cache modules state safety only.

`CHECK_DEADLOCK FALSE` stands where the program stops: `env_init()` that fails
hangs the board, `net_loop()` returns, and after the operating system was
started no device is used.

## 5. Proofs

`EnvRedund_proofs` has the lemmas about copies: `SerialOrder` (a serial number
and its successor are told apart rightly for every `FlagMax >= 2`),
`NewCopyPicked`, `TornCopyIgnored`, `ImportClean`.

`EnvMmc_proofs`: `TypeCorrect` and `OneGoodAlwaysKept` hold whatever the card
reports.  The others are about cards without errors (`errors = {}`; with reads
or writes that fail it is false that a boot finds the environment, section 7).
`Durable` is not inductive, for it does not say that the copy in RAM's `env_valid` is the one a boot picks, nor that
`env_flags` is that copy's number.  `IInv` adds both.  From it follow
`DurableAlways`, `LiveNeverOverwritten`, and with the step lemma
`StoreKeepsPromise`, the refinement.  The module also holds the proofs about
`EnvDriver`, which chooses the storage, for any number of locations and any
drivers: `PlaceInv` says that the first bad CRC seen is of the highest priority
(`BestSoFar`), and that a load which found nothing leaves `env_load_prio` there;
this is what `env_get_location()` of a later save relies on.  Proved:
`SavesAtRightPlace`.

`EnvSf_proofs` needs no assumption about faults.  After a failed save a good
copy may stand next to the one in use, and the retry erases it; `IInv`
therefore says that the copy in use holds what was last saved or loaded
(`Kept`) and that the other one either loses or holds an environment whose save
was begun (`Harmless`).  Proved: `TypeCorrect`, `DurableAlways`,
`NeighbourAlwaysKept`, `StoreKeepsPromise`.

`EnvFlash_proofs` has the same two, with `flash_addr` in place of `env_valid`;
but the repairs of a load, interrupted or failing, leave flags that only further
facts order: which flags a good copy can have (`FlagsKnown`: those of a tool's
image only in the first copy), and that the copy about to be erased was marked
obsolete before unless a write failed (`OtherObsolete`).  Proved:
`NeighbourAlwaysSafe`, `DurableAlways`, `OneActiveAlways`, and for boards that
are not `silent` `StoreKeepsPromise`: there a save returns 0 exactly when it
was done.

`BlkCache_proofs`: lemmas say what the three ways to change the list do to it,
moving a node to its head, dropping its tail and filtering it (`Without`).  That
filter is a recursive function; the lemma about it, and others by induction,
go through a least counterexample (`LeastNatural`), for the provers cannot
instantiate a theorem that takes an operator.  Proved: `ListAlwaysSound`,
`CacheStaysCoherent`, for any limits and lengths of the list.

`NetLoop_proofs` is about four modules.  *`NetLoop`*: operations
inherit static variables, so that the invariant says above all what one may not
find of the one before: a handler, an outcome, a count.  `NeverTriedTwice` is
an argument about a ring, in which interfaces are counted from the one that
failed first.  Proved besides:
`PacketAlwaysSafe`, `PingAlwaysAnswered`, `AddressAlwaysClaimed`, for any number
of interfaces, retries, probes and announcements.

*`Dhcp`*: `LeaseInv` ties the ids remembered to the requests counted: an id is
an age, and each age in `bootp_ids` is below `sent`, or the id is of an earlier
command and too old to be answered.  `AddIdKeeps` says that the array stays
within its size and gains no id but the new one, even with `memmove()` given
words for bytes.  `LeaseAlwaysSound` follows for any number of servers, size of
the cache and number of retries.  `RecentAlwaysKept` follows from what `AddId` does
to its first and last entries, for machines of any word length: until the cache
overflows the ids stand in the order of their requests, and the newest is the
last entry ever after.

*`TftpGet`*, when packets of one port keep their order (`~Reorder`): the
invariant says what lies between the client and each server.  To a server that
has come to block `k` belong packets of the last two blocks only, the older ones
first (`Channel`), and an acknowledgement of `k` only once `k` is in memory; the
client is at `k` or one behind, with `wrap_offset` counting the wraps before it
(`Loading`); and of the servers on the port in use one was answered (`Fresh`).
Two blocks in a row are told apart by their numbers for every range of at least
two, which is all the client's comparison needs.  With `Reorder` it does not
hold (section 7).  Proved: `BlocksAlwaysSound`, `FileAlwaysWhole`, for any file
length, block sizes, memory, retries and length of the channels.

*`FastbootUdp`*: what is under way is at most `Lifetime` older than the host's
last packet and the server at most `MaxInfos + 1` ahead of it (`NumbersAgree`),
fewer than `SeqNumbers` together, so that two numbers that are equal on the
wire are equal.  That a command which waits was not run, and one that was has
an old number (`RunsAreOld`), gives `NoCommandTwice`.  For `AnswerAlwaysOwn`
the invariant follows a session that began clean (`SessionClean`): how far the
server has come with the host's command, its text not heard, or left, or the
command run, refused, loading or loaded, and for each what the answer with each
number can be (`AnswerFits`), late ones included.

`Device_proofs`: calls nest to any depth, so that the invariant is about the
stack as a whole, numbered from its base: what a frame can be, which calls it
may wait for, and what a device that is met again was left in by the call
further out.  Two facts carry it.  The device of a running probe, and all above
it, were active when an inner call began whose own device was not (`Apart`), so
that an inner probe ends with its own device's data; and a waiting probe loses
its private data only to one of the failures the code does not undo (`Doomed`,
`Reenters`).  That removal at hand-over reaches every device is by the
assumption that devices form a tree: of the set still to be reached, some
device's parent is not in it.  Proved: `SeqsDifferHolds`, `ParentsFirstHolds`,
`DataWithDeviceHolds`, `QuietAtHandOverHolds`, `NestingSoundHolds`.

`VirtQueue_proofs`: the free list and the chains are threaded through one table
of descriptors, and functions that walk it say little by themselves; the
invariant names the lists (`Shape`: one for the free descriptors, one for each
buffer lent), lemmas say how adding and detaching change them, and what the code
walks is then one of them (`WalkOfList`, `ChainFound`).  The rings are the other
half.  Each head in flight is in one place, half added, in the available ring,
with the device, or in the used ring (`HeadsApart`), so that a ring never holds
all `Num` of them when one more is to be written: an entry is not overwritten
before it was read, though nothing in the code compares indices.  Indices that
wrap still meet the right slot, for `Num` divides `IdxMod`.  Proved:
`RingAlwaysSound` and, on top of the same invariant, the refinement
`QueueImplemented`: the store of `avail->idx` that reaches memory adds to the
queue.  Both assume `KeepsOrder`, by which the entry of the ring and the
descriptors of its chain are in memory before the index (`Arrived`), as the
empty `virtio_wmb()` does not ensure; without it a device takes heads that are
not in flight.  `KickAlwaysHeard` does not: its invariant is about the indices
alone, and says that what memory lacks, and what a sleeping device lacks, was
added since the last kick.

Assumptions of the proofs are those of the modules: the default environment is
not one a user saves, `FlagMax >= 2` (in flash 255), Boolean switches; block
sizes, limits, retries and interfaces are numbers, at least 1 where the code
needs one; devices form a finite tree below the root, and a sequence number
asked for is -1 or more; the size of a ring divides the range of its indices
and is less, and a buffer has a part; `memmove()` moves no more ids than there
are, and no server is called "none"; block numbers have at least two values;
fastboot's sequence numbers have more than `Lifetime + MaxInfos + 2` (2^16,
against a few packets).

Every invariant and action property of the runs, and every refinement, is a
theorem.  Only model-checked is liveness (`Ends`, `PingEnds`, `DhcpEnds`,
`HostGoesOn`, `CallsReturn`, `GetsLease`): fairness and ENABLED are out of the
provers' reach.

What the proofs corrected.  `wrap_offset` of `TftpGet` was typed as at most
`FileLen + BigBlock`, true in the run but not for a `blksize` option smaller
than the default block; `TftpTypeOK` now bounds it by either size.

## 6. Not modelled, and why

* Text of environments, CRC arithmetic, strings of options: data the properties
  do not tell apart.  The CRC is taken to be right.
* Register-level drivers, formats on disk, third-party libraries, the command
  line, boards: see the components with status `not_modelled`.
* Not reached yet, and worth a module (section 2): sending by TFTP, GPT, DFU,
  the boot counter, the hash table, `lmb`, the environment on other media.  Seen
  while reading them: `tftpput` never updates `tftp_prev_block`, so that it does
  not see its block number wrap (`net/tftp.c:450`); `lmb` joins a region to its
  neighbour before it sees that it overlaps the next (`lib/lmb.c:159`); a
  callback may refuse a variable after its entry was made
  (`lib/hashtable.c:273`); DFU's block numbers wrap at 16 bits
  (`drivers/dfu/dfu.c:267`).

## 7. Known disagreements

What a comment, a document or a return value promises and the code does not
keep.  The models do what the code does; a property of a run excepts these
cases by name or by a constant.  Two of them are the runs that expect a
violation; where a `.cfg` and a definition are named, TLC shows the case with
them, outside the runs.

*Environment.*
* A save that fails on MMC has counted the serial number up
  (`env/common.c:217`) and is not taken back.  Retried at the wrap it skips a
  number (254, then 0), and the next boot takes the older copy, though the
  retried save returned 0 (`include/environment.h:224`, "@return 0 if OK").
  `MCEnvMmcWriteError.cfg`, `Finds`.
* A boot that could read one copy only does not take over its serial number
  (`env/common.c:157`); the next save is older than the other copy.
  `MCEnvMmcReadError.cfg`, `Finds`.
* `env_flash_save()` returns 0 after a failed `malloc()`, erasure or writing
  back of `saved_data` (`env/flash.c:150`, `:166`, `:187`), against the same
  "@return 0 if OK"; sectors that cannot be unprotected are reported.  Run
  `env_flash_success`.
* A save in flash that fails after the erasure has lost what else was in the
  sector.  `NeighbourKept` and `NeighbourSafe` except this case.

*Block cache.*  `blk_get_device_by_str()` does not call `part_init()` when it
goes back to hardware partition 0, "since it is default and already loaded"
(`disk/part.c:415-420`): the cache still holds blocks of the other one.
`MCBlkCacheSelect.cfg`, `SelectKeepsCoherent`.

*TFTP.*  Block number 0 "means that there was a wrap around" (`net/tftp.c:277`);
a copy of block 0 that arrives after block 1 counts as another.
`MCTftpGetReorder.cfg`, `ZeroIsWrap`.

*Virtio.*
* "Having these as nops is enough to work as expected"
  (`include/virtio_ring.h:298`).  On a machine that lets a load pass an earlier
  store, `virtqueue_kick()` reads what the device asked for before the device
  can see the new index, and both wait for each other: run `virtqueue_kick`.
  On one that lets stores pass each other, as ARM does, the device may find the
  new index before the entry or the descriptors, and take another buffer:
  `MCVirtQueueWeak.cfg`, `QueueSpec`.
* `virtio_net_free_pkt()` gives its buffer back without a kick.

*Network loop.*
* `link_local_receive_arp()` is called from nowhere: conflicts are not noticed.
  A random delay of 0 in `configure_wait()` cancels the timer
  (`net/link_local.c:94`), and the search ends only by ctrl-C; `PingEnds` is
  therefore about pings.
* A late echo reply ends whatever operation runs, with success
  (`net/ping.c:87`).
* `net_start_again()` called for `NETLOOP_FAIL` leaves that state when it only
  sets its 10 s timer (`net/net.c:732`): with `netretry` "yes" and one
  interface there is no second try.  `netretry` "once" tries two interfaces,
  not "all the available network interfaces" (`README:3716`).
* ARP that gives up leaves the address waited for (`net/arp.c:114`), and
  `net_restart_wrap` may be left by an earlier operation.

*DHCP.*
* `bootp_add_id()` moves the full cache by the size of a `ulong`, not of an id
  (`net/bootp.c:96`): on a 64-bit machine the fifth request of a try makes
  `[a, b, c, d]` into `[b, c, c, e]`, and the reply to `d` is not heard, though
  "the default is to keep IDs for up to four outstanding requests"
  (`README:1447`).  `MCDhcpOutstanding.cfg`, `OutstandingKept`; `RecentKept`
  says what is left of it.
* Options of an offer (a gateway) stay when the server whose acknowledgement is
  taken does not send them.

*Fastboot.*
* After the wrap `sequence_number - 1` is -1, so that a repeated packet 65535 is
  not answered (`net/fastboot.c:300`); an INFO packet that was lost is not
  repeated, nor is an answer after somebody else's QUERY.  `HostGoesOn` excepts
  the three.
* A session that was given up leaves its command; the next session runs it
  first (`clean`).

*Driver model.*
* When a removal fails, `device_remove()` returns what
  `uclass_post_probe_device()` returns, perhaps 0 (`device-remove.c:209`): the
  parent is then removed over an active child, "it is not permitted"
  (`doc/driver-model/README.txt:747`).  A failing `child_post_remove()` makes
  it return an error although the device is removed.  `ParentsFirst`,
  `DataWithDevice` and `QuietAtHandOver` except what follows such a removal.
* `dm_remove_devices_flags()` removes DMA devices and leaves others below them
  active, so that `ParentsFirst` ends at hand-over (`~handed`).
* A probe that fails after its hook probed a child leaves the child active.  A
  nested probe of the same device that fails frees the private data of the
  outer one, which goes on.
* `device_unbind()` frees the platdata before the uclass may refuse
  (`device-remove.c:98`); a bind that fails after its hook bound children
  leaves them with a parent that is freed, and stays in the list of its uclass,
  freed itself, if `uclass_unbind_device()` fails too (`device.c:176-190`).
