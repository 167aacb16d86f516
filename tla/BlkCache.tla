------------------------------ MODULE BlkCache ------------------------------
(***************************************************************************)
(* The block cache (drivers/block/blkcache.c) and the block devices in     *)
(* front of which it stands (drivers/block/blk-uclass.c): a list of runs   *)
(* of blocks, most recently used first, looked up by device number and     *)
(* discarded for a whole device whenever it is written.                    *)
(*                                                                         *)
(* An eMMC has hardware partitions: the same device number and the same    *)
(* block numbers mean other data when another one is selected.             *)
(*                                                                         *)
(* Abstractions: the content of a hardware partition is one value, for     *)
(* the cache tells nothing smaller than a device apart when it discards;   *)
(* a block of a device is Blksz[d] units long, and a buffer is its length. *)
(***************************************************************************)
EXTENDS Naturals, Sequences, SequencesExt

CONSTANTS
  Devs,        \* block devices, (if_type, devnum)
  HwParts,     \* hardware partitions of each; 0 is the user area
  NumBlocks,   \* blocks of each hardware partition
  Blksz,       \* block size of each device
  Contents,    \* what a hardware partition may hold
  Limits       \* the values "blkcache configure" is given

ASSUME BlkAssumption ==
  /\ 0 \in HwParts
  /\ NumBlocks \in Nat \ {0}
  /\ Blksz \in [Devs -> Nat \ {0}]
  /\ Limits \subseteq Nat

VARIABLES
  content,     \* what each hardware partition holds
  hwpart,      \* blk_desc.hwpart
  cache,       \* block_cache, from the head of the list
  entries, max_entries, max_blocks_per_entry   \* _stats

limits == <<max_entries, max_blocks_per_entry>>
vars == <<content, hwpart, cache, entries, limits>>

\* What the device holds now, as far as it can be read.
Device(d) == content[d][hwpart[d]]

\* struct block_cache_node; "data" is what was read, "room" the size of the
\* buffer malloc() returned.  "from" is history: the hardware partition that
\* was read, which the code does not keep.
Runs == {r \in (0 .. NumBlocks - 1) \X (1 .. NumBlocks) :
           r[1] + r[2] <= NumBlocks}
Node(d, r, room) ==
  [dev |-> d, start |-> r[1], blkcnt |-> r[2], data |-> Device(d),
   room |-> room, from |-> hwpart[d]]

Init ==
  /\ content \in [Devs -> [HwParts -> Contents]]
  /\ hwpart = [d \in Devs |-> 0]
  /\ cache = <<>>
  /\ entries = 0
  /\ max_entries \in Limits
  /\ max_blocks_per_entry \in Limits

-----------------------------------------------------------------------------
\* The test of cache_find(); the block size is the device's.
Covers(node, d, r) ==
  /\ node.dev = d
  /\ node.start <= r[1]
  /\ node.start + node.blkcnt >= r[1] + r[2]

Hits(d, r) == {i \in DOMAIN cache : Covers(cache[i], d, r)}

\* blkcache_read() finds the first node that covers the run, and moves it to
\* the head of the list.
Hit(d, r) ==
  /\ \E i \in Hits(d, r) :
       /\ \A j \in Hits(d, r) : i <= j
       /\ cache' = <<cache[i]>> \o RemoveAt(cache, i)
  /\ UNCHANGED <<content, hwpart, entries, limits>>

\* Mutated form: a dropped node's buffer is kept whatever its size.
Reusable_Always(node, bytes) == TRUE

\* Is the buffer of a dropped node kept?  What is compared is what the node
\* held last, not the size of its buffer.
Reusable(node, bytes) == node.blkcnt * Blksz[node.dev] >= bytes

\* blkcache_fill() after a read that missed; a malloc() may fail.  When the
\* list is full the last node is dropped, and it and maybe its buffer reused.
Fill(d, r) ==
  LET bytes == Blksz[d] * r[2]
      full == max_entries <= entries
      kept == IF full THEN Front(cache) ELSE cache
      reused == full /\ Reusable(Last(cache), bytes)
      room == IF reused THEN Last(cache).room ELSE bytes
  IN IF r[2] > max_blocks_per_entry \/ max_entries = 0
     THEN UNCHANGED <<cache, entries>>
     ELSE \/ /\ cache' = <<Node(d, r, room)>> \o kept
             /\ entries' = IF full THEN entries ELSE entries + 1
          \/ /\ ~reused
             /\ cache' = kept
             /\ entries' = IF full THEN entries - 1 ELSE entries

\* blk_dread(): a hit never reaches the device; a read that fails or is short
\* fills nothing.
Read(d, r) ==
  \/ Hits(d, r) # {} /\ Hit(d, r)
  \/ /\ Hits(d, r) = {}
     /\ Fill(d, r)
     /\ UNCHANGED <<content, hwpart, limits>>

\* The nodes of a list that are not of device d, in order
Without(nodes, d) ==
  LET kept[n \in 0 .. Len(nodes)] ==
        IF n = 0 THEN <<>>
        ELSE IF nodes[n].dev = d THEN kept[n - 1]
        ELSE Append(kept[n - 1], nodes[n])
  IN kept[Len(nodes)]

\* blkcache_invalidate()
Invalidate(d) ==
  /\ cache' = Without(cache, d)
  /\ entries' = entries - (Len(cache) - Len(Without(cache, d)))

\* Mutated form: a write leaves the cache alone.
Write_NoInvalidate(d) ==
  /\ \E v \in Contents :
       content' = [content EXCEPT ![d][hwpart[d]] = v]
  /\ UNCHANGED <<hwpart, cache, entries, limits>>

\* blk_dwrite() and blk_derase(): the cache is invalidated before the device
\* is written, whether the write works, fails half-way or does not start.
Write(d) ==
  /\ Invalidate(d)
  /\ \E v \in Contents :
       content' = [content EXCEPT ![d][hwpart[d]] = v]
  /\ UNCHANGED <<hwpart, limits>>

\* blk_select_hwpart() by env/mmc.c and by get_dev_hwpart() for partition 0
Select(d, p) ==
  /\ hwpart' = [hwpart EXCEPT ![d] = p]
  /\ UNCHANGED <<content, cache, entries, limits>>

\* blk_get_device_by_str() of partition p: part_init() follows when p # 0.
\* "mmc dev" invalidates first and then selects.
SelectAndInit(d, p) ==
  /\ hwpart' = [hwpart EXCEPT ![d] = p]
  /\ Invalidate(d)
  /\ UNCHANGED <<content, limits>>

\* blkcache_configure()
Configure(blocks, number) ==
  /\ IF blocks # max_blocks_per_entry \/ number # max_entries
     THEN cache' = <<>> /\ entries' = 0
     ELSE UNCHANGED <<cache, entries>>
  /\ max_blocks_per_entry' = blocks
  /\ max_entries' = number
  /\ UNCHANGED <<content, hwpart>>

Next ==
  \/ \E d \in Devs, r \in Runs : Read(d, r)
  \/ \E d \in Devs : Write(d)
  \/ \E d \in Devs, p \in HwParts : Select(d, p)
  \/ \E d \in Devs, p \in HwParts : SelectAndInit(d, p)
  \/ \E blocks, number \in Limits : Configure(blocks, number)

Spec == Init /\ [][Next]_vars

-----------------------------------------------------------------------------
\* Every variable has its type, and every node is a run of blocks of a device.
TypeOK ==
  /\ content \in [Devs -> [HwParts -> Contents]]
  /\ hwpart \in [Devs -> HwParts]
  /\ entries \in Nat
  /\ max_entries \in Limits
  /\ max_blocks_per_entry \in Limits
  /\ \A i \in DOMAIN cache :
       /\ cache[i].dev \in Devs
       /\ <<cache[i].start, cache[i].blkcnt>> \in Runs
       /\ cache[i].data \in Contents
       /\ cache[i].room \in Nat
       /\ cache[i].from \in HwParts

\* What the cache holds of a hardware partition is what that partition holds:
\* whichever one is selected when the device is written, no write, erase, hit,
\* eviction or change of limits leaves an outdated node behind.
Coherent ==
  \A i \in DOMAIN cache :
    cache[i].data = content[cache[i].dev][cache[i].from]

\* _stats.entries counts the list and stays within max_entries: blkcache_fill()
\* drops the last node by this count alone, without looking whether there is
\* one.
CountMatches == entries = Len(cache) /\ entries <= max_entries

\* A node's buffer holds its blocks, although buffers are handed on between
\* devices of different block sizes and the test compares what the node held,
\* not what its buffer can hold.
FitsBuffer ==
  \A i \in DOMAIN cache :
    cache[i].blkcnt * Blksz[cache[i].dev] <= cache[i].room

\* No run of blocks is cached twice: a node is added only when no other holds
\* all its blocks, and neither moving nodes to the head nor dropping them from
\* the tail ever leaves a node behind an older one that makes it useless.
NoDuplicates ==
  \A i, j \in DOMAIN cache :
    i < j /\ cache[i].dev = cache[j].dev =>
      \/ cache[i].start < cache[j].start
      \/ cache[i].start + cache[i].blkcnt > cache[j].start + cache[j].blkcnt

\* "Does not need to be done for hwpart 0 since it is default and already
\* loaded" (blk_get_device_by_str()): selecting a hardware partition without
\* part_init() leaves no data of the one selected before in the cache.
SelectKeepsCoherent == \A i \in DOMAIN cache : cache[i].data = Device(cache[i].dev)

\* What holds in every state: types, count, buffers, and no run of blocks
\* twice (blkcache_fill, blkcache_configure, blkcache_invalidate).
ListSound == TypeOK /\ CountMatches /\ FitsBuffer /\ NoDuplicates
=============================================================================
