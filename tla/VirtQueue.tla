----------------------------- MODULE VirtQueue ------------------------------
(***************************************************************************)
(* One virtqueue (drivers/virtio/virtio_ring.c) between a driver and its   *)
(* device.  The driver fills descriptors from a free list that is threaded *)
(* through them, names the first in the available ring and moves           *)
(* avail->idx; the device names finished chains in the used ring, in any   *)
(* order.  The indices run freely modulo IdxMod (2^16 in the code) and are *)
(* masked by the size of the ring.                                         *)
(*                                                                         *)
(* The device polls the ring while it finds work, then asks for a          *)
(* notification, looks once more, and sleeps until the driver kicks it.    *)
(*                                                                         *)
(* The driver's stores reach memory, where the device reads, some time     *)
(* after they are made.  virtio_wmb() and virtio_mb() should order them,   *)
(* but are empty in this code (include/virtio_ring.h): the order is the    *)
(* machine's, and KeepsOrder says whether it is that of the program, as on *)
(* x86, or none, as on ARM.  On either a load may pass an earlier store.   *)
(* That a load may also pass an earlier load, against virtio_rmb(), is     *)
(* left out.                                                               *)
(***************************************************************************)
EXTENDS Integers, Sequences, FiniteSets, Functions

CONSTANTS
  Num,       \* vring.num: descriptors, and entries of each ring
  IdxMod,    \* the indices are taken modulo this
  Buffers,   \* what the driver may add
  Size,      \* of each buffer: its scatter-gather parts, out_sgs + in_sgs
  Outgoing,  \* the buffers with out_sgs > 0
  KeepsOrder \* do stores reach memory in the order of the program?

\* vring_create_virtqueue() wants a power of two, so that it divides 2^16
ASSUME VirtQueueAssumption ==
  /\ Num \in Nat \ {0}
  /\ IdxMod \in Nat /\ IdxMod > Num /\ IdxMod % Num = 0
  /\ Size \in [Buffers -> Nat \ {0}]
  /\ Outgoing \subseteq Buffers
  /\ KeepsOrder \in BOOLEAN

Desc == 0 .. Num - 1
Idx == 0 .. IdxMod - 1

VARIABLES
  desc,              \* the descriptors: address, next, VRING_DESC_F_NEXT
  free_head, num_free,
  ring,              \* avail->ring
  avail_idx_shadow, num_added, last_used_idx,
  avail_idx,         \* avail->idx in memory
  seen,              \* desc and ring in memory
  event,             \* VIRTIO_RING_F_EVENT_IDX was negotiated
  pc,                \* the driver: "ready", "filled" or "kick"
  lent,              \* the driver's own record of the buffers it added
  \* The device.
  used, used_idx,    \* used->ring and used->idx
  avail_event, no_notify,  \* what it asks for: used->ring[num], used->flags
  dev_idx,           \* the entry of avail->ring it takes next
  held,              \* the heads of the chains it works on
  dev,               \* "poll", "asked" or "sleep"
  notified,          \* a notification it has not seen yet
  \* History: avail->idx was in memory at every kick.
  in_time

driverVars == <<desc, free_head, num_free, ring, avail_idx_shadow, num_added,
                last_used_idx, event, lent>>
deviceVars == <<used, used_idx, avail_event, no_notify, dev_idx, held>>
memoryVars == <<avail_idx, seen>>
vars == <<driverVars, memoryVars, pc, deviceVars, dev, notified, in_time>>

Slot(i) == i % Num
Plus(i, n) == (i + n) % IdxMod

\* The descriptors met from d on, following next in a table of them
FromIn(table, d) ==
  LET at[k \in 0 .. Num] == IF k = 0 THEN d ELSE table[at[k - 1]].next
  IN at

\* The descriptors of the chain that starts at d, in order
ChainIn(table, d) ==
  LET at == FromIn(table, d)
      last == CHOOSE k \in Desc : /\ ~table[at[k]].more
                                  /\ \A j \in 0 .. k - 1 : table[at[j]].more
  IN [k \in 1 .. last + 1 |-> at[k - 1]]

\* Does every chain end?  ChainIn(table, d) means nothing otherwise.
EndsIn(table, d) == \E k \in Desc : ~table[FromIn(table, d)[k]].more

\* The same, as the driver sees them
From(d) == FromIn(desc, d)
Chain(d) == ChainIn(desc, d)
Ends(d) == EndsIn(desc, d)

\* The buffer b as virtqueue_add() is given it
Whole(b) == [k \in 1 .. Size[b] |-> <<b, k>>]

\* __vring_new_virtqueue(), and a device that was just started
Init ==
  /\ desc = [d \in Desc |-> [addr |-> <<>>, more |-> FALSE,
                             next |-> IF d = Num - 1 THEN 0 ELSE d + 1]]
  /\ free_head = 0 /\ num_free = Num
  /\ ring = [s \in Desc |-> 0]
  /\ avail_idx_shadow = 0 /\ num_added = 0 /\ last_used_idx = 0
  /\ avail_idx = 0 /\ seen = [desc |-> desc, ring |-> ring]
  /\ event \in BOOLEAN
  /\ pc = "ready"
  /\ lent = {}
  /\ used = [s \in Desc |-> 0] /\ used_idx = 0
  /\ avail_event = 0 /\ no_notify = FALSE
  /\ dev_idx = 0 /\ held = {}
  /\ dev = "poll" /\ notified = FALSE
  /\ in_time = TRUE
-----------------------------------------------------------------------------
\* virtqueue_add() up to its write barrier: descriptors, free list, ring
Fill(b) ==
  /\ pc = "ready"
  /\ b \notin lent
  /\ num_free >= Size[b]
  /\ LET at == From(free_head) IN
       /\ desc' = [d \in Desc |->
            IF \E k \in 0 .. Size[b] - 1 : at[k] = d
            THEN LET k == CHOOSE j \in 0 .. Size[b] - 1 : at[j] = d
                 IN [addr |-> <<b, k + 1>>, more |-> k < Size[b] - 1,
                     next |-> desc[d].next]
            ELSE desc[d]]
       /\ free_head' = at[Size[b]]
  /\ num_free' = num_free - Size[b]
  /\ ring' = [ring EXCEPT ![Slot(avail_idx_shadow)] = free_head]
  /\ lent' = lent \cup {b}
  /\ pc' = "filled"
  /\ UNCHANGED <<avail_idx_shadow, num_added, last_used_idx, event, memoryVars,
                 deviceVars, dev, notified, in_time>>

\* The rest of it: avail->idx is stored, and a full num_added kicks
Publish ==
  /\ pc = "filled"
  /\ avail_idx_shadow' = Plus(avail_idx_shadow, 1)
  /\ num_added' = num_added + 1
  /\ pc' = IF num_added' = IdxMod - 1 THEN "kick" ELSE "ready"
  /\ UNCHANGED <<desc, free_head, num_free, ring, last_used_idx, event, lent,
                 memoryVars, deviceVars, dev, notified, in_time>>

\* The stores to descriptors and to avail->ring reach memory
Arrive ==
  /\ seen' = [desc |-> desc, ring |-> ring]
  /\ seen' # seen
  /\ UNCHANGED <<driverVars, avail_idx, pc, deviceVars, dev, notified, in_time>>

\* The entry s of the ring, and the chain it names, are in memory
Arrived(s) ==
  /\ seen.ring[s] = ring[s]
  /\ \A k \in DOMAIN Chain(ring[s]) :
       seen.desc[Chain(ring[s])[k]] = desc[Chain(ring[s])[k]]

\* The store of avail->idx reaches memory
Drain ==
  /\ avail_idx # avail_idx_shadow
  /\ KeepsOrder => Arrived(Slot(avail_idx))
  /\ avail_idx' = Plus(avail_idx, 1)
  /\ UNCHANGED <<driverVars, seen, pc, deviceVars, dev, notified, in_time>>

\* virtqueue_add() returns -ENOSPC
NoSpace(b) ==
  /\ pc = "ready"
  /\ b \notin lent
  /\ num_free < Size[b]
  /\ notified' = (notified \/ b \in Outgoing)
  /\ UNCHANGED <<driverVars, memoryVars, pc, deviceVars, dev, in_time>>

\* Mutated form: indices are compared without regard to their wrap.
NeedEvent_NoWrap(event_idx, new, old) == new > event_idx /\ event_idx >= old

\* vring_need_event()
NeedEvent(event_idx, new, old) ==
  (new - event_idx - 1) % IdxMod < (new - old) % IdxMod

\* virtqueue_kick()
Kick ==
  /\ pc \in {"ready", "kick"}
  /\ LET old == (avail_idx_shadow - num_added) % IdxMod
         needs_kick == IF event
                       THEN NeedEvent(avail_event, avail_idx_shadow, old)
                       ELSE ~no_notify
     IN notified' = (notified \/ needs_kick)
  /\ in_time' = (in_time /\ avail_idx = avail_idx_shadow)
  /\ num_added' = 0
  /\ pc' = "ready"
  /\ UNCHANGED <<desc, free_head, num_free, ring, avail_idx_shadow,
                 last_used_idx, event, lent, memoryVars, deviceVars, dev>>

\* Mutated form: the head, not the last of the chain, links to the free list.
GetBuf_LinksHead ==
  /\ pc = "ready"
  /\ last_used_idx # used_idx
  /\ LET head == used[Slot(last_used_idx)]
     IN /\ desc' = [desc EXCEPT ![head].next = free_head]
        /\ free_head' = head
        /\ num_free' = num_free + Len(Chain(head))
        /\ lent' = lent \ {desc[head].addr[1]}
  /\ last_used_idx' = Plus(last_used_idx, 1)
  /\ UNCHANGED <<ring, avail_idx_shadow, num_added, event, memoryVars, pc,
                 deviceVars, dev, notified, in_time>>

\* Mutated form: the used entry is taken by the order of adding.
GetBuf_InOrder ==
  /\ pc = "ready"
  /\ last_used_idx # used_idx
  /\ LET head == ring[Slot(last_used_idx)]
         chain == Chain(head)
         last == chain[Len(chain)]
     IN /\ desc' = [desc EXCEPT ![last].next = free_head]
        /\ free_head' = head
        /\ num_free' = num_free + Len(chain)
        /\ lent' = lent \ {desc[head].addr[1]}
  /\ last_used_idx' = Plus(last_used_idx, 1)
  /\ UNCHANGED <<ring, avail_idx_shadow, num_added, event, memoryVars, pc,
                 deviceVars, dev, notified, in_time>>

\* virtqueue_get_buf() with its detach_buf(), when more_used().  The device
\* names only heads it was given, so that no id is found out of range.
GetBuf ==
  /\ pc = "ready"
  /\ last_used_idx # used_idx
  /\ LET head == used[Slot(last_used_idx)]
         chain == Chain(head)
         last == chain[Len(chain)]
     IN /\ desc' = [desc EXCEPT ![last].next = free_head]
        /\ free_head' = head
        /\ num_free' = num_free + Len(chain)
        /\ lent' = lent \ {desc[head].addr[1]}
  /\ last_used_idx' = Plus(last_used_idx, 1)
  /\ UNCHANGED <<ring, avail_idx_shadow, num_added, event, memoryVars, pc,
                 deviceVars, dev, notified, in_time>>
-----------------------------------------------------------------------------
\* The device takes the next chain
Take ==
  /\ dev = "poll"
  /\ dev_idx # avail_idx
  /\ held' = held \cup {seen.ring[Slot(dev_idx)]}
  /\ dev_idx' = Plus(dev_idx, 1)
  /\ UNCHANGED <<driverVars, memoryVars, pc, used, used_idx, avail_event,
                 no_notify, dev, notified, in_time>>

\* It has finished with one
Use ==
  /\ \E head \in held :
       /\ used' = [used EXCEPT ![Slot(used_idx)] = head]
       /\ held' = held \ {head}
  /\ used_idx' = Plus(used_idx, 1)
  /\ UNCHANGED <<driverVars, memoryVars, pc, avail_event, no_notify, dev_idx,
                 dev, notified, in_time>>

\* It found nothing more, and asks to be notified
Ask ==
  /\ dev = "poll"
  /\ dev_idx = avail_idx
  /\ dev' = "asked"
  /\ avail_event' = IF event THEN dev_idx ELSE avail_event
  /\ no_notify' = FALSE
  /\ UNCHANGED <<driverVars, memoryVars, pc, used, used_idx, dev_idx, held,
                 notified, in_time>>

\* It looks once more before it sleeps
Recheck ==
  /\ dev = "asked"
  /\ dev' = IF dev_idx = avail_idx THEN "sleep" ELSE "poll"
  /\ no_notify' = (dev_idx # avail_idx /\ ~event)
  /\ UNCHANGED <<driverVars, memoryVars, pc, used, used_idx, avail_event,
                 dev_idx, held, notified, in_time>>

Wake ==
  /\ dev = "sleep"
  /\ notified
  /\ dev' = "poll"
  /\ notified' = FALSE
  /\ no_notify' = ~event
  /\ UNCHANGED <<driverVars, memoryVars, pc, used, used_idx, avail_event,
                 dev_idx, held, in_time>>

Next ==
  \/ \E b \in Buffers : Fill(b)
  \/ \E b \in Buffers : NoSpace(b)
  \/ Publish \/ Kick \/ GetBuf
  \/ Arrive \/ Drain
  \/ Take \/ Use \/ Ask \/ Recheck \/ Wake

\* Stores reach memory, a handler that has begun ends, the device goes on:
\* it need not finish a chain, and the driver need not call anything.
Fairness ==
  /\ WF_vars(Arrive) /\ WF_vars(Drain)
  /\ WF_vars(Publish)
  /\ WF_vars(pc = "kick" /\ Kick)
  /\ WF_vars(Take) /\ WF_vars(Ask) /\ WF_vars(Recheck) /\ WF_vars(Wake)

Spec == Init /\ [][Next]_vars /\ Fairness
-----------------------------------------------------------------------------
\* The heads named by n entries of a ring from index i on
Named(r, i, n) == [k \in 1 .. n |-> r[Slot(i + k - 1)]]
Apart(i, j) == (j - i) % IdxMod

\* The chains the driver has added and the device has not met, by the head;
\* those of them the device can see; and those it has finished
Added == Named(ring, dev_idx, Apart(dev_idx, avail_idx_shadow))
Waiting == Named(seen.ring, dev_idx, Apart(dev_idx, avail_idx))
Finished == Named(used, last_used_idx, Apart(last_used_idx, used_idx))

Filling == IF pc = "filled" THEN {ring[Slot(avail_idx_shadow)]} ELSE {}
InFlight == Filling \cup Range(Added) \cup held \cup Range(Finished)

FreeList == {From(free_head)[k] : k \in 0 .. num_free - 1}

Descs == [Desc -> [addr : {<<>>} \cup UNION {Range(Whole(b)) : b \in Buffers},
                   more : BOOLEAN, next : Desc]]

\* Every variable has its type.
TypeOK ==
  /\ desc \in Descs
  /\ free_head \in Desc /\ num_free \in 0 .. Num
  /\ ring \in [Desc -> Desc] /\ used \in [Desc -> Desc]
  /\ {avail_idx_shadow, avail_idx, last_used_idx, used_idx, dev_idx,
      avail_event} \subseteq Idx
  /\ num_added \in Idx
  /\ seen \in [desc : Descs, ring : [Desc -> Desc]]
  /\ {event, no_notify, notified, in_time} \subseteq BOOLEAN
  /\ pc \in {"ready", "filled", "kick"}
  /\ dev \in {"poll", "asked", "sleep"}
  /\ lent \subseteq Buffers
  /\ held \subseteq Desc

\* The free list and the chains in flight share out the descriptors: none is
\* lost, however the device orders what it finishes, and none is in two
\* chains, or in one and free (virtqueue_add, detach_buf).
Partition ==
  /\ \A h \in InFlight : Ends(h)
  /\ Cardinality(FreeList) = num_free
  /\ \A h \in InFlight : Range(Chain(h)) \cap FreeList = {}
  /\ \A g, h \in InFlight : g # h => Range(Chain(g)) \cap Range(Chain(h)) = {}
  /\ FreeList \cup UNION {Range(Chain(h)) : h \in InFlight} = Desc

\* The buffers at these heads, as they are read from a table of descriptors
Content(table, heads) ==
  [k \in DOMAIN heads |->
     [j \in DOMAIN ChainIn(table, heads[k]) |->
        table[ChainIn(table, heads[k])[j]].addr]]
Queue == INSTANCE BufQueue WITH
  Buffer <- {Whole(b) : b \in Buffers},
  waiting <- Content(seen.desc, Waiting),
  held <- {Content(seen.desc, <<h>>)[1] : h \in held},
  done <- Content(desc, Finished),
  lent <- {Whole(b) : b \in lent}
\* The ring keeps the promise of BufQueue: the device meets the buffers in
\* order and reads from memory what virtqueue_add() was given, and each comes
\* back once (virtqueue_add, detach_buf, virtqueue_get_buf).  It does where
\* stores reach memory in order: see KeepsOrder.
QueueSpec == Queue!Spec

\* The driver has kicked since it added b, and the device has not met b
Kicked(b) ==
  \E k \in 1 .. Len(Added) - num_added : desc[Added[k]].addr = <<b, 1>>

\* A device does not sleep over a buffer the driver has kicked for without a
\* notification on its way, when every kick came after avail->idx had reached
\* memory: none is lost to indices that have wrapped, to num_added being
\* started over, nor to what a device asks for that is about to sleep
\* (virtqueue_kick_prepare, vring_need_event).
KickIsHeard ==
  (in_time /\ dev = "sleep" /\ \E b \in Buffers : Kicked(b)) => notified

\* Every buffer the driver has kicked for is taken by the device, as
\* include/virtio_ring.h:297 says of barriers that are empty.  It is false: the
\* driver may look at what the device asks for before the new index is in
\* memory, and the device look at the index before it sleeps
\* (virtqueue_kick_prepare).
KickedIsTaken == \A b \in Buffers : Kicked(b) ~> ~Kicked(b)

\* What holds in every state where stores reach memory in order: the types, and
\* every descriptor in one place (virtqueue_add, detach_buf).
RingSound == TypeOK /\ Partition
=============================================================================
