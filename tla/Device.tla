------------------------------- MODULE Device -------------------------------
(***************************************************************************)
(* The life of devices in the driver model (drivers/core/device.c,         *)
(* device-remove.c and what of uclass.c they call): bind, probe, remove    *)
(* and unbind.  All of it is recursive, and nearly every step calls a hook *)
(* of a driver, a parent or a uclass that may fail; the hook of a probe    *)
(* may probe further devices and the hook of a bind may bind children, so  *)
(* a device may be met again half-way through.  The calls under way are a  *)
(* stack of frames, the innermost first; what a hook does besides is left  *)
(* to chance.  Hooks that run one after the other and whose failure leads  *)
(* to the same place are one step.                                         *)
(***************************************************************************)
EXTENDS Integers, Sequences, FiniteSetsExt

CONSTANTS
  Devices,
  Root,     \* the root device, which is always active
  Parent,   \* the parent of each device
  Uclass,   \* its uclass
  ReqSeq,   \* the sequence number an alias asks for, or -1
  DM_MAX_SEQ,  \* what uclass_resolve_seq() tries; the device after that many
               \* gets DM_MAX_SEQ itself, as would the next
  Uses,     \* the devices its hooks probe themselves
  Dma       \* those whose driver has DM_FLAG_ACTIVE_DMA or DM_FLAG_OS_PREPARE

ASSUME DeviceAssumption ==
  /\ IsFiniteSet(Devices) /\ Root \notin Devices
  /\ Parent \in [Devices -> Devices \cup {Root}]
  \* a tree: above the members of any set there is what is not in it
  /\ \A S \in SUBSET Devices : S # {} => \E d \in S : Parent[d] \notin S
  /\ DM_MAX_SEQ \in Nat /\ Cardinality(Devices) < DM_MAX_SEQ
  /\ ReqSeq \in [Devices -> Int] /\ \A d \in Devices : ReqSeq[d] >= -1
  /\ Uses \in [Devices -> SUBSET Devices]
  /\ Dma \subseteq Devices
  /\ DOMAIN Uclass = Devices

VARIABLES
  linked,  \* the devices in the lists of their parent and uclass
  bound,   \* those with DM_FLAG_BOUND
  plat,    \* those whose platdata is allocated
  active,  \* those with DM_FLAG_ACTIVATED
  priv,    \* those whose private data is allocated
  seq,     \* sequence number in the uclass, -1 when it has none
  stack,   \* the calls under way
  ret,     \* what the last call to end returned: was it 0?
  handed,  \* dm_remove_devices_flags(DM_REMOVE_ACTIVE_ALL) was called
  mishaps  \* history: failures the code does not undo

vars == <<linked, bound, plat, active, priv, seq, stack, ret, handed, mishaps>>

Init ==
  /\ linked = {} /\ bound = {} /\ plat = {} /\ active = {} /\ priv = {}
  /\ seq = [d \in Devices |-> -1]
  /\ stack = <<>> /\ ret = TRUE /\ handed = FALSE /\ mishaps = {}

Active(d) == d = Root \/ d \in active
Children(d) == {c \in linked : Parent[c] = d}
-----------------------------------------------------------------------------
\* A call of op for dev; "normal" says if its flags have DM_REMOVE_NORMAL
Frame(op, d, normal) ==
  [op |-> op, dev |-> d, at |-> "enter", normal |-> normal, todo |-> {},
   failed |-> FALSE]

Top == Head(stack)
dev == Top.dev
At(op, at) == stack # <<>> /\ Top.op = op /\ Top.at = at

Goto(at, todo) ==
  /\ stack' = <<[Top EXCEPT !.at = at, !.todo = todo]>> \o Tail(stack)
  /\ ret' = TRUE

\* Call, and go on at "at" with todo
Call(at, todo, frame) ==
  /\ stack' = <<frame, [Top EXCEPT !.at = at, !.todo = todo]>> \o Tail(stack)
  /\ ret' = TRUE

Return(ok) == stack' = Tail(stack) /\ ret' = ok

Mishap(kind, happened) == mishaps' = IF happened THEN mishaps \cup {kind} ELSE mishaps

lists == <<linked, bound, plat>>
life == <<active, priv, seq>>
-----------------------------------------------------------------------------
(***************************************************************************)
(* device_bind_common                                                      *)
(***************************************************************************)
BindEnter ==
  /\ At("bind", "enter")
  /\ \/ /\ linked' = linked \cup {dev}
        /\ plat' = plat \cup {dev}
        /\ Goto("hooks", {c \in Devices : Parent[c] = dev})
     \/ Return(FALSE) /\ UNCHANGED <<linked, plat>>
  /\ UNCHANGED <<bound, life, handed, mishaps>>

BindChild ==
  /\ At("bind", "hooks")
  /\ \E c \in Top.todo : Call("hooks", Top.todo \ {c}, Frame("bind", c, TRUE))
  /\ UNCHANGED <<lists, life, handed, mishaps>>

BindDone ==
  /\ At("bind", "hooks")
  /\ bound' = bound \cup {dev}
  /\ Return(TRUE)
  /\ UNCHANGED <<linked, plat, life, handed, mishaps>>

\* Children that the hooks bound keep a parent that is freed; and when
\* uclass_unbind_device() fails, the uclass keeps a device that is
BindFails ==
  /\ At("bind", "hooks")
  /\ linked' = linked \ {dev} /\ plat' = plat \ {dev}
  /\ Return(FALSE)
  /\ \E unbound \in BOOLEAN : Mishap("bind", ~unbound \/ Children(dev) # {})
  /\ UNCHANGED <<bound, life, handed>>
-----------------------------------------------------------------------------
(***************************************************************************)
(* device_probe                                                            *)
(***************************************************************************)
Reentered == \E i \in 2 .. Len(stack) : stack[i].op = "probe" /\ stack[i].dev = dev

\* Mutated: without device_free()
ProbeFails_KeepsPriv ==
  /\ active' = active \ {dev}
  /\ seq' = [seq EXCEPT ![dev] = -1]
  /\ Return(FALSE)
  /\ mishaps' = mishaps \cup (IF Children(dev) \cap active # {} THEN {"orphan"} ELSE {})
                        \cup (IF Reentered THEN {"reentered"} ELSE {})
  /\ UNCHANGED <<lists, handed, priv>>

\* "fail:".  Children that its hooks have probed stay, and the private data of
\* an outer probe of the same device, which waits for the parent, goes.
ProbeFails ==
  /\ active' = active \ {dev} /\ priv' = priv \ {dev}
  /\ seq' = [seq EXCEPT ![dev] = -1]
  /\ Return(FALSE)
  /\ mishaps' = mishaps \cup (IF Children(dev) \cap active # {} THEN {"orphan"} ELSE {})
                        \cup (IF Reentered THEN {"reentered"} ELSE {})
  /\ UNCHANGED <<lists, handed>>

ProbeEnter ==
  /\ At("probe", "enter")
  /\ \/ dev \in active /\ Return(TRUE) /\ UNCHANGED priv
     \/ /\ dev \notin active
        /\ priv' = priv \cup {dev}
        /\ IF Parent[dev] = Root
             THEN Goto("parent", {})
             ELSE Call("parent", {}, Frame("probe", Parent[dev], TRUE))
  /\ UNCHANGED <<lists, active, seq, handed, mishaps>>

ProbeNoMemory ==
  /\ At("probe", "enter") /\ dev \notin active \cup priv
  /\ ProbeFails

\* uclass_resolve_seq().  Its look-ups fail only for want of a number: the
\* uclass of a bound device exists.
Taken(d) == {seq[e] : e \in {x \in linked : Uclass[x] = Uclass[d]}}
\* Mutated: does not look who has the number that is asked for
ResolveSeq_Requested(d) ==
  IF ReqSeq[d] # -1
    THEN ReqSeq[d]
    ELSE LET free == (0 .. DM_MAX_SEQ - 1) \ Taken(d)
         IN IF free = {} THEN DM_MAX_SEQ ELSE Min(free)

ResolveSeq(d) ==
  IF ReqSeq[d] # -1 /\ ReqSeq[d] \notin Taken(d)
    THEN ReqSeq[d]
    ELSE LET free == (0 .. DM_MAX_SEQ - 1) \ Taken(d)
         IN IF free = {} THEN DM_MAX_SEQ ELSE Min(free)

\* Mutated: DM_FLAG_ACTIVATED is not set before the hooks run
ProbeParentDone_Late ==
  /\ At("probe", "parent") /\ ret
  /\ \/ dev \in active /\ Return(TRUE)
     \/ dev \notin active /\ Goto("hooks", Uses[dev])
  /\ UNCHANGED <<lists, life, handed, mishaps>>

\* The parent may have probed it meanwhile
ProbeParentDone ==
  /\ At("probe", "parent") /\ ret
  /\ \/ dev \in active /\ Return(TRUE) /\ UNCHANGED <<active, seq>>
     \/ /\ dev \notin active
        /\ seq' = [seq EXCEPT ![dev] = ResolveSeq(dev)]
        /\ active' = active \cup {dev}
        /\ Goto("hooks", Uses[dev])
  /\ UNCHANGED <<lists, priv, handed, mishaps>>

ProbeParentFailed ==
  /\ At("probe", "parent") /\ ~ret
  /\ ProbeFails

\* A hook probes another device, and does not mind how that ends
ProbeOther ==
  /\ At("probe", "hooks") \/ At("probe", "post")
  /\ \E e \in Top.todo \cap bound :
       Call(Top.at, Top.todo \ {e}, Frame("probe", e, TRUE))
  /\ UNCHANGED <<lists, life, handed, mishaps>>

\* All hooks up to drv->probe succeed
ProbeHooksDone ==
  /\ At("probe", "hooks")
  /\ Goto("post", Top.todo)
  /\ UNCHANGED <<lists, life, handed, mishaps>>

\* One of them fails
ProbeHookFails ==
  /\ At("probe", "hooks")
  /\ ProbeFails

\* uclass_post_probe_device, at last
ProbeDone ==
  /\ At("probe", "post")
  /\ Return(TRUE)
  /\ UNCHANGED <<lists, life, handed, mishaps>>

ProbePostFails ==
  /\ At("probe", "post")
  /\ Call("undo", {}, Frame("remove", dev, TRUE))
  /\ UNCHANGED <<lists, life, handed, mishaps>>

\* Whatever device_remove() says
ProbeUndone ==
  /\ At("probe", "undo")
  /\ ProbeFails
-----------------------------------------------------------------------------
(***************************************************************************)
(* device_remove                                                           *)
(***************************************************************************)
\* flags_remove: is it this device that the flags mean?
FlagsRemove(f) == f.normal \/ f.dev \in Dma

\* Mutated: children are left alone
RemoveEnter_NoChildren ==
  /\ At("remove", "enter")
  /\ IF Active(dev) THEN Goto("children", {}) ELSE Return(TRUE)
  /\ UNCHANGED <<lists, life, handed, mishaps>>

\* Mutated: nothing to do below a device the flags do not mean
RemoveEnter_Shallow ==
  /\ At("remove", "enter")
  /\ IF Active(dev) /\ (dev = Root \/ FlagsRemove(Top))
       THEN Goto("children", Children(dev)) ELSE Return(TRUE)
  /\ UNCHANGED <<lists, life, handed, mishaps>>

RemoveEnter ==
  /\ At("remove", "enter")
  /\ IF Active(dev) THEN Goto("children", Children(dev)) ELSE Return(TRUE)
  /\ UNCHANGED <<lists, life, handed, mishaps>>

\* uclass_pre_remove_device fails
RemoveRefused ==
  /\ At("remove", "enter") /\ dev \in active
  /\ Return(FALSE)
  /\ Mishap("remove", TRUE)
  /\ UNCHANGED <<lists, life, handed>>

RemoveChild ==
  /\ At("remove", "children") /\ ret
  /\ \E c \in Top.todo :
       Call("children", Top.todo \ {c}, Frame("remove", c, Top.normal))
  /\ UNCHANGED <<lists, life, handed, mishaps>>

\* The device itself, when all children said 0; child_post_remove may fail yet
RemoveDone ==
  /\ At("remove", "children") /\ ret /\ Top.todo = {}
  /\ IF FlagsRemove(Top)
       THEN /\ active' = active \ {dev} /\ priv' = priv \ {dev}
            /\ seq' = [seq EXCEPT ![dev] = -1]
       ELSE UNCHANGED life
  /\ \E ok \in BOOLEAN :
       /\ dev = Root => ok
       /\ Return(ok) /\ Mishap("remove", ~ok)
  /\ UNCHANGED <<lists, handed>>

RemoveFails ==
  /\ At("remove", "children")
  /\ \/ ~ret
     \/ ret /\ Top.todo = {} /\ FlagsRemove(Top)
  /\ Goto("error", {})
  /\ Mishap("remove", TRUE)
  /\ UNCHANGED <<lists, life, handed>>

\* Mutated: tries again when the device cannot be put back
RemovePutBack_Again ==
  /\ At("remove", "error")
  /\ Return(TRUE) \/ Goto("enter", {})
  /\ UNCHANGED <<lists, life, handed, mishaps>>

\* What is returned is the result of uclass_post_probe_device
RemovePutBack ==
  /\ At("remove", "error")
  /\ \E ok \in BOOLEAN : Return(ok)
  /\ UNCHANGED <<lists, life, handed, mishaps>>
-----------------------------------------------------------------------------
(***************************************************************************)
(* device_unbind                                                           *)
(***************************************************************************)
UnbindEnter ==
  /\ At("unbind", "enter")
  /\ \/ dev \in bound \ active /\ Goto("children", Children(dev))
     \/ Return(FALSE)
  /\ UNCHANGED <<lists, life, handed, mishaps>>

\* The failure of a child does not keep the others
UnbindChild ==
  /\ At("unbind", "children")
  /\ \E c \in Top.todo :
       /\ stack' = <<Frame("unbind", c, TRUE),
                     [Top EXCEPT !.todo = @ \ {c}, !.failed = @ \/ ~ret]>> \o Tail(stack)
       /\ ret' = TRUE
  /\ UNCHANGED <<lists, life, handed, mishaps>>

UnbindStops ==
  /\ At("unbind", "children") /\ Top.todo = {}
  /\ Top.failed \/ ~ret
  /\ Return(FALSE)
  /\ UNCHANGED <<lists, life, handed, mishaps>>

\* The uclass's pre_unbind may fail when the platdata is freed already
UnbindDone ==
  /\ At("unbind", "children") /\ Top.todo = {}
  /\ ~Top.failed /\ ret
  /\ plat' = plat \ {dev}
  /\ \/ /\ linked' = linked \ {dev} /\ bound' = bound \ {dev}
        /\ Return(TRUE) /\ UNCHANGED mishaps
     \/ /\ Return(FALSE) /\ Mishap("unbind", TRUE)
        /\ UNCHANGED <<linked, bound>>
  /\ UNCHANGED <<life, handed>>
-----------------------------------------------------------------------------
\* A call from outside.  After a bind that failed half-way the lists hold
\* freed memory, and nothing can be said of what follows.
Begin(op, d, normal) ==
  /\ stack = <<>> /\ ~handed /\ "bind" \notin mishaps
  /\ stack' = <<Frame(op, d, normal)>>
  /\ ret' = TRUE
  /\ UNCHANGED <<lists, life, mishaps>>

Bind(d) ==
  /\ d \notin linked /\ Parent[d] \in bound \cup {Root}
  /\ Begin("bind", d, TRUE) /\ UNCHANGED handed

Use(op, d) == d \in bound /\ Begin(op, d, TRUE) /\ UNCHANGED handed

\* dm_remove_devices_flags, before the operating system is started
HandOver == Begin("remove", Root, FALSE) /\ handed' = TRUE

Step ==
  \/ BindEnter \/ BindChild \/ BindDone \/ BindFails
  \/ ProbeEnter \/ ProbeNoMemory \/ ProbeParentDone \/ ProbeParentFailed
  \/ ProbeOther \/ ProbeHooksDone \/ ProbeHookFails \/ ProbeDone
  \/ ProbePostFails \/ ProbeUndone
  \/ RemoveEnter \/ RemoveRefused \/ RemoveChild \/ RemoveDone \/ RemoveFails
  \/ RemovePutBack
  \/ UnbindEnter \/ UnbindChild \/ UnbindStops \/ UnbindDone

Next ==
  \/ \E d \in Devices : Bind(d)
  \/ \E d \in Devices, op \in {"probe", "remove", "unbind"} : Use(op, d)
  \/ HandOver
  \/ Step

\* One thread runs the calls: it goes on when there is a step to take
Spec == Init /\ [][Next]_vars /\ WF_vars(Step)
-----------------------------------------------------------------------------
Frames == [op : {"bind", "probe", "remove", "unbind"}, dev : Devices \cup {Root},
           at : {"enter", "hooks", "parent", "post", "undo", "children", "error"},
           normal : BOOLEAN, todo : SUBSET Devices, failed : BOOLEAN]

\* Every variable has its type, and a device is bound only in the lists
TypeOK ==
  /\ linked \subseteq Devices /\ bound \subseteq linked /\ plat \subseteq linked
  /\ active \subseteq Devices /\ priv \subseteq Devices
  /\ seq \in [Devices -> Nat \cup {-1}]
  /\ stack \in Seq(Frames) /\ ret \in BOOLEAN /\ handed \in BOOLEAN
  /\ mishaps \subseteq {"bind", "orphan", "reentered", "remove", "unbind"}

\* "It is not permitted to have any children active when the parent is not"
\* (doc/driver-model/README.txt): true of every interleaving of probes with
\* failing hooks, until a hook of a removal fails, a probe fails that had
\* probed a child itself, or dm_remove_devices_flags() is called, which takes
\* away DMA devices and leaves the others below them active; and a device whose
\* parent is unbound is unbound.
ParentsFirst ==
  /\ mishaps \cap {"remove", "orphan"} = {} /\ ~handed =>
       \A d \in active : Active(Parent[d])
  /\ "bind" \notin mishaps => \A d \in linked : Parent[d] \in linked \cup {Root}

\* An active device is bound and has its private data and platdata: a probe
\* that met the device half-way did not take them away, unless a call failed
\* that cannot be undone (below an inactive parent, a device may be found
\* waiting for it by any probe of a child).
ActiveHasData ==
  \A d \in active :
    /\ d \in bound
    /\ mishaps \cap {"orphan", "remove", "reentered"} = {} => d \in priv
    /\ "unbind" \notin mishaps => d \in plat

\* Only active devices and those whose probe is under way hold private data
NothingLeaks ==
  \A d \in priv :
    d \in active \/ \E i \in 1 .. Len(stack) : stack[i].op = "probe" /\ stack[i].dev = d

\* Active devices of a uclass have numbers, all different, and no other has
\* one (uclass_resolve_seq asserts that it is -1), however probes are nested
\* and whatever fails.
SeqsDiffer ==
  /\ \A d \in Devices : seq[d] # -1 <=> d \in active
  /\ \A d, e \in active : d # e /\ Uclass[d] = Uclass[e] => seq[d] # seq[e]

\* A device and those above it in the tree: what is in every set that has the
\* device and, with each member, its parent
Above(d) ==
  {a \in Devices : \A U \in SUBSET Devices :
     d \in U /\ (\A x \in U : Parent[x] \in U \cup {Root}) => a \in U}

\* Probes that call each other do not do so without end: a device is probed by
\* no more calls at once than there are levels of the tree down to it, all but
\* the innermost waiting for the parent.
NestsBounded ==
  mishaps \cap {"orphan", "remove"} = {} =>
    \A d \in Devices :
      Cardinality({i \in 1 .. Len(stack) :
                     stack[i].op = "probe" /\ stack[i].dev = d /\ stack[i].at # "enter"})
        <= Cardinality(Above(d))

\* When the operating system is started no device with DMA is active, unless
\* a failure of a removal stopped the search or hid one.
QuietAtHandOver ==
  handed /\ stack = <<>> /\ mishaps \cap {"remove", "orphan"} = {} =>
    active \cap Dma = {}

\* Every call returns, whatever its hooks say
CallsReturn == stack # <<>> ~> stack = <<>>

\* What holds in every state: the types, and an end of every recursion.
NestingSound == TypeOK /\ NestsBounded

\* Devices have their data while they are active, and only then.
DataWithDevice == ActiveHasData /\ NothingLeaks
=============================================================================
