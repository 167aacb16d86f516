---------------------------- MODULE Device_proofs ----------------------------
(***************************************************************************)
(* What Device guarantees for every tree of devices, every choice of the   *)
(* devices that hooks probe and every sequence of failures.  Calls nest to *)
(* any depth, so that the invariant is about the whole stack: which calls  *)
(* may wait for which, and what a device that is met again half-way was    *)
(* left in by the call further out.                                        *)
(***************************************************************************)
EXTENDS Device, FiniteSetTheorems, WellFoundedInduction, TLAPS

\* The calls under way, the outermost first: a call keeps its number while
\* others come and go above it.
Outer(s) == [j \in 1 .. Len(s) |-> s[Len(s) + 1 - j]]
depth == Len(stack)
calls == Outer(stack)

Waiting(j) == calls[j].op = "probe" /\ calls[j].at = "parent"
Running(j) == calls[j].op = "probe" /\ calls[j].at \in {"hooks", "post"}
Binding(j) == calls[j].op = "bind" /\ calls[j].at = "hooks"

UpClosed(U) == \A x \in U : Parent[x] \in U \cup {Root}

\* x and all that is below it are in no list
Clear(x) ==
  \E S \in SUBSET Devices :
    /\ x \in S /\ S \cap linked = {}
    /\ \A y \in Devices : Parent[y] \in S => y \in S

\* What a frame is by itself
Stages(op) ==
  CASE op = "bind" -> {"enter", "hooks"}
    [] op = "probe" -> {"enter", "parent", "hooks", "post", "undo"}
    [] op = "remove" -> {"enter", "children", "error"}
    [] op = "unbind" -> {"enter", "children"}

FrameSound(f) ==
  /\ f.at \in Stages(f.op)
  /\ f.normal <=> ~handed
  /\ handed => f.op = "remove"
  /\ f.dev = Root => handed
  /\ f.op # "probe" => \A c \in f.todo : Parent[c] = f.dev

\* What f calls
Called(f, g) ==
  /\ g.dev \in Devices
  /\ \/ f.op = "bind" /\ f.at = "hooks" /\ g.op = "bind" /\ Parent[g.dev] = f.dev
     \/ f.op = "probe" /\ f.at = "parent" /\ g.op = "probe" /\ g.dev = Parent[f.dev]
     \/ f.op = "probe" /\ f.at \in {"hooks", "post"} /\ g.op = "probe"
     \/ f.op = "probe" /\ f.at = "undo" /\ g.op = "remove" /\ g.dev = f.dev
     \/ f.op \in {"remove", "unbind"} /\ g.op = f.op /\ f.at = "children"
          /\ Parent[g.dev] = f.dev

StackSound ==
  /\ \A j \in 1 .. depth : FrameSound(calls[j])
  /\ \A j \in 1 .. depth - 1 : Called(calls[j], calls[j + 1])
  /\ \A i, j \in 1 .. depth : i < j =>
       /\ calls[i].op = "bind" <=> calls[j].op = "bind"
       /\ calls[i].op = "unbind" <=> calls[j].op = "unbind"
       /\ calls[i].op = "remove" \/ calls[i].at = "undo" => calls[j].op = "remove"

\* The lists: what of the tree is linked and bound, in which order it got there
\* and goes
ListsSound ==
  /\ "bind" \notin mishaps =>
       /\ UpClosed(linked)
       /\ \A d \in bound :
            \/ Parent[d] \in bound \cup {Root}
            \/ \E j \in 1 .. depth : Binding(j) /\ Parent[d] = calls[j].dev
  /\ "unbind" \notin mishaps => bound \subseteq plat
  /\ active \subseteq bound
  /\ \A j \in 1 .. depth : calls[j].op # "bind" => "bind" \notin mishaps

BindSound ==
  \A j \in 1 .. depth : calls[j].op = "bind" =>
    /\ calls[j].at = "enter" => Clear(calls[j].dev)
    /\ calls[j].at = "hooks" =>
         /\ calls[j].dev \in (linked \cap plat) \ bound
         /\ \A c \in calls[j].todo : Clear(c)
    /\ j < depth => calls[j + 1].dev \notin calls[j].todo
    /\ j = 1 => Parent[calls[j].dev] \in bound \cup {Root}
    /\ \A i \in 1 .. j - 1 : calls[i].dev # calls[j].dev

UnbindSound ==
  \A j \in 1 .. depth : calls[j].op = "unbind" /\ calls[j].at = "children" =>
    /\ calls[j].dev \notin active
    /\ \A c \in Children(calls[j].dev) :
         \/ c \in calls[j].todo
         \/ calls[j].failed
         \/ j = depth /\ ~ret
         \/ j < depth /\ c = calls[j + 1].dev

\* The life of devices, whatever failed
LifeSound ==
  /\ SeqsDiffer
  /\ \A d \in priv : d \in active \/ \E j \in 1 .. depth : Waiting(j) /\ calls[j].dev = d
  /\ \A j \in 1 .. depth : calls[j].op = "probe" => calls[j].dev \in bound
  /\ \A j \in 1 .. depth : calls[j].at = "error" => "remove" \in mishaps

\* ... and while nothing failed that is not undone.  Of a call within the hooks
\* of another: the device of the outer one and all above it were active when
\* the inner one began, and its own was not (U is what was active).
Calm == mishaps \cap {"orphan", "remove"} = {}

Apart(d, e) ==
  \E U \in SUBSET Devices : UpClosed(U) /\ d \in U /\ e \notin U

CalmSound ==
  Calm /\ ~handed =>
    /\ UpClosed(active)
    /\ depth > 0 /\ Waiting(depth) /\ ret => Active(Parent[calls[depth].dev])
    /\ \A j \in 1 .. depth : Running(j) => calls[j].dev \in active
    /\ \A i, j \in 1 .. depth :
         i < j /\ Running(i) /\ (calls[j].op = "remove" \/ calls[j].at # "enter") =>
           Apart(calls[i].dev, calls[j].dev)
    /\ \A j \in 1 .. depth : calls[j].op = "remove" /\ calls[j].at = "children" =>
         \A c \in Children(calls[j].dev) \cap active :
           c \in calls[j].todo \/ (j < depth /\ c = calls[j + 1].dev)

\* A probe that waits for its parent loses its private data only when the
\* parent's probe is about to fail, or a probe within a probe of the same device.
Doomed(j) ==
  \E m \in j .. depth :
    /\ \A i \in j .. m - 1 : Waiting(i)
    /\ calls[m].at = "undo" \/ (m = depth /\ Waiting(m) /\ ~ret)

Reenters ==
  \E j \in 1 .. depth : calls[j].at = "undo" /\
    \E i \in 1 .. j - 1 : calls[i].op = "probe" /\ calls[i].dev = calls[j].dev

PrivSound ==
  Calm /\ "reentered" \notin mishaps =>
    /\ active \subseteq priv
    /\ \A j \in 1 .. depth : Waiting(j) =>
         calls[j].dev \in priv \/ Doomed(j) \/ Reenters

\* What the removal before the operating system has not reached yet, V, hangs
\* from the calls it has still to make.
HandSound ==
  Calm /\ handed =>
    \E V \in SUBSET (active \cup {Root}) :
      /\ \A a \in active \cap Dma :
           a \in V \/ \E j \in 1 .. depth : calls[j].at = "children" /\ calls[j].dev = a
      /\ \A j \in 1 .. depth : calls[j].at = "children" => calls[j].dev \notin V
      /\ \A v \in V :
           \/ \E j \in 1 .. depth :
                \/ calls[j].at = "children" /\ v \in calls[j].todo
                \/ calls[j].at = "enter" /\ calls[j].dev = v
           \/ v \in Devices /\ Parent[v] \in V

IInv ==
  /\ TypeOK /\ StackSound /\ ListsSound /\ BindSound /\ UnbindSound /\ LifeSound
  /\ CalmSound /\ PrivSound /\ HandSound
-----------------------------------------------------------------------------
(***************************************************************************)
(* The stack.                                                              *)
(***************************************************************************)
Ats == {"enter", "hooks", "parent", "post", "undo", "children", "error"}
Ops == {"bind", "probe", "remove", "unbind"}

LEMMA OuterType ==
  ASSUME NEW s \in Seq(Frames)
  PROVE  /\ Len(s) \in Nat
         /\ Outer(s) \in [1 .. Len(s) -> Frames]
         /\ s # <<>> <=> Len(s) > 0
         /\ s # <<>> => Head(s) = Outer(s)[Len(s)] /\ Head(s) \in Frames
<1>1. Len(s) \in Nat /\ s \in [1 .. Len(s) -> Frames]
  OBVIOUS
<1>2. ASSUME NEW j \in 1 .. Len(s) PROVE s[Len(s) + 1 - j] \in Frames
  <2>1. Len(s) + 1 - j \in 1 .. Len(s)
    BY <1>1
  <2> QED BY <1>1, <2>1
<1>3. Outer(s) \in [1 .. Len(s) -> Frames]
  BY <1>2 DEF Outer
<1>4. s # <<>> <=> Len(s) > 0
  OBVIOUS
<1>5. ASSUME s # <<>> PROVE Head(s) = Outer(s)[Len(s)] /\ Head(s) \in Frames
  <2>1. Len(s) \in 1 .. Len(s) /\ Len(s) + 1 - Len(s) = 1 /\ 1 \in 1 .. Len(s)
    BY <1>1, <1>4, <1>5
  <2>2. Head(s) = s[1]
    BY <1>5
  <2>3. Outer(s)[Len(s)] = s[1]
    BY <2>1 DEF Outer
  <2> QED BY <1>1, <2>1, <2>2, <2>3
<1> QED BY <1>1, <1>3, <1>4, <1>5

\* The three ways in which a step changes the stack, seen from its base
LEMMA OuterReplaced ==
  ASSUME NEW s \in Seq(Frames), s # <<>>, NEW f \in Frames
  PROVE  LET t == <<f>> \o Tail(s)
         IN /\ t \in Seq(Frames) /\ Len(t) = Len(s)
            /\ Outer(t)[Len(s)] = f
            /\ \A j \in 1 .. Len(s) - 1 : Outer(t)[j] = Outer(s)[j]
<1> DEFINE t == <<f>> \o Tail(s)
<1>1. /\ t \in Seq(Frames) /\ Len(t) = Len(s) /\ Len(s) \in Nat \ {0}
      /\ t[1] = f /\ \A i \in 2 .. Len(s) : t[i] = s[i]
  OBVIOUS
<1> HIDE DEF t
<1>2. ASSUME NEW j \in 1 .. Len(s) - 1 PROVE Outer(t)[j] = Outer(s)[j]
  <2>1. /\ j \in 1 .. Len(s) /\ j \in 1 .. Len(t)
        /\ Len(s) + 1 - j \in 2 .. Len(s)
    BY <1>1
  <2> QED BY <1>1, <2>1 DEF Outer
<1>3. Outer(t)[Len(s)] = f
  <2>1. Len(s) \in 1 .. Len(t) /\ Len(s) + 1 - Len(s) = 1
    BY <1>1
  <2> QED BY <1>1, <2>1 DEF Outer
<1> QED BY <1>1, <1>2, <1>3 DEF t

LEMMA OuterPushed ==
  ASSUME NEW s \in Seq(Frames), s # <<>>, NEW f \in Frames, NEW g \in Frames
  PROVE  LET t == <<g, f>> \o Tail(s)
         IN /\ t \in Seq(Frames) /\ Len(t) = Len(s) + 1
            /\ Outer(t)[Len(s) + 1] = g /\ Outer(t)[Len(s)] = f
            /\ \A j \in 1 .. Len(s) - 1 : Outer(t)[j] = Outer(s)[j]
<1> DEFINE t == <<g, f>> \o Tail(s)
<1>1. /\ t \in Seq(Frames) /\ Len(t) = Len(s) + 1 /\ Len(s) \in Nat \ {0}
      /\ t[1] = g /\ t[2] = f /\ \A i \in 3 .. Len(s) + 1 : t[i] = s[i - 1]
  OBVIOUS
<1> HIDE DEF t
<1>2. ASSUME NEW j \in 1 .. Len(s) - 1 PROVE Outer(t)[j] = Outer(s)[j]
  <2>1. /\ j \in 1 .. Len(s) /\ j \in 1 .. Len(t)
        /\ Len(t) + 1 - j \in 3 .. Len(s) + 1
        /\ (Len(t) + 1 - j) - 1 = Len(s) + 1 - j
    BY <1>1
  <2> QED BY <1>1, <2>1 DEF Outer
<1>3. Outer(t)[Len(s) + 1] = g
  <2>1. Len(s) + 1 \in 1 .. Len(t) /\ Len(t) + 1 - (Len(s) + 1) = 1
    BY <1>1
  <2> QED BY <1>1, <2>1 DEF Outer
<1>4. Outer(t)[Len(s)] = f
  <2>1. Len(s) \in 1 .. Len(t) /\ Len(t) + 1 - Len(s) = 2
    BY <1>1
  <2> QED BY <1>1, <2>1 DEF Outer
<1> QED BY <1>1, <1>2, <1>3, <1>4 DEF t

LEMMA OuterPopped ==
  ASSUME NEW s \in Seq(Frames), s # <<>>
  PROVE  /\ Tail(s) \in Seq(Frames) /\ Len(Tail(s)) = Len(s) - 1
         /\ \A j \in 1 .. Len(s) - 1 : Outer(Tail(s))[j] = Outer(s)[j]
<1> DEFINE t == Tail(s)
<1>1. /\ t \in Seq(Frames) /\ Len(t) = Len(s) - 1 /\ Len(s) \in Nat \ {0}
      /\ \A i \in 1 .. Len(s) - 1 : t[i] = s[i + 1]
  OBVIOUS
<1> HIDE DEF t
<1>2. ASSUME NEW j \in 1 .. Len(s) - 1 PROVE Outer(t)[j] = Outer(s)[j]
  <2>1. /\ j \in 1 .. Len(s) /\ j \in 1 .. Len(t)
        /\ Len(t) + 1 - j \in 1 .. Len(s) - 1
        /\ (Len(t) + 1 - j) + 1 = Len(s) + 1 - j
    BY <1>1
  <2> QED BY <1>1, <2>1 DEF Outer
<1> QED BY <1>1, <1>2 DEF t

\* The innermost call is the one whose frame is at the head.
LEMMA CallsType ==
  ASSUME TypeOK
  PROVE  /\ depth \in Nat
         /\ calls \in [1 .. depth -> Frames]
         /\ stack # <<>> <=> depth > 0
         /\ stack # <<>> => /\ Top = calls[depth] /\ Top \in Frames
                            /\ depth \in 1 .. depth
BY OuterType DEF TypeOK, depth, calls, Top

LEMMA CallsTypeNext ==
  ASSUME stack' \in Seq(Frames)
  PROVE  /\ depth' \in Nat
         /\ calls' \in [1 .. depth' -> Frames]
         /\ (stack' # <<>>) <=> depth' > 0
BY OuterType DEF depth, calls

\* A new state of the innermost call
Changes(f) ==
  /\ depth' = depth /\ calls'[depth] = f
  /\ \A j \in 1 .. depth - 1 : calls'[j] = calls[j]

\* The same, and a call from it
Pushes(f, g) ==
  /\ depth' = depth + 1 /\ calls'[depth] = f /\ calls'[depth + 1] = g
  /\ \A j \in 1 .. depth - 1 : calls'[j] = calls[j]

\* The end of the innermost call
Pops ==
  /\ depth' = depth - 1
  /\ \A j \in 1 .. depth - 1 : calls'[j] = calls[j]

\* What stays when a call goes on
SameCall(f) ==
  f \in Frames /\ f.op = Top.op /\ f.dev = dev /\ f.normal = Top.normal

LEMMA ChangeSound ==
  ASSUME TypeOK, StackSound, stack # <<>>, handed' = handed,
         NEW f, SameCall(f), stack' = <<f>> \o Tail(stack),
         f.at \in Stages(f.op), f.op # "probe" => \A c \in f.todo : Parent[c] = f.dev
  PROVE  stack' \in Seq(Frames) /\ Changes(f) /\ StackSound'
<1>1. /\ depth \in Nat \ {0} /\ depth \in 1 .. depth /\ Top = calls[depth]
      /\ calls \in [1 .. depth -> Frames]
  BY CallsType
<1>2. stack' \in Seq(Frames) /\ Changes(f)
  BY OuterReplaced DEF TypeOK, SameCall, Changes, depth, calls
<1>3. depth' = depth
  BY <1>2 DEF Changes
<1>4. ASSUME NEW j \in 1 .. depth
      PROVE  /\ calls'[j] = IF j = depth THEN f ELSE calls[j]
             /\ calls'[j].op = calls[j].op /\ calls'[j].dev = calls[j].dev
  BY <1>1, <1>2 DEF Changes, SameCall, dev
<1>5. ASSUME NEW j \in 1 .. depth PROVE FrameSound(calls[j])'
  <2>1. CASE j = depth
    <3>1. FrameSound(Top)
      BY <1>1 DEF StackSound
    <3> QED BY <1>4, <2>1, <3>1 DEF FrameSound, SameCall, dev
  <2>2. CASE j # depth
    <3>1. calls'[j] = calls[j] /\ FrameSound(calls[j])
      BY <1>4, <2>2 DEF StackSound
    <3> QED BY <3>1 DEF FrameSound
  <2> QED BY <2>1, <2>2
<1>6. ASSUME NEW j \in 1 .. depth - 1 PROVE Called(calls'[j], calls'[j + 1])
  <2>1. j \in 1 .. depth /\ j + 1 \in 1 .. depth /\ j # depth
    BY <1>1
  <2>2. calls'[j] = calls[j] /\ Called(calls[j], calls[j + 1])
    BY <1>4, <2>1 DEF StackSound
  <2>3. calls'[j + 1].op = calls[j + 1].op /\ calls'[j + 1].dev = calls[j + 1].dev
    BY <1>4, <2>1
  <2> QED BY <2>2, <2>3 DEF Called
<1>7. ASSUME NEW i \in 1 .. depth, NEW j \in 1 .. depth, i < j
      PROVE  /\ calls'[i].op = "bind" <=> calls'[j].op = "bind"
             /\ calls'[i].op = "unbind" <=> calls'[j].op = "unbind"
             /\ calls'[i].op = "remove" \/ calls'[i].at = "undo" => calls'[j].op = "remove"
  <2>1. i # depth
    BY <1>1, <1>7
  <2>2. calls'[i] = calls[i] /\ calls'[j].op = calls[j].op
    BY <1>4, <2>1
  <2> QED BY <1>7, <2>2 DEF StackSound
<1>8. StackSound'
  BY <1>3, <1>5, <1>6, <1>7 DEF StackSound
<1> QED BY <1>2, <1>8

LEMMA PushSound ==
  ASSUME TypeOK, StackSound, stack # <<>>, handed' = handed,
         NEW f, SameCall(f), NEW g \in Frames, stack' = <<g, f>> \o Tail(stack),
         f.at \in Stages(f.op), f.op # "probe" => \A c \in f.todo : Parent[c] = f.dev,
         FrameSound(g), Called(f, g)
  PROVE  stack' \in Seq(Frames) /\ Pushes(f, g) /\ StackSound'
<1>1. /\ depth \in Nat \ {0} /\ depth \in 1 .. depth /\ Top = calls[depth]
      /\ calls \in [1 .. depth -> Frames]
  BY CallsType
<1>2. stack' \in Seq(Frames) /\ Pushes(f, g)
  <2>1. stack \in Seq(Frames) /\ f \in Frames
    BY DEF TypeOK, SameCall
  <2>2. /\ stack' \in Seq(Frames) /\ Len(stack') = Len(stack) + 1
        /\ Outer(stack')[Len(stack) + 1] = g /\ Outer(stack')[Len(stack)] = f
        /\ \A j \in 1 .. Len(stack) - 1 : Outer(stack')[j] = Outer(stack)[j]
    BY <2>1, OuterPushed
  <2> QED BY <2>2 DEF Pushes, depth, calls
<1>3. depth' = depth + 1 /\ calls'[depth + 1] = g
  BY <1>2 DEF Pushes
<1>4. ASSUME NEW j \in 1 .. depth
      PROVE  /\ calls'[j] = IF j = depth THEN f ELSE calls[j]
             /\ calls'[j].op = calls[j].op /\ calls'[j].dev = calls[j].dev
  BY <1>1, <1>2 DEF Pushes, SameCall, dev
<1>5. ASSUME NEW j \in 1 .. depth + 1 PROVE FrameSound(calls[j])'
  <2>1. CASE j = depth
    <3>1. FrameSound(Top)
      BY <1>1 DEF StackSound
    <3>2. calls'[j] = f
      BY <1>2, <2>1 DEF Pushes
    <3> QED BY <3>1, <3>2 DEF FrameSound, SameCall, dev
  <2>2. CASE j \in 1 .. depth - 1
    <3>1. j \in 1 .. depth /\ j # depth
      BY <1>1, <2>2
    <3>2. calls'[j] = calls[j] /\ FrameSound(calls[j])
      BY <1>4, <3>1 DEF StackSound
    <3> QED BY <3>2 DEF FrameSound
  <2>3. CASE j = depth + 1
    BY <1>3, <2>3 DEF FrameSound
  <2> QED BY <1>1, <2>1, <2>2, <2>3
<1>6. ASSUME NEW j \in 1 .. depth PROVE Called(calls'[j], calls'[j + 1])
  <2>1. CASE j = depth
    BY <1>2, <2>1 DEF Pushes
  <2>2. CASE j # depth
    <3>1. j \in 1 .. depth - 1 /\ j + 1 \in 1 .. depth
      BY <1>1, <2>2
    <3>2. calls'[j] = calls[j] /\ Called(calls[j], calls[j + 1])
      BY <1>4, <2>2, <3>1 DEF StackSound
    <3>3. calls'[j + 1].op = calls[j + 1].op /\ calls'[j + 1].dev = calls[j + 1].dev
      BY <1>4, <3>1
    <3> QED BY <3>2, <3>3 DEF Called
  <2> QED BY <2>1, <2>2
<1>7. ASSUME NEW i \in 1 .. depth + 1, NEW j \in 1 .. depth + 1, i < j
      PROVE  /\ calls'[i].op = "bind" <=> calls'[j].op = "bind"
             /\ calls'[i].op = "unbind" <=> calls'[j].op = "unbind"
             /\ calls'[i].op = "remove" \/ calls'[i].at = "undo" => calls'[j].op = "remove"
  <2>1. CASE j \in 1 .. depth
    <3>1. i \in 1 .. depth /\ i # depth
      BY <1>1, <1>7, <2>1
    <3>2. calls'[i] = calls[i] /\ calls'[j].op = calls[j].op
      BY <1>4, <2>1, <3>1
    <3> QED BY <1>7, <2>1, <3>1, <3>2 DEF StackSound
  <2>2. CASE j = depth + 1 /\ i = depth
    BY <1>2, <2>2 DEF Pushes, Called
  <2>3. CASE j = depth + 1 /\ i \in 1 .. depth - 1
    <3>1. i \in 1 .. depth /\ i # depth /\ i < depth
      BY <1>1, <2>3
    <3>2. /\ calls[i].op = "bind" <=> Top.op = "bind"
          /\ calls[i].op = "unbind" <=> Top.op = "unbind"
          /\ calls[i].op = "remove" \/ calls[i].at = "undo" => Top.op = "remove"
      BY <1>1, <3>1 DEF StackSound
    <3>3. calls'[i] = calls[i] /\ calls'[j] = g
      BY <1>3, <1>4, <2>3, <3>1
    <3> QED BY <3>2, <3>3 DEF Called, SameCall
  <2> QED BY <1>1, <1>7, <2>1, <2>2, <2>3
<1>8. StackSound'
  BY <1>1, <1>3, <1>5, <1>6, <1>7 DEF StackSound
<1> QED BY <1>2, <1>8

LEMMA PopSound ==
  ASSUME TypeOK, StackSound, stack # <<>>, handed' = handed, stack' = Tail(stack)
  PROVE  stack' \in Seq(Frames) /\ Pops /\ StackSound'
<1>1. depth \in Nat \ {0} /\ calls \in [1 .. depth -> Frames]
  BY CallsType
<1>2. stack' \in Seq(Frames) /\ Pops
  BY OuterPopped DEF TypeOK, Pops, depth, calls
<1>3. depth' = depth - 1
  BY <1>2 DEF Pops
<1>4. ASSUME NEW j \in 1 .. depth - 1
      PROVE  calls'[j] = calls[j] /\ j \in 1 .. depth
  BY <1>1, <1>2 DEF Pops
<1>5. ASSUME NEW j \in 1 .. depth - 1 PROVE FrameSound(calls[j])'
  BY <1>4 DEF StackSound, FrameSound
<1>6. ASSUME NEW j \in 1 .. (depth - 1) - 1 PROVE Called(calls'[j], calls'[j + 1])
  <2>1. j \in 1 .. depth - 1 /\ j + 1 \in 1 .. depth - 1
    BY <1>1
  <2> QED BY <1>4, <2>1 DEF StackSound
<1>7. ASSUME NEW i \in 1 .. depth - 1, NEW j \in 1 .. depth - 1, i < j
      PROVE  /\ calls'[i].op = "bind" <=> calls'[j].op = "bind"
             /\ calls'[i].op = "unbind" <=> calls'[j].op = "unbind"
             /\ calls'[i].op = "remove" \/ calls'[i].at = "undo" => calls'[j].op = "remove"
  BY <1>4, <1>7 DEF StackSound
<1>8. StackSound'
  BY <1>3, <1>5, <1>6, <1>7 DEF StackSound
<1> QED BY <1>2, <1>8
-----------------------------------------------------------------------------
(***************************************************************************)
(* Which calls may be under way together.                                  *)
(***************************************************************************)
LEMMA Homogeneous ==
  ASSUME TypeOK, StackSound, stack # <<>>
  PROVE  /\ Top.op = "bind" => \A j \in 1 .. depth : calls[j].op = "bind"
         /\ Top.op = "unbind" => \A j \in 1 .. depth : calls[j].op = "unbind"
         /\ Top.op \in {"probe", "remove"} =>
              \A j \in 1 .. depth : calls[j].op \in {"probe", "remove"}
         /\ Top.op = "probe" =>
              \A j \in 1 .. depth : calls[j].op = "probe" /\ (j < depth => calls[j].at # "undo")
<1>1. /\ depth \in Nat /\ depth \in 1 .. depth /\ Top = calls[depth]
      /\ calls \in [1 .. depth -> Frames]
  BY CallsType
<1>2. ASSUME NEW j \in 1 .. depth
      PROVE  /\ calls[j].op \in Ops
             /\ calls[j].op = "bind" <=> Top.op = "bind"
             /\ calls[j].op = "unbind" <=> Top.op = "unbind"
             /\ calls[j].op = "remove" => Top.op = "remove"
             /\ j < depth /\ calls[j].at = "undo" => Top.op = "remove"
  <2>1. calls[j].op \in Ops
    BY <1>1 DEF Frames, Ops
  <2>2. CASE j = depth
    BY <1>1, <2>1, <2>2
  <2>3. CASE j # depth
    <3>1. j < depth
      BY <1>1, <2>3
    <3> QED BY <1>1, <2>1, <3>1 DEF StackSound
  <2> QED BY <2>2, <2>3
<1> QED BY <1>2 DEF Ops

\* The frame of the innermost call, and the one that called it
LEMMA TopSound ==
  ASSUME TypeOK, StackSound, stack # <<>>
  PROVE  /\ Top \in Frames /\ FrameSound(Top)
         /\ Top.dev = Root => handed
         /\ ~handed => dev \in Devices
         /\ depth > 1 => Called(calls[depth - 1], Top)
<1>1. /\ depth \in Nat /\ depth \in 1 .. depth /\ Top = calls[depth] /\ Top \in Frames
  BY CallsType
<1>2. FrameSound(Top)
  BY <1>1 DEF StackSound
<1>3. ASSUME depth > 1 PROVE Called(calls[depth - 1], Top)
  <2>1. depth - 1 \in 1 .. depth - 1 /\ (depth - 1) + 1 = depth
    BY <1>1, <1>3
  <2> QED BY <1>1, <2>1 DEF StackSound
<1>4. Top.dev \in Devices \cup {Root}
  BY <1>1 DEF Frames
<1> QED BY <1>1, <1>2, <1>3, <1>4 DEF FrameSound, dev

\* Binding and unbinding do not touch the life of devices.
LEMMA LifeAlone ==
  ASSUME IInv, UNCHANGED <<life, handed>>, ~handed,
         mishaps' \subseteq mishaps \cup {"bind", "unbind"}, mishaps \subseteq mishaps',
         \A j \in 1 .. depth : calls[j].op \in {"bind", "unbind"},
         \A j \in 1 .. depth' : calls'[j].op \in {"bind", "unbind"}
                                  /\ calls'[j].at \in {"enter", "hooks", "children"},
         depth' \in Nat
  PROVE  LifeSound' /\ CalmSound' /\ PrivSound' /\ HandSound'
<1>1. /\ active' = active /\ priv' = priv /\ seq' = seq /\ ~handed'
      /\ "orphan" \in mishaps' <=> "orphan" \in mishaps
      /\ "remove" \in mishaps' <=> "remove" \in mishaps
      /\ "reentered" \in mishaps' <=> "reentered" \in mishaps
  BY DEF life
<1>2. Calm' <=> Calm
  BY <1>1 DEF Calm
<1>3. LifeSound'
  BY <1>1 DEF IInv, LifeSound, SeqsDiffer, Waiting
<1>4. CalmSound'
  <2>1. ASSUME NEW j \in 1 .. depth' PROVE ~Running(j)' /\ calls'[j].op # "remove"
    BY DEF Running
  <2>2. depth' > 0 => ~Waiting(depth)'
    BY DEF Waiting
  <2>3. Calm' => UpClosed(active')
    BY <1>1, <1>2 DEF IInv, CalmSound
  <2> QED BY <2>1, <2>2, <2>3 DEF CalmSound, UpClosed
<1>5. PrivSound'
  BY <1>1, <1>2 DEF IInv, PrivSound, Waiting
<1>6. HandSound'
  BY <1>1 DEF HandSound
<1> QED BY <1>3, <1>4, <1>5, <1>6
-----------------------------------------------------------------------------
(***************************************************************************)
(* Bind.                                                                   *)
(***************************************************************************)
LEMMA ClearMore ==
  ASSUME NEW c \in Devices, NEW d \in Devices, Clear(c), c # d,
         Parent[d] \in linked \cup {Root}, linked' = linked \cup {d}
  PROVE  Clear(c)'
<1>1. PICK S \in SUBSET Devices :
         /\ c \in S /\ S \cap linked = {}
         /\ \A y \in Devices : Parent[y] \in S => y \in S
  BY DEF Clear
<1>2. Parent[d] \notin S
  BY <1>1, DeviceAssumption
<1>3. /\ S \ {d} \in SUBSET Devices /\ c \in S \ {d} /\ (S \ {d}) \cap linked' = {}
      /\ \A y \in Devices : Parent[y] \in S \ {d} => y \in S \ {d}
  BY <1>1, <1>2
<1> QED BY <1>3 DEF Clear

LEMMA ClearLess ==
  ASSUME NEW c, Clear(c), linked' \subseteq linked
  PROVE  Clear(c)'
BY DEF Clear

LEMMA ClearBelow ==
  ASSUME NEW c \in Devices, Clear(Parent[c])
  PROVE  Clear(c)
BY DEF Clear

LEMMA ClearUnlinked ==
  ASSUME NEW c, Clear(c)
  PROVE  c \notin linked
BY DEF Clear

\* A bind under way
LEMMA BindState ==
  ASSUME IInv, stack # <<>>, Top.op = "bind"
  PROVE  /\ depth \in Nat \ {0} /\ depth \in 1 .. depth /\ Top = calls[depth]
         /\ calls \in [1 .. depth -> Frames] /\ Top \in Frames
         /\ dev \in Devices /\ ~handed /\ FrameSound(Top)
         /\ Parent[dev] \in linked \cup {Root}
         /\ \A j \in 1 .. depth : calls[j].op = "bind" /\ calls[j].at \in {"enter", "hooks"}
         /\ \A j \in 1 .. depth - 1 : calls[j].at = "hooks"
         /\ depth > 1 => Parent[dev] = calls[depth - 1].dev
<1>1. /\ depth \in Nat \ {0} /\ depth \in 1 .. depth /\ Top = calls[depth]
      /\ calls \in [1 .. depth -> Frames] /\ Top \in Frames
  BY CallsType DEF IInv
<1>2. FrameSound(Top) /\ (depth > 1 => Called(calls[depth - 1], Top))
  BY TopSound DEF IInv
<1>3. ~handed /\ dev \in Devices
  <2>1. ~handed
    BY <1>2 DEF FrameSound
  <2> QED BY <2>1, TopSound DEF IInv
<1>4. ASSUME NEW j \in 1 .. depth
      PROVE  calls[j].op = "bind" /\ calls[j].at \in {"enter", "hooks"}
  <2>1. calls[j].op = "bind" /\ FrameSound(calls[j])
    BY Homogeneous DEF IInv, StackSound
  <2> QED BY <2>1 DEF FrameSound, Stages
<1>5. ASSUME NEW j \in 1 .. depth - 1 PROVE calls[j].at = "hooks"
  <2>1. j \in 1 .. depth /\ Called(calls[j], calls[j + 1])
    BY <1>1 DEF IInv, StackSound
  <2> QED BY <1>4, <2>1 DEF Called
<1>6. depth > 1 => Parent[dev] = calls[depth - 1].dev
  <2>1. SUFFICES ASSUME depth > 1 PROVE Parent[dev] = calls[depth - 1].dev
    OBVIOUS
  <2>2. depth - 1 \in 1 .. depth
    BY <1>1, <2>1
  <2>3. calls[depth - 1].op = "bind"
    BY <1>4, <2>2
  <2> QED BY <1>2, <2>1, <2>3 DEF Called, dev
<1>7. Parent[dev] \in linked \cup {Root}
  <2>1. CASE depth = 1
    <3>1. Parent[calls[1].dev] \in bound \cup {Root}
      BY <1>1, <1>4, <2>1 DEF IInv, BindSound
    <3> QED BY <1>1, <2>1, <3>1 DEF IInv, TypeOK, dev
  <2>2. CASE depth > 1
    <3>1. depth - 1 \in 1 .. depth /\ depth - 1 \in 1 .. depth - 1
      BY <1>1, <2>2
    <3>2. calls[depth - 1].dev \in linked
      BY <1>4, <1>5, <3>1 DEF IInv, BindSound
    <3> QED BY <1>6, <2>2, <3>2
  <2> QED BY <1>1, <2>1, <2>2
<1> QED BY <1>1, <1>2, <1>3, <1>4, <1>5, <1>6, <1>7

\* The innermost bind ends, whatever it did to the lists, when it leaves its
\* device either as it was or bound.
LEMMA BindEnds ==
  ASSUME IInv, stack # <<>>, Top.op = "bind", stack' = Tail(stack),
         ret' \in BOOLEAN, UNCHANGED <<life, handed>>,
         mishaps' \in {mishaps, mishaps \cup {"bind"}},
         \/ UNCHANGED lists /\ mishaps' = mishaps /\ Top.at = "enter"
         \/ UNCHANGED <<linked, plat>> /\ mishaps' = mishaps /\ Top.at = "hooks"
              /\ bound' = bound \cup {dev}
         \/ /\ linked' = linked \ {dev} /\ plat' = plat \ {dev} /\ Top.at = "hooks"
            /\ bound' = bound
            /\ "bind" \notin mishaps' => Children(dev) = {}
  PROVE  IInv'
<1>1. /\ depth \in Nat \ {0} /\ depth \in 1 .. depth /\ Top = calls[depth]
      /\ calls \in [1 .. depth -> Frames] /\ Top \in Frames
      /\ dev \in Devices /\ ~handed
      /\ Parent[dev] \in linked \cup {Root}
      /\ \A j \in 1 .. depth : calls[j].op = "bind" /\ calls[j].at \in {"enter", "hooks"}
      /\ \A j \in 1 .. depth - 1 : calls[j].at = "hooks"
      /\ depth > 1 => Parent[dev] = calls[depth - 1].dev
  BY BindState
<1>2. stack' \in Seq(Frames) /\ Pops /\ StackSound'
  BY PopSound DEF IInv
<1>3. /\ depth' = depth - 1 /\ depth' \in Nat
      /\ \A j \in 1 .. depth' : calls'[j] = calls[j] /\ j \in 1 .. depth /\ j # depth
                                  /\ calls[j].dev # dev /\ calls[j].at = "hooks"
  <2>1. depth' = depth - 1 /\ \A j \in 1 .. depth - 1 : calls'[j] = calls[j]
    BY <1>2 DEF Pops
  <2>2. \A j \in 1 .. depth - 1 : calls[j].dev # calls[depth].dev
    BY <1>1 DEF IInv, BindSound
  <2> QED BY <1>1, <2>1, <2>2 DEF dev
<1>4. Top.at = "hooks" => dev \in (linked \cap plat) \ bound
  BY <1>1 DEF IInv, BindSound, dev
<1>5. TypeOK'
  BY <1>2, <1>4 DEF IInv, TypeOK, lists, life
<1>6. ListsSound'
  <2>1. active' \subseteq bound'
    BY DEF IInv, ListsSound, life, lists
  <2>2. \A j \in 1 .. depth' : calls'[j].op = "bind"
    BY <1>1, <1>3
  <2>3. "unbind" \notin mishaps' => bound' \subseteq plat'
    BY <1>4 DEF IInv, ListsSound, lists
  <2>4. ASSUME "bind" \notin mishaps' PROVE UpClosed(linked')
    <3>1. "bind" \notin mishaps /\ UpClosed(linked)
      BY <2>4 DEF IInv, ListsSound
    <3>2. CASE linked' = linked
      BY <3>1, <3>2
    <3>3. CASE linked' = linked \ {dev} /\ Children(dev) = {}
      BY <3>1, <3>3 DEF UpClosed, Children
    <3> QED BY <2>4, <3>2, <3>3 DEF lists
  <2>5. ASSUME "bind" \notin mishaps', NEW d \in bound'
        PROVE  \/ Parent[d] \in bound' \cup {Root}
               \/ \E j \in 1 .. depth' : Binding(j)' /\ Parent[d] = calls'[j].dev
    <3>1. d \in bound \/ (d = dev /\ bound' = bound \cup {dev})
      BY DEF lists
    <3>2. \A j \in 1 .. depth' : Binding(j)'
      BY <1>1, <1>3 DEF Binding
    <3>3. CASE d \in bound
      <4>1. CASE Parent[d] \in bound \cup {Root}
        BY <4>1 DEF lists
      <4>2. ASSUME NEW j \in 1 .. depth, Binding(j), Parent[d] = calls[j].dev
            PROVE  \/ Parent[d] \in bound' \cup {Root}
                   \/ \E i \in 1 .. depth' : Binding(i)' /\ Parent[d] = calls'[i].dev
        <5>1. CASE j # depth
          <6>1. j \in 1 .. depth'
            BY <1>1, <1>3, <5>1
          <6> QED BY <1>3, <3>2, <4>2, <6>1
        <5>2. CASE j = depth
          <6>1. Top.at = "hooks" /\ Parent[d] = dev
            BY <1>1, <4>2, <5>2 DEF Binding, dev
          <6>2. d \in linked /\ d \in Devices
            BY <3>3 DEF IInv, TypeOK
          <6>3. d \in Children(dev)
            BY <6>1, <6>2 DEF Children
          <6>4. dev \in bound'
            BY <2>5, <6>1, <6>3 DEF lists
          <6> QED BY <6>1, <6>4
        <5> QED BY <5>1, <5>2
      <4>3. "bind" \notin mishaps
        BY <2>5
      <4>4. \/ Parent[d] \in bound \cup {Root}
            \/ \E j \in 1 .. depth : Binding(j) /\ Parent[d] = calls[j].dev
        BY <3>3, <4>3 DEF IInv, ListsSound
      <4> QED BY <4>1, <4>2, <4>4
    <3>4. CASE d = dev /\ bound' = bound \cup {dev}
      <4>1. CASE depth = 1
        <5>1. Parent[calls[1].dev] \in bound \cup {Root}
          BY <1>1, <4>1 DEF IInv, BindSound
        <5> QED BY <1>1, <3>4, <4>1, <5>1 DEF dev
      <4>2. CASE depth > 1
        <5>1. depth - 1 \in 1 .. depth'
          BY <1>1, <1>3, <4>2
        <5> QED BY <1>1, <1>3, <3>2, <3>4, <4>2, <5>1
      <4> QED BY <1>1, <4>1, <4>2
    <3> QED BY <3>1, <3>3, <3>4
  <2> QED BY <2>1, <2>2, <2>3, <2>4, <2>5 DEF ListsSound, UpClosed
<1>7. BindSound'
  <2>1. linked' \subseteq linked
    BY DEF lists
  <2>2. ASSUME NEW j \in 1 .. depth'
        PROVE  /\ calls'[j].at = "enter" => Clear(calls[j].dev)'
               /\ calls'[j].at = "hooks" =>
                    /\ calls'[j].dev \in (linked' \cap plat') \ bound'
                    /\ \A c \in calls'[j].todo : Clear(c)'
               /\ j < depth' => calls'[j + 1].dev \notin calls'[j].todo
               /\ j = 1 => Parent[calls'[j].dev] \in bound' \cup {Root}
               /\ \A i \in 1 .. j - 1 : calls'[i].dev # calls'[j].dev
    <3>1. /\ calls'[j] = calls[j] /\ j \in 1 .. depth /\ j # depth
          /\ calls[j].dev # dev /\ calls[j].op = "bind" /\ calls[j].at = "hooks"
      BY <1>1, <1>3
    <3>2. /\ calls[j].dev \in (linked \cap plat) \ bound
          /\ \A c \in calls[j].todo : Clear(c)
          /\ j < depth => calls[j + 1].dev \notin calls[j].todo
          /\ j = 1 => Parent[calls[j].dev] \in bound \cup {Root}
          /\ \A i \in 1 .. j - 1 : calls[i].dev # calls[j].dev
      BY <3>1 DEF IInv, BindSound
    <3>3. calls'[j].dev \in (linked' \cap plat') \ bound'
      BY <3>1, <3>2 DEF lists
    <3>4. \A c \in calls'[j].todo : Clear(c)'
      BY <2>1, <3>1, <3>2, ClearLess
    <3>5. j < depth' => calls'[j + 1].dev \notin calls'[j].todo
      <4>1. SUFFICES ASSUME j < depth' PROVE calls'[j + 1].dev \notin calls'[j].todo
        OBVIOUS
      <4>2. j + 1 \in 1 .. depth' /\ j < depth
        BY <1>1, <1>3, <4>1
      <4> QED BY <1>3, <3>1, <3>2, <4>2
    <3>6. j = 1 => Parent[calls'[j].dev] \in bound' \cup {Root}
      BY <3>1, <3>2 DEF lists
    <3>7. ASSUME NEW i \in 1 .. j - 1 PROVE calls'[i].dev # calls'[j].dev
      <4>1. i \in 1 .. depth'
        BY <1>1, <1>3
      <4> QED BY <1>3, <3>1, <3>2, <4>1
    <3> QED BY <3>1, <3>3, <3>4, <3>5, <3>6, <3>7
  <2> QED BY <2>2 DEF BindSound
<1>8. UnbindSound'
  BY <1>1, <1>3 DEF UnbindSound
<1>9. LifeSound' /\ CalmSound' /\ PrivSound' /\ HandSound'
  <2>1. mishaps' \subseteq mishaps \cup {"bind", "unbind"} /\ mishaps \subseteq mishaps'
    OBVIOUS
  <2>2. \A j \in 1 .. depth : calls[j].op \in {"bind", "unbind"}
    BY <1>1
  <2>3. \A j \in 1 .. depth' : calls'[j].op \in {"bind", "unbind"}
                                 /\ calls'[j].at \in {"enter", "hooks", "children"}
    BY <1>1, <1>3
  <2> QED BY <1>1, <1>3, <2>1, <2>2, <2>3, LifeAlone
<1> QED BY <1>2, <1>5, <1>6, <1>7, <1>8, <1>9 DEF IInv

\* device_bind_common() has entered the device in the lists.
LEMMA BindEnters ==
  ASSUME IInv, stack # <<>>, Top.op = "bind", Top.at = "enter",
         linked' = linked \cup {dev}, plat' = plat \cup {dev},
         Goto("hooks", {c \in Devices : Parent[c] = dev}),
         UNCHANGED <<bound, life, handed, mishaps>>
  PROVE  IInv'
<1> DEFINE kids == {c \in Devices : Parent[c] = dev}
           f == [Top EXCEPT !.at = "hooks", !.todo = kids]
<1>1. /\ depth \in Nat \ {0} /\ depth \in 1 .. depth /\ Top = calls[depth]
      /\ calls \in [1 .. depth -> Frames] /\ Top \in Frames
      /\ dev \in Devices /\ ~handed
      /\ Parent[dev] \in linked \cup {Root}
      /\ \A j \in 1 .. depth : calls[j].op = "bind" /\ calls[j].at \in {"enter", "hooks"}
      /\ \A j \in 1 .. depth - 1 : calls[j].at = "hooks"
      /\ depth > 1 => Parent[dev] = calls[depth - 1].dev
  BY BindState
<1>2. SameCall(f) /\ f.at = "hooks" /\ f.todo = kids /\ f.op = "bind" /\ f.dev = dev
  BY <1>1 DEF SameCall, Frames, dev
<1>3. stack' = <<f>> \o Tail(stack) /\ ret' = TRUE
  BY DEF Goto
<1> HIDE DEF f, kids
<1>4. stack' \in Seq(Frames) /\ Changes(f) /\ StackSound'
  <2>1. f.at \in Stages(f.op)
    BY <1>2 DEF Stages
  <2>2. \A c \in f.todo : Parent[c] = f.dev
    BY <1>2 DEF kids
  <2> QED BY <1>1, <1>2, <1>3, <2>1, <2>2, ChangeSound DEF IInv
<1>5. /\ depth' = depth /\ calls'[depth] = f
      /\ \A j \in 1 .. depth : j # depth =>
           calls'[j] = calls[j] /\ j \in 1 .. depth - 1 /\ calls[j].at = "hooks"
      /\ \A j \in 1 .. depth : calls'[j].op = "bind" /\ calls'[j].at = "hooks"
                                 /\ calls'[j].dev = calls[j].dev
  BY <1>1, <1>2, <1>4 DEF Changes, dev
<1>6. Clear(dev)
  BY <1>1 DEF IInv, BindSound, dev
<1>7. dev \notin linked /\ dev \notin bound
  BY <1>6, ClearUnlinked DEF IInv, TypeOK
<1>8. TypeOK'
  BY <1>1, <1>3, <1>4 DEF IInv, TypeOK, life
<1>9. ListsSound'
  <2>1. "bind" \notin mishaps' => UpClosed(linked')
    BY <1>1 DEF IInv, ListsSound, UpClosed
  <2>2. ASSUME "bind" \notin mishaps', NEW d \in bound'
        PROVE  \/ Parent[d] \in bound' \cup {Root}
               \/ \E j \in 1 .. depth' : Binding(j)' /\ Parent[d] = calls'[j].dev
    <3>1. \/ Parent[d] \in bound \cup {Root}
          \/ \E j \in 1 .. depth : Binding(j) /\ Parent[d] = calls[j].dev
      BY <2>2 DEF IInv, ListsSound
    <3> QED BY <1>5, <3>1 DEF Binding
  <2>3. "unbind" \notin mishaps' => bound' \subseteq plat'
    BY DEF IInv, ListsSound
  <2>4. active' \subseteq bound'
    BY DEF IInv, ListsSound, life
  <2> QED BY <1>5, <2>1, <2>2, <2>3, <2>4 DEF ListsSound, UpClosed
<1>10. BindSound'
  <2>1. ASSUME NEW c \in Devices, Clear(c), c # dev PROVE Clear(c)'
    BY <1>1, <2>1, ClearMore
  <2>2. ASSUME NEW j \in 1 .. depth
        PROVE  /\ calls'[j].dev \in (linked' \cap plat') \ bound'
               /\ \A c \in calls'[j].todo : Clear(c)'
               /\ j < depth => calls'[j + 1].dev \notin calls'[j].todo
               /\ j = 1 => Parent[calls'[j].dev] \in bound' \cup {Root}
               /\ \A i \in 1 .. j - 1 : calls'[i].dev # calls'[j].dev
    <3>1. /\ j < depth => calls[j + 1].dev \notin calls[j].todo
          /\ j = 1 => Parent[calls[j].dev] \in bound \cup {Root}
          /\ \A i \in 1 .. j - 1 : calls[i].dev # calls[j].dev
          /\ calls[j].at = "hooks" => /\ calls[j].dev \in (linked \cap plat) \ bound
                                      /\ \A c \in calls[j].todo : Clear(c)
      BY <1>1 DEF IInv, BindSound
    <3>2. j = 1 => Parent[calls'[j].dev] \in bound' \cup {Root}
      BY <1>5, <3>1
    <3>3. ASSUME NEW i \in 1 .. j - 1 PROVE calls'[i].dev # calls'[j].dev
      <4>1. i \in 1 .. depth
        BY <1>1
      <4> QED BY <1>5, <3>1, <4>1
    <3>4. CASE j = depth
      <4>1. calls'[j].dev = dev /\ calls'[j].todo = kids
        BY <1>2, <1>5, <3>4
      <4>2. ASSUME NEW c \in kids PROVE Clear(c)'
        <5>1. c \in Devices /\ Parent[c] = dev
          BY DEF kids
        <5>2. c # dev
          BY <1>7, <5>1, <1>1, DeviceAssumption
        <5> QED BY <1>6, <2>1, <5>1, <5>2, ClearBelow
      <4> QED BY <1>1, <1>7, <3>2, <3>3, <3>4, <4>1, <4>2
    <3>5. CASE j # depth
      <4>1. /\ calls'[j] = calls[j] /\ j \in 1 .. depth - 1 /\ calls[j].at = "hooks"
            /\ j + 1 \in 1 .. depth
        BY <1>1, <1>5, <3>5
      <4>2. calls[j].dev \in (linked \cap plat) \ bound /\ \A c \in calls[j].todo : Clear(c)
        BY <3>1, <4>1
      <4>3. j < depth => calls'[j + 1].dev \notin calls'[j].todo
        BY <1>5, <3>1, <4>1
      <4>4. ASSUME NEW c \in calls[j].todo PROVE Clear(c)'
        <5>1. c \in Devices /\ Parent[c] = calls[j].dev
          <6>1. calls[j] \in Frames /\ FrameSound(calls[j]) /\ calls[j].op = "bind"
            BY <1>1 DEF IInv, StackSound
          <6> QED BY <6>1 DEF FrameSound, Frames
        <5>2. c # dev
          <6>1. SUFFICES ASSUME c = dev PROVE FALSE
            OBVIOUS
          <6>2. depth > 1 /\ depth - 1 \in 1 .. depth /\ Parent[dev] = calls[depth - 1].dev
            BY <1>1, <4>1
          <6>3. calls[depth - 1].dev = calls[j].dev
            BY <5>1, <6>1, <6>2
          <6>4. CASE j = depth - 1
            BY <1>1, <3>1, <4>1, <6>1, <6>4 DEF dev
          <6>5. CASE j # depth - 1
            <7>1. j \in 1 .. (depth - 1) - 1
              BY <1>1, <4>1, <6>5
            <7> QED BY <1>1, <6>2, <6>3, <7>1 DEF IInv, BindSound
          <6> QED BY <6>4, <6>5
        <5> QED BY <2>1, <4>2, <5>1, <5>2
      <4> QED BY <3>2, <3>3, <4>1, <4>2, <4>3, <4>4
    <3> QED BY <3>4, <3>5
  <2> QED BY <1>5, <2>2 DEF BindSound
<1>11. UnbindSound'
  BY <1>5 DEF UnbindSound
<1>12. LifeSound' /\ CalmSound' /\ PrivSound' /\ HandSound'
  <2>1. /\ mishaps' \subseteq mishaps \cup {"bind", "unbind"} /\ mishaps \subseteq mishaps'
        /\ \A j \in 1 .. depth : calls[j].op \in {"bind", "unbind"}
        /\ \A j \in 1 .. depth' : calls'[j].op \in {"bind", "unbind"}
                                 /\ calls'[j].at \in {"enter", "hooks", "children"}
    BY <1>1, <1>5
  <2> QED BY <1>1, <1>5, <2>1, LifeAlone
<1> QED BY <1>4, <1>8, <1>9, <1>10, <1>11, <1>12 DEF IInv

\* A hook of a bind binds a child.
LEMMA BindChildIInv ==
  ASSUME IInv, BindChild
  PROVE  IInv'
<1>1. /\ stack # <<>> /\ Top.op = "bind" /\ Top.at = "hooks"
      /\ UNCHANGED <<lists, life, handed, mishaps>>
  BY DEF BindChild, At
<1>2. PICK c \in Top.todo : Call("hooks", Top.todo \ {c}, Frame("bind", c, TRUE))
  BY DEF BindChild
<1> DEFINE f == [Top EXCEPT !.at = "hooks", !.todo = Top.todo \ {c}]
           g == Frame("bind", c, TRUE)
<1>3. /\ depth \in Nat \ {0} /\ depth \in 1 .. depth /\ Top = calls[depth]
      /\ calls \in [1 .. depth -> Frames] /\ Top \in Frames
      /\ dev \in Devices /\ ~handed /\ FrameSound(Top)
      /\ \A j \in 1 .. depth : calls[j].op = "bind" /\ calls[j].at \in {"enter", "hooks"}
      /\ \A j \in 1 .. depth - 1 : calls[j].at = "hooks"
  BY <1>1, BindState
<1>4. c \in Devices /\ Parent[c] = dev
  BY <1>1, <1>3 DEF Frames, FrameSound, dev
<1>5. /\ SameCall(f) /\ f.op = "bind" /\ f.at = "hooks" /\ f.todo = Top.todo \ {c}
      /\ f.dev = dev
  BY <1>1, <1>3 DEF SameCall, Frames, dev
<1>6. /\ g \in Frames /\ g.op = "bind" /\ g.at = "enter" /\ g.dev = c /\ g.normal = TRUE
      /\ g.todo = {}
  BY <1>4 DEF Frame, Frames
<1>7. stack' = <<g, f>> \o Tail(stack) /\ ret' = TRUE
  BY <1>2 DEF Call
<1> HIDE DEF f, g
<1>8. stack' \in Seq(Frames) /\ Pushes(f, g) /\ StackSound'
  <2>1. f.at \in Stages(f.op) /\ \A x \in f.todo : Parent[x] = f.dev
    BY <1>1, <1>3, <1>5 DEF Stages, FrameSound, dev
  <2>2. FrameSound(g)
    <3>1. g.dev # Root
      BY <1>4, <1>6, DeviceAssumption
    <3> QED BY <1>3, <1>6, <3>1 DEF FrameSound, Stages
  <2>3. Called(f, g)
    BY <1>4, <1>5, <1>6 DEF Called
  <2> QED BY <1>1, <1>5, <1>6, <1>7, <2>1, <2>2, <2>3, PushSound DEF IInv
<1>9. /\ depth' = depth + 1 /\ calls'[depth] = f /\ calls'[depth + 1] = g
      /\ \A j \in 1 .. depth - 1 : calls'[j] = calls[j] /\ j \in 1 .. depth /\ j + 1 \in 1 .. depth
      /\ \A j \in 1 .. depth : calls'[j].op = "bind" /\ calls'[j].dev = calls[j].dev
                                 /\ calls'[j].at = "hooks"
  BY <1>1, <1>3, <1>5, <1>8 DEF Pushes, dev
<1>10. /\ active' = active /\ linked' = linked /\ bound' = bound /\ plat' = plat
       /\ mishaps' = mishaps
  BY <1>1 DEF lists, life
<1>11. TypeOK'
  BY <1>1, <1>7, <1>8 DEF IInv, TypeOK, life, lists
<1>12. ListsSound'
  <2>1. ASSUME "bind" \notin mishaps', NEW d \in bound'
        PROVE  \/ Parent[d] \in bound' \cup {Root}
               \/ \E j \in 1 .. depth' : Binding(j)' /\ Parent[d] = calls'[j].dev
    <3>1. \/ Parent[d] \in bound \cup {Root}
          \/ \E j \in 1 .. depth : Binding(j) /\ Parent[d] = calls[j].dev
      BY <1>10, <2>1 DEF IInv, ListsSound
    <3>2. \A j \in 1 .. depth : j \in 1 .. depth' /\ Binding(j)' /\ calls'[j].dev = calls[j].dev
      BY <1>3, <1>9 DEF Binding
    <3> QED BY <1>10, <3>1, <3>2
  <2>2. \A j \in 1 .. depth' : calls'[j].op = "bind"
    BY <1>3, <1>6, <1>9
  <2> QED BY <1>10, <2>1, <2>2 DEF IInv, ListsSound, UpClosed
<1>13. BindSound'
  <2>1. \A x : Clear(x) => Clear(x)'
    BY <1>10 DEF Clear
  <2>2. Clear(c) /\ c \notin linked
    <3>1. Clear(c)
      BY <1>1, <1>3 DEF IInv, BindSound
    <3> QED BY <3>1, ClearUnlinked
  <2>3. ASSUME NEW j \in 1 .. depth + 1
        PROVE  /\ calls'[j].at = "enter" => Clear(calls[j].dev)'
               /\ calls'[j].at = "hooks" =>
                    /\ calls'[j].dev \in (linked' \cap plat') \ bound'
                    /\ \A x \in calls'[j].todo : Clear(x)'
               /\ j < depth + 1 => calls'[j + 1].dev \notin calls'[j].todo
               /\ j = 1 => Parent[calls'[j].dev] \in bound' \cup {Root}
               /\ \A i \in 1 .. j - 1 : calls'[i].dev # calls'[j].dev
    <3>1. CASE j = depth + 1
      <4>1. calls'[j] = g /\ j # 1 /\ ~(j < depth + 1)
        BY <1>3, <1>9, <3>1
      <4>2. Clear(calls[j].dev)'
        <5>1. calls'[j].dev = c
          BY <1>6, <4>1
        <5>2. Clear(c)'
          BY <2>1, <2>2
        <5> QED BY <5>1, <5>2 DEF Clear
      <4>3. ASSUME NEW i \in 1 .. j - 1 PROVE calls'[i].dev # c
        <5>1. i \in 1 .. depth /\ calls'[i].dev = calls[i].dev
          BY <1>3, <1>9, <3>1
        <5>2. calls[i].at = "hooks"
          BY <1>1, <1>3, <5>1
        <5>3. calls[i].dev \in linked
          BY <1>3, <5>1, <5>2 DEF IInv, BindSound
        <5> QED BY <2>2, <5>1, <5>3
      <4> QED BY <1>6, <4>1, <4>2, <4>3
    <3>2. CASE j \in 1 .. depth
      <4>1. /\ calls[j].at = "hooks" /\ calls'[j].at = "hooks" /\ calls'[j].dev = calls[j].dev
            /\ calls[j].op = "bind"
        BY <1>1, <1>3, <1>9, <3>2
      <4>2. /\ calls[j].dev \in (linked \cap plat) \ bound
            /\ \A x \in calls[j].todo : Clear(x)
            /\ j < depth => calls[j + 1].dev \notin calls[j].todo
            /\ j = 1 => Parent[calls[j].dev] \in bound \cup {Root}
            /\ \A i \in 1 .. j - 1 : calls[i].dev # calls[j].dev
        BY <3>2, <4>1 DEF IInv, BindSound
      <4>3. calls'[j].todo \subseteq calls[j].todo
        BY <1>3, <1>5, <1>9, <3>2
      <4>4. calls'[j + 1].dev \notin calls'[j].todo
        <5>1. CASE j = depth
          BY <1>5, <1>6, <1>9, <5>1
        <5>2. CASE j # depth
          <6>1. j \in 1 .. depth - 1 /\ j < depth
            BY <1>3, <3>2, <5>2
          <6>2. j + 1 \in 1 .. depth /\ calls'[j + 1].dev = calls[j + 1].dev
            BY <1>9, <6>1
          <6> QED BY <4>2, <4>3, <6>1, <6>2
        <5> QED BY <5>1, <5>2
      <4>5. ASSUME NEW i \in 1 .. j - 1 PROVE calls'[i].dev # calls'[j].dev
        <5>1. i \in 1 .. depth
          BY <1>3, <3>2
        <5> QED BY <1>9, <4>1, <4>2, <5>1
      <4> QED BY <1>10, <2>1, <4>1, <4>2, <4>3, <4>4, <4>5
    <3> QED BY <1>3, <3>1, <3>2
  <2> QED BY <1>9, <2>3 DEF BindSound
<1>14. UnbindSound'
  <2>1. \A j \in 1 .. depth' : calls'[j].op = "bind"
    BY <1>3, <1>6, <1>9
  <2> QED BY <2>1 DEF UnbindSound
<1>15. LifeSound' /\ CalmSound' /\ PrivSound' /\ HandSound'
  <2>1. \A j \in 1 .. depth' : calls'[j].op \in {"bind", "unbind"}
                                 /\ calls'[j].at \in {"enter", "hooks", "children"}
    BY <1>3, <1>6, <1>9
  <2>2. /\ mishaps' \subseteq mishaps \cup {"bind", "unbind"} /\ mishaps \subseteq mishaps'
        /\ \A j \in 1 .. depth : calls[j].op \in {"bind", "unbind"}
        /\ depth' \in Nat
    BY <1>3, <1>9, <1>10
  <2> QED BY <1>1, <1>3, <2>1, <2>2, LifeAlone
<1> QED BY <1>8, <1>11, <1>12, <1>13, <1>14, <1>15 DEF IInv

LEMMA BindIInv ==
  ASSUME IInv, BindEnter \/ BindDone \/ BindFails
  PROVE  IInv'
<1>1. stack # <<>> /\ Top.op = "bind"
  BY DEF BindEnter, BindDone, BindFails, At
<1>2. CASE BindEnter
  <2>1. Top.at = "enter" /\ UNCHANGED <<bound, life, handed, mishaps>>
    BY <1>2 DEF BindEnter, At
  <2>2. CASE /\ linked' = linked \cup {dev} /\ plat' = plat \cup {dev}
             /\ Goto("hooks", {c \in Devices : Parent[c] = dev})
    BY <1>1, <2>1, <2>2, BindEnters
  <2>3. CASE Return(FALSE) /\ UNCHANGED <<linked, plat>>
    <3>1. stack' = Tail(stack) /\ ret' = FALSE /\ UNCHANGED lists /\ UNCHANGED <<life, handed>>
          /\ mishaps' = mishaps
      BY <2>1, <2>3 DEF Return, lists
    <3> QED BY <1>1, <2>1, <3>1, BindEnds
  <2> QED BY <1>2, <2>2, <2>3 DEF BindEnter
<1>3. CASE BindDone
  <2>1. /\ stack' = Tail(stack) /\ ret' = TRUE /\ Top.at = "hooks"
        /\ UNCHANGED <<linked, plat>> /\ UNCHANGED <<life, handed>> /\ mishaps' = mishaps
        /\ bound' = bound \cup {dev}
    BY <1>3 DEF BindDone, Return, At
  <2> QED BY <1>1, <2>1, BindEnds
<1>4. CASE BindFails
  <2>1. /\ stack' = Tail(stack) /\ ret' = FALSE /\ Top.at = "hooks"
        /\ UNCHANGED <<life, handed>> /\ bound' = bound
        /\ linked' = linked \ {dev} /\ plat' = plat \ {dev}
    BY <1>4 DEF BindFails, Return, At
  <2>2. /\ mishaps' \in {mishaps, mishaps \cup {"bind"}}
        /\ "bind" \notin mishaps' => Children(dev) = {}
    BY <1>4 DEF BindFails, Mishap
  <2> QED BY <1>1, <2>1, <2>2, BindEnds
<1> QED BY <1>2, <1>3, <1>4
-----------------------------------------------------------------------------
(***************************************************************************)
(* Calls from outside.                                                     *)
(***************************************************************************)
LEMMA BeginIInv ==
  ASSUME IInv, NEW op \in Ops, NEW d \in Devices \cup {Root}, NEW normal \in BOOLEAN,
         Begin(op, d, normal), handed' = ~normal,
         normal => d \in Devices,
         ~normal => op = "remove" /\ d = Root,
         op = "bind" => d \notin linked /\ Parent[d] \in bound \cup {Root},
         op = "probe" => d \in bound
  PROVE  IInv'
<1> DEFINE g == Frame(op, d, normal)
<1>1. /\ stack = <<>> /\ ~handed /\ "bind" \notin mishaps /\ stack' = <<g>>
      /\ ret' = TRUE /\ UNCHANGED <<lists, life, mishaps>>
  BY DEF Begin
<1>2. /\ active' = active /\ linked' = linked /\ bound' = bound /\ plat' = plat
      /\ mishaps' = mishaps /\ priv' = priv /\ seq' = seq
  BY <1>1 DEF lists, life
<1>3. /\ g \in Frames /\ g.op = op /\ g.at = "enter" /\ g.dev = d /\ g.normal = normal
      /\ g.todo = {}
  BY DEF Frame, Frames, Ops
<1> HIDE DEF g
<1>4. /\ stack' \in Seq(Frames) /\ depth' = 1 /\ calls'[1] = g
      /\ 1 .. 1 = {1} /\ 1 .. 0 = {}
  BY <1>1, <1>3 DEF depth, calls, Outer
<1>5. TypeOK'
  BY <1>1, <1>2, <1>4 DEF IInv, TypeOK
<1>6. StackSound'
  <2>1. FrameSound(g)'
    <3>1. g.at \in Stages(g.op)
      BY <1>3 DEF Stages, Ops
    <3>2. g.dev = Root => ~normal
      BY <1>3, DeviceAssumption
    <3> QED BY <1>3, <3>1, <3>2 DEF FrameSound
  <2>2. \A j \in 1 .. depth' : FrameSound(calls[j])'
    BY <1>4, <2>1 DEF FrameSound
  <2>3. 1 .. depth' - 1 = {}
    BY <1>4
  <2>4. \A i, j \in 1 .. depth' : ~(i < j)
    BY <1>4
  <2> QED BY <2>2, <2>3, <2>4 DEF StackSound
<1>7. depth = 0 /\ 1 .. depth = {}
  BY <1>1, CallsType DEF IInv
<1>8. ListsSound'
  <2>1. UpClosed(linked) /\ \A x \in bound : Parent[x] \in bound \cup {Root}
    BY <1>1, <1>7 DEF IInv, ListsSound
  <2> QED BY <1>1, <1>2, <2>1 DEF IInv, ListsSound, UpClosed
<1>9. BindSound'
  <2>1. SUFFICES ASSUME op = "bind"
                 PROVE  Clear(calls[1].dev)' /\ Parent[d] \in bound \cup {Root}
    BY <1>2, <1>3, <1>4 DEF BindSound
  <2> DEFINE S == Devices \ linked
  <2>2. d \in Devices /\ d \in S
    BY <2>1
  <2>3. \A y \in Devices : Parent[y] \in S => y \in S
    BY <1>1, DeviceAssumption DEF IInv, ListsSound, UpClosed
  <2>4. S \in SUBSET Devices /\ S \cap linked' = {}
    BY <1>2
  <2> HIDE DEF S
  <2> QED BY <1>3, <1>4, <2>1, <2>2, <2>3, <2>4 DEF Clear
<1>10. UnbindSound'
  BY <1>3, <1>4 DEF UnbindSound
<1>11. LifeSound'
  <2>1. \A x \in priv : x \in active
    BY <1>7 DEF IInv, LifeSound
  <2> QED BY <1>2, <1>3, <1>4, <2>1 DEF IInv, LifeSound, SeqsDiffer
<1>12. CalmSound' /\ (Calm => UpClosed(active))
  <2>1. Calm => UpClosed(active)
    BY <1>1 DEF IInv, CalmSound
  <2>2. Calm' => Calm
    BY <1>2 DEF Calm
  <2>3. Calm' => UpClosed(active')
    BY <1>2, <2>1, <2>2
  <2>4. \A j \in 1 .. depth' : ~Running(j)' /\ ~Waiting(j)' /\ calls'[j].at = "enter"
    BY <1>3, <1>4 DEF Running, Waiting
  <2>5. depth' \in 1 .. depth'
    BY <1>4
  <2> QED BY <2>1, <2>3, <2>4, <2>5 DEF CalmSound, UpClosed
<1>13. PrivSound'
  BY <1>2, <1>3, <1>4, <1>7 DEF IInv, PrivSound, Calm, Waiting
<1>14. HandSound'
  <2>1. SUFFICES ASSUME ~normal, Calm PROVE HandSound'
    BY <1>2 DEF HandSound, Calm
  <2> DEFINE V == active \cup {Root}
  <2>2. calls'[1].dev = Root /\ calls'[1].at = "enter" /\ 1 \in 1 .. depth'
    BY <1>3, <1>4, <2>1
  <2>3. ASSUME NEW v \in V
        PROVE  \/ \E j \in 1 .. depth' :
                    \/ calls'[j].at = "children" /\ v \in calls'[j].todo
                    \/ calls'[j].at = "enter" /\ calls'[j].dev = v
               \/ v \in Devices /\ Parent[v] \in V
    <3>1. CASE v = Root
      BY <2>2, <3>1
    <3>2. CASE v \in active
      BY <1>12, <2>1, <3>2 DEF UpClosed, IInv, TypeOK
    <3> QED BY <3>1, <3>2
  <2>4. \A j \in 1 .. depth' : calls'[j].at # "children"
    BY <1>4, <2>2
  <2>5. V \in SUBSET (active' \cup {Root}) /\ \A a \in active' \cap Dma : a \in V
    BY <1>2
  <2> HIDE DEF V
  <2> QED BY <2>3, <2>4, <2>5 DEF HandSound
<1> QED BY <1>5, <1>6, <1>8, <1>9, <1>10, <1>11, <1>12, <1>13, <1>14 DEF IInv

LEMMA OutsideIInv ==
  ASSUME IInv, \/ \E d \in Devices : Bind(d)
               \/ \E d \in Devices, op \in {"probe", "remove", "unbind"} : Use(op, d)
               \/ HandOver
  PROVE  IInv'
<1>1. ASSUME NEW d \in Devices, Bind(d) PROVE IInv'
  <2>1. /\ Begin("bind", d, TRUE) /\ handed' = handed /\ d \notin linked
        /\ Parent[d] \in bound \cup {Root} /\ ~handed
    BY <1>1 DEF Bind, Begin
  <2>2. handed' = ~TRUE
    BY <2>1 DEF IInv, TypeOK
  <2> QED BY <2>1, <2>2, BeginIInv DEF Ops
<1>2. ASSUME NEW d \in Devices, NEW op \in {"probe", "remove", "unbind"}, Use(op, d)
      PROVE  IInv'
  <2>1. Begin(op, d, TRUE) /\ handed' = handed /\ d \in bound /\ ~handed
    BY <1>2 DEF Use, Begin
  <2>2. op \in Ops /\ op # "bind"
    BY DEF Ops
  <2>3. handed' = ~TRUE
    BY <2>1 DEF IInv, TypeOK
  <2> QED BY <2>1, <2>2, <2>3, BeginIInv
<1>3. ASSUME HandOver PROVE IInv'
  <2>1. Begin("remove", Root, FALSE) /\ handed' = TRUE
    BY <1>3 DEF HandOver
  <2> QED BY <2>1, BeginIInv DEF Ops
<1> QED BY <1>1, <1>2, <1>3
-----------------------------------------------------------------------------
(***************************************************************************)
(* Unbind.                                                                 *)
(***************************************************************************)
LEMMA UnbindState ==
  ASSUME IInv, stack # <<>>, Top.op = "unbind"
  PROVE  /\ depth \in Nat \ {0} /\ depth \in 1 .. depth /\ Top = calls[depth]
         /\ calls \in [1 .. depth -> Frames] /\ Top \in Frames
         /\ dev \in Devices /\ ~handed /\ FrameSound(Top) /\ "bind" \notin mishaps
         /\ UpClosed(linked) /\ \A d \in bound : Parent[d] \in bound \cup {Root}
         /\ \A j \in 1 .. depth : calls[j].op = "unbind" /\ calls[j].at \in {"enter", "children"}
<1>1. /\ depth \in Nat \ {0} /\ depth \in 1 .. depth /\ Top = calls[depth]
      /\ calls \in [1 .. depth -> Frames] /\ Top \in Frames
  BY CallsType DEF IInv
<1>2. FrameSound(Top) /\ ~handed
  <2>1. FrameSound(Top)
    BY TopSound DEF IInv
  <2> QED BY <2>1 DEF FrameSound
<1>3. dev \in Devices
  BY <1>2, TopSound DEF IInv
<1>4. ASSUME NEW j \in 1 .. depth
      PROVE  calls[j].op = "unbind" /\ calls[j].at \in {"enter", "children"}
  <2>1. calls[j].op = "unbind" /\ FrameSound(calls[j])
    BY Homogeneous DEF IInv, StackSound
  <2> QED BY <2>1 DEF FrameSound, Stages
<1>5. "bind" \notin mishaps
  BY <1>1 DEF IInv, ListsSound
<1>6. UpClosed(linked) /\ \A d \in bound : Parent[d] \in bound \cup {Root}
  BY <1>4, <1>5 DEF IInv, ListsSound, Binding
<1> QED BY <1>1, <1>2, <1>3, <1>4, <1>5, <1>6

LEMMA UnbindEnds ==
  ASSUME IInv, stack # <<>>, Top.op = "unbind", stack' = Tail(stack),
         UNCHANGED <<life, handed>>,
         mishaps' \in {mishaps, mishaps \cup {"unbind"}},
         \/ /\ ret' = FALSE /\ UNCHANGED <<linked, bound>>
            /\ plat' \in {plat, plat \ {dev}}
            /\ plat' = plat \/ "unbind" \in mishaps'
         \/ /\ ret' = TRUE /\ Children(dev) = {} /\ dev \notin active
            /\ linked' = linked \ {dev} /\ bound' = bound \ {dev} /\ plat' = plat \ {dev}
  PROVE  IInv'
<1>1. /\ depth \in Nat \ {0} /\ depth \in 1 .. depth /\ Top = calls[depth]
      /\ calls \in [1 .. depth -> Frames] /\ Top \in Frames
      /\ dev \in Devices /\ ~handed /\ "bind" \notin mishaps
      /\ UpClosed(linked) /\ \A d \in bound : Parent[d] \in bound \cup {Root}
      /\ \A j \in 1 .. depth : calls[j].op = "unbind" /\ calls[j].at \in {"enter", "children"}
  BY UnbindState
<1>2. stack' \in Seq(Frames) /\ Pops /\ StackSound'
  BY PopSound DEF IInv
<1>3. /\ depth' = depth - 1 /\ depth' \in Nat
      /\ \A j \in 1 .. depth' : calls'[j] = calls[j] /\ j \in 1 .. depth /\ j < depth
  BY <1>1, <1>2 DEF Pops
<1>4. /\ active' = active /\ linked' \subseteq linked /\ bound' \subseteq bound
      /\ "bind" \notin mishaps' /\ mishaps \subseteq mishaps'
      /\ mishaps' \subseteq mishaps \cup {"bind", "unbind"}
  BY <1>1 DEF life
<1>5. TypeOK'
  BY <1>2 DEF IInv, TypeOK, life
<1>6. ListsSound'
  <2>1. UpClosed(linked')
    BY <1>1 DEF UpClosed, Children
  <2>2. ASSUME NEW d \in bound' PROVE Parent[d] \in bound' \cup {Root}
    <3>1. d \in bound /\ d \in linked /\ d \in Devices
      BY <1>4 DEF IInv, TypeOK
    <3>2. CASE bound' = bound
      BY <1>1, <3>1, <3>2
    <3>3. CASE bound' = bound \ {dev} /\ Children(dev) = {}
      BY <1>1, <3>1, <3>3 DEF Children
    <3> QED BY <3>2, <3>3
  <2>3. "unbind" \notin mishaps' => bound' \subseteq plat'
    BY DEF IInv, ListsSound
  <2>4. active' \subseteq bound'
    BY <1>4 DEF IInv, ListsSound
  <2> QED BY <1>4, <2>1, <2>2, <2>3, <2>4 DEF ListsSound, UpClosed
<1>7. BindSound'
  BY <1>1, <1>3 DEF BindSound
<1>8. UnbindSound'
  <2>1. ASSUME NEW j \in 1 .. depth', calls'[j].at = "children"
        PROVE  /\ calls'[j].dev \notin active'
               /\ \A c \in Children(calls[j].dev)' :
                    \/ c \in calls'[j].todo
                    \/ calls'[j].failed
                    \/ j = depth' /\ ~ret'
                    \/ j < depth' /\ c = calls'[j + 1].dev
    <3>1. calls'[j] = calls[j] /\ j \in 1 .. depth /\ j < depth
      BY <1>3
    <3>2. /\ calls[j].dev \notin active
          /\ \A c \in Children(calls[j].dev) :
               \/ c \in calls[j].todo
               \/ calls[j].failed
               \/ j = depth /\ ~ret
               \/ j < depth /\ c = calls[j + 1].dev
      BY <1>1, <2>1, <3>1 DEF IInv, UnbindSound
    <3>3. ASSUME NEW c \in Children(calls[j].dev)'
          PROVE  \/ c \in calls'[j].todo
                 \/ calls'[j].failed
                 \/ j = depth' /\ ~ret'
                 \/ j < depth' /\ c = calls'[j + 1].dev
      <4>1. c \in Children(calls[j].dev) /\ c \in linked'
        BY <1>4, <3>1 DEF Children
      <4>2. CASE j # depth'
        <5>1. j + 1 \in 1 .. depth' /\ j < depth'
          BY <1>3, <4>2
        <5> QED BY <1>1, <1>3, <3>1, <3>2, <4>1, <5>1
      <4>3. CASE j = depth'
        <5>1. j + 1 = depth
          BY <1>1, <1>3, <4>3
        <5>2. c = calls[j + 1].dev => c = dev
          BY <1>1, <5>1 DEF dev
        <5>3. ~ret' \/ dev \notin linked'
          OBVIOUS
        <5>4. c \in calls[j].todo \/ calls[j].failed \/ c = dev
          BY <1>1, <3>1, <3>2, <4>1, <5>2
        <5> QED BY <3>1, <4>1, <4>3, <5>3, <5>4
      <4> QED BY <4>2, <4>3
    <3> QED BY <1>4, <3>1, <3>2, <3>3
  <2> QED BY <2>1 DEF UnbindSound
<1>9. LifeSound' /\ CalmSound' /\ PrivSound' /\ HandSound'
  <2>1. /\ \A j \in 1 .. depth : calls[j].op \in {"bind", "unbind"}
        /\ \A j \in 1 .. depth' : calls'[j].op \in {"bind", "unbind"}
                                   /\ calls'[j].at \in {"enter", "hooks", "children"}
    BY <1>1, <1>3
  <2> QED BY <1>1, <1>3, <1>4, <2>1, LifeAlone
<1> QED BY <1>2, <1>5, <1>6, <1>7, <1>8, <1>9 DEF IInv

\* device_unbind() goes on: with its children, or with the next of them.
LEMMA UnbindEnters ==
  ASSUME IInv, stack # <<>>, Top.op = "unbind",
         dev \in bound \ active, Goto("children", Children(dev)),
         UNCHANGED <<lists, life, handed, mishaps>>
  PROVE  IInv'
<1> DEFINE f == [Top EXCEPT !.at = "children", !.todo = Children(dev)]
<1>1. /\ depth \in Nat \ {0} /\ depth \in 1 .. depth /\ Top = calls[depth]
      /\ calls \in [1 .. depth -> Frames] /\ Top \in Frames
      /\ dev \in Devices /\ ~handed /\ "bind" \notin mishaps
      /\ UpClosed(linked) /\ \A d \in bound : Parent[d] \in bound \cup {Root}
      /\ \A j \in 1 .. depth : calls[j].op = "unbind" /\ calls[j].at \in {"enter", "children"}
  BY UnbindState
<1>2. Children(dev) \subseteq Devices /\ \A c \in Children(dev) : Parent[c] = dev
  BY DEF Children, IInv, TypeOK
<1>3. /\ SameCall(f) /\ f.at = "children" /\ f.todo = Children(dev) /\ f.op = "unbind"
      /\ f.dev = dev
  BY <1>1, <1>2 DEF SameCall, Frames, dev
<1>4. stack' = <<f>> \o Tail(stack) /\ ret' = TRUE
  BY DEF Goto
<1> HIDE DEF f
<1>5. stack' \in Seq(Frames) /\ Changes(f) /\ StackSound'
  <2>1. f.at \in Stages(f.op) /\ \A c \in f.todo : Parent[c] = f.dev
    BY <1>2, <1>3 DEF Stages
  <2> QED BY <1>3, <1>4, <2>1, ChangeSound DEF IInv
<1>6. /\ depth' = depth /\ calls'[depth] = f
      /\ \A j \in 1 .. depth : j # depth => calls'[j] = calls[j]
      /\ \A j \in 1 .. depth : calls'[j].op = "unbind" /\ calls'[j].at \in {"enter", "children"}
                                 /\ calls'[j].dev = calls[j].dev
  BY <1>1, <1>3, <1>5 DEF Changes, dev
<1>7. active' = active /\ linked' = linked /\ bound' = bound /\ plat' = plat
  BY DEF lists, life
<1>8. TypeOK'
  BY <1>4, <1>5, <1>7 DEF IInv, TypeOK, life
<1>9. ListsSound'
  BY <1>1, <1>7 DEF IInv, ListsSound, UpClosed
<1>10. BindSound'
  BY <1>6 DEF BindSound
<1>11. UnbindSound'
  <2>1. ASSUME NEW j \in 1 .. depth, calls'[j].at = "children"
        PROVE  /\ calls'[j].dev \notin active'
               /\ \A c \in Children(calls[j].dev)' :
                    \/ c \in calls'[j].todo
                    \/ calls'[j].failed
                    \/ j = depth' /\ ~ret'
                    \/ j < depth' /\ c = calls'[j + 1].dev
    <3>1. CASE j = depth
      BY <1>3, <1>6, <1>7, <3>1 DEF Children
    <3>2. CASE j # depth
      <4>1. calls'[j] = calls[j] /\ j < depth /\ j + 1 \in 1 .. depth
        BY <1>1, <1>6, <3>2
      <4> QED BY <1>1, <1>6, <1>7, <2>1, <4>1 DEF IInv, UnbindSound, Children
    <3> QED BY <3>1, <3>2
  <2> QED BY <1>6, <2>1 DEF UnbindSound
<1>12. LifeSound' /\ CalmSound' /\ PrivSound' /\ HandSound'
  <2>1. /\ \A j \in 1 .. depth : calls[j].op \in {"bind", "unbind"}
        /\ \A j \in 1 .. depth' : calls'[j].op \in {"bind", "unbind"}
                                   /\ calls'[j].at \in {"enter", "hooks", "children"}
        /\ mishaps' \subseteq mishaps \cup {"bind", "unbind"} /\ mishaps \subseteq mishaps'
        /\ depth' \in Nat
    BY <1>1, <1>6
  <2> QED BY <1>1, <2>1, LifeAlone
<1> QED BY <1>5, <1>8, <1>9, <1>10, <1>11, <1>12 DEF IInv

LEMMA UnbindChildIInv ==
  ASSUME IInv, UnbindChild
  PROVE  IInv'
<1>1. /\ stack # <<>> /\ Top.op = "unbind" /\ Top.at = "children"
      /\ UNCHANGED <<lists, life, handed, mishaps>> /\ ret' = TRUE
  BY DEF UnbindChild, At
<1>2. /\ depth \in Nat \ {0} /\ depth \in 1 .. depth /\ Top = calls[depth]
      /\ calls \in [1 .. depth -> Frames] /\ Top \in Frames
      /\ dev \in Devices /\ ~handed /\ FrameSound(Top) /\ "bind" \notin mishaps
      /\ UpClosed(linked) /\ \A d \in bound : Parent[d] \in bound \cup {Root}
      /\ \A j \in 1 .. depth : calls[j].op = "unbind" /\ calls[j].at \in {"enter", "children"}
  BY <1>1, UnbindState
<1>3. PICK c \in Top.todo :
        stack' = <<Frame("unbind", c, TRUE),
                   [Top EXCEPT !.todo = @ \ {c}, !.failed = @ \/ ~ret]>> \o Tail(stack)
  BY DEF UnbindChild
<1> DEFINE f == [Top EXCEPT !.todo = @ \ {c}, !.failed = @ \/ ~ret]
           g == Frame("unbind", c, TRUE)
<1>4. c \in Devices /\ Parent[c] = dev
  BY <1>1, <1>2 DEF Frames, FrameSound, dev
<1>5. /\ SameCall(f) /\ f.op = "unbind" /\ f.at = "children" /\ f.todo = Top.todo \ {c}
      /\ f.dev = dev /\ (Top.failed \/ ~ret => f.failed)
  BY <1>1, <1>2 DEF SameCall, Frames, dev
<1>6. g \in Frames /\ g.op = "unbind" /\ g.at = "enter" /\ g.dev = c /\ g.normal = TRUE
        /\ g.todo = {}
  BY <1>4 DEF Frame, Frames
<1>7. stack' = <<g, f>> \o Tail(stack)
  BY <1>3
<1> HIDE DEF f, g
<1>8. stack' \in Seq(Frames) /\ Pushes(f, g) /\ StackSound'
  <2>1. f.at \in Stages(f.op) /\ \A x \in f.todo : Parent[x] = f.dev
    BY <1>1, <1>2, <1>5 DEF Stages, FrameSound, dev
  <2>2. FrameSound(g)
    <3>1. g.dev # Root
      BY <1>4, <1>6, DeviceAssumption
    <3> QED BY <1>2, <1>6, <3>1 DEF FrameSound, Stages
  <2>3. Called(f, g)
    BY <1>4, <1>5, <1>6 DEF Called
  <2> QED BY <1>1, <1>5, <1>6, <1>7, <2>1, <2>2, <2>3, PushSound DEF IInv
<1>9. /\ depth' = depth + 1 /\ calls'[depth] = f /\ calls'[depth + 1] = g
      /\ \A j \in 1 .. depth - 1 : calls'[j] = calls[j] /\ j \in 1 .. depth /\ j + 1 \in 1 .. depth
      /\ \A j \in 1 .. depth : calls'[j].dev = calls[j].dev
  BY <1>1, <1>2, <1>5, <1>8 DEF Pushes, dev
<1>10. \A j \in 1 .. depth' : calls'[j].op = "unbind" /\ calls'[j].at \in {"enter", "children"}
  <2>1. ASSUME NEW j \in 1 .. depth'
        PROVE  calls'[j].op = "unbind" /\ calls'[j].at \in {"enter", "children"}
    <3>1. j = depth + 1 \/ j = depth \/ j \in 1 .. depth - 1
      BY <1>2, <1>9
    <3> QED BY <1>2, <1>5, <1>6, <1>9, <3>1
  <2> QED BY <2>1
<1>11. active' = active /\ linked' = linked /\ bound' = bound /\ plat' = plat /\ mishaps' = mishaps
  BY <1>1 DEF lists, life
<1>12. TypeOK'
  BY <1>1, <1>8, <1>11 DEF IInv, TypeOK, life
<1>13. ListsSound'
  BY <1>2, <1>11 DEF IInv, ListsSound, UpClosed
<1>14. BindSound'
  BY <1>10 DEF BindSound
<1>15. UnbindSound'
  <2>1. ASSUME NEW j \in 1 .. depth', calls'[j].at = "children"
        PROVE  /\ calls'[j].dev \notin active'
               /\ \A x \in Children(calls[j].dev)' :
                    \/ x \in calls'[j].todo
                    \/ calls'[j].failed
                    \/ j = depth' /\ ~ret'
                    \/ j < depth' /\ x = calls'[j + 1].dev
    <3>1. CASE j = depth
      <4>1. /\ dev \notin active
            /\ \A x \in Children(dev) : x \in Top.todo \/ Top.failed \/ ~ret
        BY <1>1, <1>2 DEF IInv, UnbindSound, dev
      <4>2. Children(calls[j].dev)' = Children(dev)
        BY <1>5, <1>9, <1>11, <3>1 DEF Children
      <4>3. j < depth'
        BY <1>2, <1>9, <3>1
      <4> QED BY <1>5, <1>6, <1>9, <1>11, <3>1, <4>1, <4>2, <4>3
    <3>2. CASE j \in 1 .. depth - 1
      <4>1. /\ calls'[j] = calls[j] /\ j < depth /\ j < depth' /\ j # depth
            /\ calls'[j + 1].dev = calls[j + 1].dev /\ j \in 1 .. depth
        BY <1>2, <1>9, <3>2
      <4> QED BY <1>2, <1>11, <2>1, <4>1 DEF IInv, UnbindSound, Children
    <3>3. CASE j = depth + 1
      BY <1>6, <1>9, <2>1, <3>3
    <3> QED BY <1>2, <1>9, <3>1, <3>2, <3>3
  <2> QED BY <2>1 DEF UnbindSound
<1>16. LifeSound' /\ CalmSound' /\ PrivSound' /\ HandSound'
  <2>1. /\ \A j \in 1 .. depth : calls[j].op \in {"bind", "unbind"}
        /\ \A j \in 1 .. depth' : calls'[j].op \in {"bind", "unbind"}
                                   /\ calls'[j].at \in {"enter", "hooks", "children"}
        /\ mishaps' \subseteq mishaps \cup {"bind", "unbind"} /\ mishaps \subseteq mishaps'
        /\ depth' \in Nat
    BY <1>2, <1>9, <1>10, <1>11
  <2> QED BY <1>1, <1>2, <2>1, LifeAlone
<1> QED BY <1>8, <1>12, <1>13, <1>14, <1>15, <1>16 DEF IInv

LEMMA UnbindIInv ==
  ASSUME IInv, UnbindEnter \/ UnbindStops \/ UnbindDone
  PROVE  IInv'
<1>1. stack # <<>> /\ Top.op = "unbind"
  BY DEF UnbindEnter, UnbindStops, UnbindDone, At
<1>2. CASE UnbindEnter
  <2>1. UNCHANGED <<lists, life, handed, mishaps>>
    BY <1>2 DEF UnbindEnter
  <2>2. CASE dev \in bound \ active /\ Goto("children", Children(dev))
    BY <1>1, <2>1, <2>2, UnbindEnters
  <2>3. CASE Return(FALSE)
    BY <1>1, <2>1, <2>3, UnbindEnds DEF Return, lists
  <2> QED BY <1>2, <2>2, <2>3 DEF UnbindEnter
<1>3. CASE UnbindStops
  <2>1. UNCHANGED <<lists, life, handed, mishaps>> /\ Return(FALSE)
    BY <1>3 DEF UnbindStops
  <2> QED BY <1>1, <2>1, UnbindEnds DEF Return, lists
<1>4. CASE UnbindDone
  <2>1. /\ Top.at = "children" /\ Top.todo = {} /\ ~Top.failed /\ ret
        /\ plat' = plat \ {dev} /\ UNCHANGED <<life, handed>>
    BY <1>4 DEF UnbindDone, At
  <2>2. dev \notin active /\ Children(dev) = {}
    <3>1. depth \in 1 .. depth /\ ~(depth < depth) /\ Top = calls[depth]
      BY <1>1, CallsType DEF IInv
    <3> QED BY <1>1, <2>1, <3>1 DEF IInv, UnbindSound, dev
  <2>3. CASE /\ linked' = linked \ {dev} /\ bound' = bound \ {dev}
             /\ Return(TRUE) /\ UNCHANGED mishaps
    BY <1>1, <2>1, <2>2, <2>3, UnbindEnds DEF Return
  <2>4. CASE Return(FALSE) /\ Mishap("unbind", TRUE) /\ UNCHANGED <<linked, bound>>
    BY <1>1, <2>1, <2>4, UnbindEnds DEF Return, Mishap
  <2> QED BY <1>4, <2>3, <2>4 DEF UnbindDone
<1> QED BY <1>2, <1>3, <1>4
-----------------------------------------------------------------------------
(***************************************************************************)
(* Sequence numbers.                                                       *)
(***************************************************************************)
\* A non-empty set of natural numbers has a least member.
LEMMA LeastNatural ==
  ASSUME NEW T \in SUBSET Nat, T # {}
  PROVE  \E n \in T : \A m \in T : n <= m
<1> DEFINE R == OpToRel(<, Nat)
<1>1. IsWellFoundedOn(R, Nat)
  BY NatLessThanWellFounded
<1>2. \A m, n \in Nat : m < n => <<m, n>> \in R
  BY DEF OpToRel
<1> HIDE DEF R
<1>3. PICK n \in T : \A m \in T : ~ (<<m, n>> \in R)
  BY <1>1, WFMin
<1>4. ASSUME NEW m \in T PROVE n <= m
  <2>1. m \in Nat /\ n \in Nat
    OBVIOUS
  <2>2. ~ (<<m, n>> \in R)
    BY <1>3
  <2>3. ~ (m < n)
    BY <1>2, <2>1, <2>2
  <2> QED BY <2>1, <2>3
<1> QED BY <1>4

\* There are fewer numbers taken than the search looks at: uclass_resolve_seq()
\* finds one, and it is free.
LEMMA SeqIsFree ==
  ASSUME TypeOK, NEW d \in Devices
  PROVE  ResolveSeq(d) \in Nat /\ ResolveSeq(d) \notin Taken(d)
<1> DEFINE N == Cardinality(Devices)
           T == {x \in linked : Uclass[x] = Uclass[d]}
           f == [x \in T |-> seq[x]]
           M == DM_MAX_SEQ - 1
           free == (0 .. M) \ Taken(d)
<1>1. N \in Nat /\ M \in Nat /\ N <= M /\ IsFiniteSet(Devices)
  BY DeviceAssumption, FS_CardinalityType
<1>2. IsFiniteSet(T) /\ Cardinality(T) <= N /\ Cardinality(T) \in Nat
  <2>1. T \in SUBSET Devices
    BY DEF TypeOK
  <2> QED BY <1>1, <2>1, FS_Subset, FS_CardinalityType
<1>3. IsFiniteSet(Taken(d)) /\ Cardinality(Taken(d)) <= Cardinality(T)
        /\ Cardinality(Taken(d)) \in Nat
  <2>1. f \in Surjection(T, Taken(d))
    BY DEF Surjection, Taken
  <2> HIDE DEF T, f
  <2>2. IsFiniteSet(Taken(d)) /\ Cardinality(Taken(d)) <= Cardinality(T)
    BY <1>2, <2>1, FS_Surjection
  <2> QED BY <2>2, FS_CardinalityType
<1>4. IsFiniteSet(0 .. M) /\ Cardinality(0 .. M) = M + 1
  BY <1>1, FS_Interval
<1>5. free # {}
  <2>1. SUFFICES ASSUME free = {} PROVE FALSE
    OBVIOUS
  <2>2. 0 .. M \in SUBSET Taken(d)
    BY <2>1
  <2>3. Cardinality(0 .. M) <= Cardinality(Taken(d))
    BY <1>3, <2>2, FS_Subset
  <2> HIDE DEF T, N, M
  <2> QED BY <1>1, <1>2, <1>3, <1>4, <2>3
<1>6. free \in SUBSET Nat
  BY <1>1
<1>7. Min(free) \in free
  <2>1. \E n \in free : \A m \in free : n <= m
    BY <1>5, <1>6, LeastNatural
  <2> HIDE DEF free
  <2> QED BY <2>1 DEF Min
<1>8. Min(free) \in Nat /\ Min(free) \notin Taken(d)
  BY <1>6, <1>7
<1>9. CASE ReqSeq[d] # -1 /\ ReqSeq[d] \notin Taken(d)
  <2>1. ReqSeq[d] \in Nat
    BY <1>9, DeviceAssumption
  <2> QED BY <1>9, <2>1 DEF ResolveSeq
<1>10. CASE ~(ReqSeq[d] # -1 /\ ReqSeq[d] \notin Taken(d))
  <2>1. ResolveSeq(d) = Min(free)
    BY <1>5, <1>10 DEF ResolveSeq
  <2> QED BY <1>8, <2>1
<1> QED BY <1>9, <1>10
-----------------------------------------------------------------------------
(***************************************************************************)
(* Probe.                                                                  *)
(***************************************************************************)
\* Probing and removing do not touch the lists.
LEMMA ListsAlone ==
  ASSUME IInv, stack # <<>>, Top.op \in {"probe", "remove"}, UNCHANGED <<lists, handed>>,
         mishaps' \subseteq mishaps \cup {"orphan", "remove", "reentered"},
         mishaps \subseteq mishaps', active' \subseteq bound,
         \A j \in 1 .. depth' : calls'[j].op \in {"probe", "remove"}
  PROVE  ListsSound' /\ BindSound' /\ UnbindSound'
<1>1. depth \in 1 .. depth /\ Top = calls[depth]
  BY CallsType DEF IInv
<1>2. \A j \in 1 .. depth : calls[j].op \in {"probe", "remove"}
  BY Homogeneous DEF IInv
<1>3. "bind" \notin mishaps /\ "bind" \notin mishaps'
  BY <1>1, <1>2 DEF IInv, ListsSound
<1>4. UpClosed(linked) /\ \A d \in bound : Parent[d] \in bound \cup {Root}
  BY <1>2, <1>3 DEF IInv, ListsSound, Binding
<1>5. "unbind" \notin mishaps' => bound \subseteq plat
  BY DEF IInv, ListsSound
<1>6. linked' = linked /\ bound' = bound /\ plat' = plat
  BY DEF lists
<1>7. ListsSound'
  BY <1>3, <1>4, <1>5, <1>6 DEF ListsSound, UpClosed
<1> QED BY <1>7 DEF BindSound, UnbindSound

\* A probe under way
LEMMA ProbeState ==
  ASSUME IInv, stack # <<>>, Top.op = "probe"
  PROVE  /\ depth \in Nat \ {0} /\ depth \in 1 .. depth /\ Top = calls[depth]
         /\ calls \in [1 .. depth -> Frames] /\ Top \in Frames
         /\ dev \in Devices /\ dev \in bound /\ ~handed
         /\ \A d \in bound : Parent[d] \in bound \cup {Root}
         /\ \A j \in 1 .. depth : calls[j].op = "probe"
         /\ \A j \in 1 .. depth - 1 : calls[j].at \in {"parent", "hooks", "post"}
         /\ depth > 1 /\ Waiting(depth - 1) => dev = Parent[calls[depth - 1].dev]
<1>1. /\ depth \in Nat \ {0} /\ depth \in 1 .. depth /\ Top = calls[depth]
      /\ calls \in [1 .. depth -> Frames] /\ Top \in Frames
  BY CallsType DEF IInv
<1>2. ~handed /\ dev \in Devices
  <2>1. FrameSound(Top)
    BY TopSound DEF IInv
  <2>2. ~handed
    BY <2>1 DEF FrameSound
  <2> QED BY <2>2, TopSound DEF IInv
<1>3. \A j \in 1 .. depth : calls[j].op = "probe" /\ (j < depth => calls[j].at # "undo")
  BY Homogeneous DEF IInv
<1>4. ASSUME NEW j \in 1 .. depth - 1 PROVE calls[j].at \in {"parent", "hooks", "post"}
  <2>1. j \in 1 .. depth /\ j < depth /\ Called(calls[j], calls[j + 1])
    BY <1>1 DEF IInv, StackSound
  <2> QED BY <1>3, <2>1 DEF Called
<1>5. "bind" \notin mishaps
  BY <1>1 DEF IInv, ListsSound
<1>6. \A d \in bound : Parent[d] \in bound \cup {Root}
  BY <1>3, <1>5 DEF IInv, ListsSound, Binding
<1>7. dev \in bound
  BY <1>1 DEF IInv, LifeSound, dev
<1>8. ASSUME depth > 1, Waiting(depth - 1) PROVE dev = Parent[calls[depth - 1].dev]
  <2>1. Called(calls[depth - 1], Top)
    BY <1>8, TopSound DEF IInv
  <2> QED BY <1>8, <2>1 DEF Called, Waiting, dev
<1> QED BY <1>1, <1>2, <1>3, <1>4, <1>6, <1>7, <1>8

\* While the innermost call is a probe, private data is missing only to those
\* that the failure reported right now has doomed.
LEMMA ProbePriv ==
  ASSUME IInv, stack # <<>>, Top.op = "probe", Calm, "reentered" \notin mishaps
  PROVE  /\ active \subseteq priv
         /\ \A j \in 1 .. depth : Waiting(j) =>
              \/ calls[j].dev \in priv
              \/ Top.at = "parent" /\ ~ret /\ \A i \in j .. depth : Waiting(i)
              \/ Top.at = "undo" /\ \A i \in j .. depth - 1 : Waiting(i)
              \/ Top.at = "undo" /\ \E i \in 1 .. depth - 1 : calls[i].dev = dev
<1>1. /\ depth \in Nat \ {0} /\ depth \in 1 .. depth /\ Top = calls[depth]
      /\ \A j \in 1 .. depth - 1 : calls[j].at \in {"parent", "hooks", "post"}
  BY ProbeState
<1>2. \A j \in 1 .. depth : calls[j].at = "undo" => j = depth
  BY <1>1
<1>3. ASSUME Reenters
      PROVE  Top.at = "undo" /\ \E i \in 1 .. depth - 1 : calls[i].dev = dev
  <2>1. PICK j \in 1 .. depth : calls[j].at = "undo" /\
          \E i \in 1 .. j - 1 : calls[i].op = "probe" /\ calls[i].dev = calls[j].dev
    BY <1>3 DEF Reenters
  <2> QED BY <1>1, <1>2, <2>1 DEF dev
<1>4. ASSUME NEW j \in 1 .. depth, Doomed(j)
      PROVE  \/ Top.at = "parent" /\ ~ret /\ \A i \in j .. depth : Waiting(i)
             \/ Top.at = "undo" /\ \A i \in j .. depth - 1 : Waiting(i)
  <2>1. PICK m \in j .. depth :
          /\ \A i \in j .. m - 1 : Waiting(i)
          /\ calls[m].at = "undo" \/ (m = depth /\ Waiting(m) /\ ~ret)
    BY <1>4 DEF Doomed
  <2>2. m \in 1 .. depth
    BY <1>1
  <2>3. m = depth
    BY <1>2, <2>1, <2>2
  <2>4. CASE calls[m].at = "undo"
    BY <1>1, <2>1, <2>3, <2>4
  <2>5. CASE Waiting(m) /\ ~ret
    <3>1. \A i \in j .. depth : i \in j .. depth - 1 \/ i = depth
      BY <1>1
    <3> QED BY <1>1, <2>1, <2>3, <2>5, <3>1 DEF Waiting
  <2> QED BY <2>1, <2>4, <2>5
<1> QED BY <1>3, <1>4 DEF IInv, PrivSound

\* Reentered, from the base of the stack
LEMMA ReenteredBelow ==
  ASSUME TypeOK, stack # <<>>
  PROVE  Reentered <=> \E i \in 1 .. depth - 1 : calls[i].op = "probe" /\ calls[i].dev = dev
<1>1. depth \in Nat \ {0} /\ depth = Len(stack)
  BY CallsType DEF depth
<1>2. ASSUME NEW i \in 1 .. depth - 1
      PROVE  depth + 1 - i \in 2 .. depth /\ calls[i] = stack[depth + 1 - i]
  <2>1. i \in 1 .. Len(stack)
    BY <1>1
  <2> QED BY <1>1, <2>1 DEF calls, Outer
<1>3. ASSUME NEW i \in 2 .. depth
      PROVE  \E k \in 1 .. depth - 1 : calls[k] = stack[i]
  <2> DEFINE k == depth + 1 - i
  <2>1. k \in 1 .. depth - 1 /\ depth + 1 - k = i
    BY <1>1
  <2> HIDE DEF k
  <2>2. calls[k] = stack[depth + 1 - k]
    BY <1>2, <2>1
  <2>3. stack[depth + 1 - k] = stack[i]
    BY <2>1
  <2>4. calls[k] = stack[i] /\ k \in 1 .. depth - 1
    BY <2>1, <2>2, <2>3
  <2> QED BY <2>4
<1>4. ASSUME NEW i \in 1 .. depth - 1, calls[i].op = "probe", calls[i].dev = dev
      PROVE  Reentered
  <2>1. PICK k \in 2 .. Len(stack) : stack[k] = calls[i]
    BY <1>1, <1>2
  <2> QED BY <1>4, <2>1 DEF Reentered
<1>5. ASSUME NEW k \in 2 .. Len(stack), stack[k].op = "probe", stack[k].dev = dev
      PROVE  \E i \in 1 .. depth - 1 : calls[i].op = "probe" /\ calls[i].dev = dev
  BY <1>1, <1>3, <1>5
<1> QED BY <1>4, <1>5 DEF Reentered

\* A probe returns 0, because its device is active already or at last.
LEMMA ProbeReturns ==
  ASSUME IInv, stack # <<>>, Top.op = "probe", stack' = Tail(stack), ret' = TRUE,
         UNCHANGED <<lists, life, handed, mishaps>>,
         \/ Top.at \in {"enter", "parent"} /\ dev \in active
         \/ Top.at = "post",
         Top.at = "parent" => ret
  PROVE  IInv'
<1>1. /\ depth \in Nat \ {0} /\ depth \in 1 .. depth /\ Top = calls[depth]
      /\ calls \in [1 .. depth -> Frames] /\ Top \in Frames
      /\ dev \in Devices /\ dev \in bound /\ ~handed
      /\ \A j \in 1 .. depth : calls[j].op = "probe"
      /\ \A j \in 1 .. depth - 1 : calls[j].at \in {"parent", "hooks", "post"}
      /\ depth > 1 /\ Waiting(depth - 1) => dev = Parent[calls[depth - 1].dev]
  BY ProbeState
<1>2. stack' \in Seq(Frames) /\ Pops /\ StackSound'
  BY PopSound DEF IInv
<1>3. /\ depth' = depth - 1 /\ depth' \in Nat
      /\ \A j \in 1 .. depth' : calls'[j] = calls[j] /\ j \in 1 .. depth /\ j < depth
                                  /\ calls[j].at \in {"parent", "hooks", "post"}
                                  /\ calls[j].op = "probe"
  BY <1>1, <1>2 DEF Pops
<1>4. /\ active' = active /\ priv' = priv /\ seq' = seq /\ linked' = linked /\ bound' = bound
      /\ plat' = plat /\ mishaps' = mishaps /\ handed' = handed
  BY DEF life, lists
<1>5. TypeOK'
  BY <1>2, <1>4 DEF IInv, TypeOK
<1>6. ListsSound' /\ BindSound' /\ UnbindSound'
  <2>1. active' \subseteq bound'
    BY <1>4 DEF IInv, ListsSound
  <2> QED BY <1>1, <1>3, <1>4, <2>1, ListsAlone
<1>7. LifeSound'
  <2>1. ASSUME NEW d \in priv, d \notin active
        PROVE  \E j \in 1 .. depth' : Waiting(j)' /\ calls'[j].dev = d
    <3>1. PICK j \in 1 .. depth : Waiting(j) /\ calls[j].dev = d
      BY <2>1 DEF IInv, LifeSound
    <3>2. j # depth
      BY <1>1, <2>1, <3>1 DEF Waiting, dev
    <3>3. j \in 1 .. depth'
      BY <1>1, <1>3, <3>2
    <3> QED BY <1>3, <3>1, <3>3 DEF Waiting
  <2> QED BY <1>3, <1>4, <2>1 DEF IInv, LifeSound, SeqsDiffer
<1>8. CalmSound'
  <2>1. SUFFICES ASSUME Calm PROVE CalmSound'
    BY <1>4 DEF CalmSound, Calm
  <2>2. /\ UpClosed(active)
        /\ \A j \in 1 .. depth : Running(j) => calls[j].dev \in active
        /\ \A i, j \in 1 .. depth :
             i < j /\ Running(i) /\ (calls[j].op = "remove" \/ calls[j].at # "enter") =>
               Apart(calls[i].dev, calls[j].dev)
    BY <1>1, <2>1 DEF IInv, CalmSound
  <2>3. dev \in active
    BY <1>1, <2>2 DEF Running, dev
  <2>4. ASSUME depth' > 0, Waiting(depth)' PROVE Active(Parent[calls[depth].dev])'
    <3>1. depth' \in 1 .. depth' /\ calls'[depth'] = calls[depth'] /\ depth' = depth - 1
      BY <1>3, <2>4
    <3>2. depth > 1 /\ Waiting(depth - 1)
      BY <1>1, <1>3, <2>4, <3>1 DEF Waiting
    <3> QED BY <1>1, <1>4, <2>3, <3>1, <3>2 DEF Active
  <2>5. \A j \in 1 .. depth' : (Running(j)' <=> Running(j)) /\ calls'[j].op # "remove"
    BY <1>3 DEF Running
  <2> QED BY <1>3, <1>4, <2>2, <2>4, <2>5 DEF CalmSound, UpClosed, Apart
<1>9. PrivSound'
  <2>1. SUFFICES ASSUME Calm, "reentered" \notin mishaps PROVE PrivSound'
    BY <1>4 DEF PrivSound, Calm
  <2>2. active \subseteq priv /\ \A j \in 1 .. depth : Waiting(j) => calls[j].dev \in priv
    BY <2>1, ProbePriv
  <2> QED BY <1>3, <1>4, <2>2 DEF PrivSound, Waiting
<1>10. HandSound'
  BY <1>1, <1>4 DEF HandSound
<1> QED BY <1>2, <1>5, <1>6, <1>7, <1>8, <1>9, <1>10 DEF IInv

\* A probe fails, and takes back what it did for its own device.
LEMMA ProbeFailsIInv ==
  ASSUME IInv, stack # <<>>, Top.op = "probe", ProbeFails,
         \/ Top.at = "enter" /\ dev \notin active
         \/ Top.at = "parent" /\ ~ret
         \/ Top.at = "hooks"
         \/ Top.at = "undo"
  PROVE  IInv'
<1>1. /\ depth \in Nat \ {0} /\ depth \in 1 .. depth /\ Top = calls[depth]
      /\ calls \in [1 .. depth -> Frames] /\ Top \in Frames
      /\ dev \in Devices /\ dev \in bound /\ ~handed
      /\ \A j \in 1 .. depth : calls[j].op = "probe"
      /\ \A j \in 1 .. depth - 1 : calls[j].at \in {"parent", "hooks", "post"}
  BY ProbeState
<1>2. /\ stack' = Tail(stack) /\ ret' = FALSE /\ UNCHANGED <<lists, handed>>
      /\ active' = active \ {dev} /\ priv' = priv \ {dev}
      /\ seq' = [seq EXCEPT ![dev] = -1]
  BY DEF ProbeFails, Return
<1>3. /\ mishaps \subseteq mishaps' /\ mishaps' \subseteq mishaps \cup {"orphan", "reentered"}
      /\ "orphan" \notin mishaps' => Children(dev) \cap active = {}
      /\ "reentered" \notin mishaps' => ~Reentered
  BY DEF ProbeFails
<1>4. stack' \in Seq(Frames) /\ Pops /\ StackSound'
  BY <1>2, PopSound DEF IInv
<1>5. /\ depth' = depth - 1 /\ depth' \in Nat
      /\ \A j \in 1 .. depth' : calls'[j] = calls[j] /\ j \in 1 .. depth /\ j < depth
                                  /\ calls[j].at \in {"parent", "hooks", "post"}
                                  /\ calls[j].op = "probe"
  BY <1>1, <1>4 DEF Pops
<1>6. linked' = linked /\ bound' = bound /\ plat' = plat /\ handed' = handed
  BY <1>2 DEF lists
<1>7. TypeOK'
  BY <1>2, <1>3, <1>4, <1>6 DEF IInv, TypeOK
<1>8. ListsSound' /\ BindSound' /\ UnbindSound'
  <2>1. active' \subseteq bound
    BY <1>2 DEF IInv, ListsSound
  <2>2. mishaps' \subseteq mishaps \cup {"orphan", "remove", "reentered"}
    BY <1>3
  <2> QED BY <1>2, <1>3, <1>5, <2>1, <2>2, ListsAlone
<1>9. LifeSound'
  <2>1. SeqsDiffer'
    BY <1>2 DEF IInv, LifeSound, SeqsDiffer, TypeOK
  <2>2. ASSUME NEW d \in priv', d \notin active'
        PROVE  \E j \in 1 .. depth' : Waiting(j)' /\ calls'[j].dev = d
    <3>1. d \in priv /\ d # dev /\ d \notin active
      BY <1>2, <2>2
    <3>2. PICK j \in 1 .. depth : Waiting(j) /\ calls[j].dev = d
      BY <3>1 DEF IInv, LifeSound
    <3>3. j # depth
      BY <1>1, <3>1, <3>2 DEF dev
    <3>4. j \in 1 .. depth'
      BY <1>1, <1>5, <3>3
    <3> QED BY <1>5, <3>2, <3>4 DEF Waiting
  <2> QED BY <1>5, <1>6, <2>1, <2>2 DEF IInv, LifeSound
<1>10. CalmSound'
  <2>1. SUFFICES ASSUME Calm' PROVE CalmSound'
    BY DEF CalmSound
  <2>2. Calm /\ Children(dev) \cap active = {}
    BY <1>3, <2>1 DEF Calm
  <2>3. /\ UpClosed(active)
        /\ \A j \in 1 .. depth : Running(j) => calls[j].dev \in active
        /\ \A i, j \in 1 .. depth :
             i < j /\ Running(i) /\ (calls[j].op = "remove" \/ calls[j].at # "enter") =>
               Apart(calls[i].dev, calls[j].dev)
    BY <1>1, <2>2 DEF IInv, CalmSound
  <2>4. UpClosed(active')
    BY <1>2, <2>2, <2>3 DEF UpClosed, Children, IInv, TypeOK, ListsSound
  <2>5. ASSUME NEW j \in 1 .. depth', Running(j) PROVE calls[j].dev \in active'
    <3>1. j \in 1 .. depth /\ j < depth
      BY <1>5
    <3>2. calls[j].dev # dev
      <4>1. CASE Top.at = "enter"
        BY <1>1, <2>3, <2>5, <3>1, <4>1
      <4>2. CASE Top.at # "enter"
        <5>1. Apart(calls[j].dev, dev)
          BY <1>1, <2>3, <2>5, <3>1, <4>2 DEF dev
        <5> QED BY <5>1 DEF Apart
      <4> QED BY <4>1, <4>2
    <3> QED BY <1>2, <2>3, <2>5, <3>1, <3>2
  <2>6. \A j \in 1 .. depth' : (Running(j)' <=> Running(j)) /\ calls'[j].op # "remove"
    BY <1>5 DEF Running
  <2> QED BY <1>2, <1>5, <2>3, <2>4, <2>5, <2>6 DEF CalmSound, UpClosed, Apart
<1>11. PrivSound'
  <2>1. SUFFICES ASSUME Calm', "reentered" \notin mishaps' PROVE PrivSound'
    BY DEF PrivSound
  <2>2. Calm /\ "reentered" \notin mishaps /\ ~Reentered
    BY <1>3, <2>1 DEF Calm
  <2>3. ~ \E i \in 1 .. depth - 1 : calls[i].dev = dev
    <3>1. \A i \in 1 .. depth - 1 : calls[i].op = "probe"
      BY <1>5
    <3> QED BY <2>2, <3>1, ReenteredBelow DEF IInv
  <2>4. active' \subseteq priv'
    BY <1>2, <2>2, ProbePriv
  <2>5. ASSUME NEW j \in 1 .. depth', Waiting(j)'
        PROVE  calls'[j].dev \in priv' \/ Doomed(j)'
    <3>1. /\ j \in 1 .. depth /\ j < depth /\ j \in 1 .. depth - 1 /\ Waiting(j)
          /\ calls'[j] = calls[j]
      BY <1>5, <2>5 DEF Waiting
    <3>2. calls[j].dev # dev
      BY <2>3, <3>1
    <3>3. calls[j].dev \in priv \/ \A i \in j .. depth - 1 : Waiting(i)
      <4>1. \/ calls[j].dev \in priv
            \/ \A i \in j .. depth : Waiting(i)
            \/ \A i \in j .. depth - 1 : Waiting(i)
        BY <2>2, <2>3, <3>1, ProbePriv
      <4>2. \A i \in j .. depth - 1 : i \in j .. depth
        BY <1>1
      <4> QED BY <4>1, <4>2
    <3>4. CASE calls[j].dev \in priv
      BY <1>2, <3>1, <3>2, <3>4
    <3>5. CASE \A i \in j .. depth - 1 : Waiting(i)
      <4>1. \A i \in j .. depth' : Waiting(i)'
        <5>1. \A i \in j .. depth' : i \in 1 .. depth' /\ i \in j .. depth - 1
          BY <1>5, <3>1
        <5> QED BY <1>5, <3>5, <5>1 DEF Waiting
      <4>2. depth' \in j .. depth' /\ \A i \in j .. depth' - 1 : i \in j .. depth'
        BY <1>5
      <4> QED BY <1>2, <4>1, <4>2 DEF Doomed
    <3> QED BY <3>3, <3>4, <3>5
  <2> QED BY <2>4, <2>5 DEF PrivSound
<1>12. HandSound'
  BY <1>1, <1>6 DEF HandSound
<1> QED BY <1>4, <1>7, <1>8, <1>9, <1>10, <1>11, <1>12 DEF IInv

\* The stack when a probe goes on, and when it calls
LEMMA ProbeGoes ==
  ASSUME IInv, stack # <<>>, Top.op = "probe", handed' = handed,
         NEW at \in Stages("probe"), NEW todo \in SUBSET Devices, Goto(at, todo)
  PROVE  /\ stack' \in Seq(Frames) /\ StackSound' /\ depth' = depth /\ ret' = TRUE
         /\ calls'[depth].at = at
         /\ \A j \in 1 .. depth : calls'[j].op = "probe" /\ calls'[j].dev = calls[j].dev
         /\ \A j \in 1 .. depth - 1 : calls'[j] = calls[j] /\ j \in 1 .. depth
<1> DEFINE f == [Top EXCEPT !.at = at, !.todo = todo]
<1>1. /\ depth \in Nat \ {0} /\ depth \in 1 .. depth /\ Top = calls[depth]
      /\ calls \in [1 .. depth -> Frames] /\ Top \in Frames
      /\ \A j \in 1 .. depth : calls[j].op = "probe"
  BY ProbeState
<1>2. SameCall(f) /\ f.at = at /\ f.op = "probe" /\ f.dev = dev
  <2>1. at \in Ats
    BY DEF Stages, Ats
  <2> QED BY <1>1, <2>1 DEF SameCall, Frames, dev, Ats
<1>3. stack' = <<f>> \o Tail(stack) /\ ret' = TRUE
  BY DEF Goto
<1> HIDE DEF f
<1>4. stack' \in Seq(Frames) /\ Changes(f) /\ StackSound'
  BY <1>2, <1>3, ChangeSound DEF IInv
<1> QED BY <1>1, <1>2, <1>3, <1>4 DEF Changes, dev

LEMMA ProbeCalls ==
  ASSUME IInv, stack # <<>>, Top.op = "probe", handed' = handed,
         NEW at \in Stages("probe"), NEW todo \in SUBSET Devices,
         NEW op \in {"probe", "remove"}, NEW d \in Devices,
         Call(at, todo, Frame(op, d, TRUE)),
         \/ at = "parent" /\ op = "probe" /\ d = Parent[dev]
         \/ at \in {"hooks", "post"} /\ op = "probe"
         \/ at = "undo" /\ op = "remove" /\ d = dev
  PROVE  /\ stack' \in Seq(Frames) /\ StackSound' /\ depth' = depth + 1 /\ ret' = TRUE
         /\ calls'[depth].at = at
         /\ calls'[depth + 1].op = op /\ calls'[depth + 1].dev = d
         /\ calls'[depth + 1].at = "enter"
         /\ \A j \in 1 .. depth : calls'[j].op = "probe" /\ calls'[j].dev = calls[j].dev
         /\ \A j \in 1 .. depth - 1 : calls'[j] = calls[j] /\ j \in 1 .. depth
<1> DEFINE f == [Top EXCEPT !.at = at, !.todo = todo]
           g == Frame(op, d, TRUE)
<1>1. /\ depth \in Nat \ {0} /\ depth \in 1 .. depth /\ Top = calls[depth]
      /\ calls \in [1 .. depth -> Frames] /\ Top \in Frames /\ ~handed
      /\ \A j \in 1 .. depth : calls[j].op = "probe"
  BY ProbeState
<1>2. SameCall(f) /\ f.at = at /\ f.op = "probe" /\ f.dev = dev
  <2>1. at \in Ats
    BY DEF Stages, Ats
  <2> QED BY <1>1, <2>1 DEF SameCall, Frames, dev, Ats
<1>3. /\ g \in Frames /\ g.op = op /\ g.at = "enter" /\ g.dev = d /\ g.normal = TRUE
      /\ g.todo = {}
  BY DEF Frame, Frames
<1>4. stack' = <<g, f>> \o Tail(stack) /\ ret' = TRUE
  BY DEF Call
<1> HIDE DEF f, g
<1>5. stack' \in Seq(Frames) /\ Pushes(f, g) /\ StackSound'
  <2>1. FrameSound(g)
    <3>1. g.dev # Root /\ g.at \in Stages(g.op)
      BY <1>3, DeviceAssumption DEF Stages
    <3> QED BY <1>1, <1>3, <3>1 DEF FrameSound
  <2>2. Called(f, g)
    BY <1>2, <1>3 DEF Called
  <2> QED BY <1>2, <1>3, <1>4, <2>1, <2>2, PushSound DEF IInv
<1> QED BY <1>1, <1>2, <1>3, <1>4, <1>5 DEF Pushes, dev

\* What is to be seen of a step of a probe once its stack is known
LEMMA ProbeRest ==
  ASSUME IInv, stack # <<>>, Top.op = "probe", UNCHANGED <<lists, handed, mishaps>>,
         stack' \in Seq(Frames), StackSound', ret' \in BOOLEAN,
         active' \subseteq bound, priv' \subseteq Devices, seq' \in [Devices -> Nat \cup {-1}],
         \A j \in 1 .. depth' : calls'[j].op \in {"probe", "remove"},
         LifeSound', CalmSound', PrivSound'
  PROVE  IInv'
<1>1. ~handed
  BY ProbeState
<1>2. ListsSound' /\ BindSound' /\ UnbindSound'
  BY ListsAlone
<1>3. HandSound'
  BY <1>1 DEF HandSound
<1>4. TypeOK'
  BY DEF IInv, TypeOK, lists
<1> QED BY <1>2, <1>3, <1>4 DEF IInv

\* A probe of a device that is not active waits for its parent.
LEMMA ProbeEnterIInv ==
  ASSUME IInv, ProbeEnter
  PROVE  IInv'
<1>1. /\ stack # <<>> /\ Top.op = "probe" /\ Top.at = "enter"
      /\ UNCHANGED <<lists, active, seq, handed, mishaps>>
  BY DEF ProbeEnter, At
<1>2. CASE dev \in active /\ Return(TRUE) /\ UNCHANGED priv
  <2>1. stack' = Tail(stack) /\ ret' = TRUE /\ UNCHANGED <<lists, life, handed, mishaps>>
    BY <1>1, <1>2 DEF Return, life
  <2> QED BY <1>1, <1>2, <2>1, ProbeReturns
<1>3. ASSUME dev \notin active, priv' = priv \cup {dev},
             IF Parent[dev] = Root
               THEN Goto("parent", {})
               ELSE Call("parent", {}, Frame("probe", Parent[dev], TRUE))
      PROVE  IInv'
  <2>1. /\ depth \in Nat \ {0} /\ depth \in 1 .. depth /\ Top = calls[depth]
        /\ calls \in [1 .. depth -> Frames] /\ Top \in Frames
        /\ dev \in Devices /\ dev \in bound /\ ~handed
        /\ Parent[dev] \in bound \cup {Root}
        /\ \A j \in 1 .. depth : calls[j].op = "probe"
    BY <1>1, ProbeState
  <2>2. active' = active /\ mishaps' = mishaps /\ bound' = bound /\ linked' = linked
          /\ handed' = handed /\ seq' = seq
    BY <1>1 DEF lists
  <2>3. /\ stack' \in Seq(Frames) /\ StackSound' /\ ret' = TRUE
        /\ calls'[depth].at = "parent"
        /\ \A j \in 1 .. depth : calls'[j].op = "probe" /\ calls'[j].dev = calls[j].dev
        /\ \A j \in 1 .. depth - 1 : calls'[j] = calls[j] /\ j \in 1 .. depth
        /\ \/ depth' = depth /\ Parent[dev] = Root
           \/ /\ depth' = depth + 1 /\ calls'[depth + 1].op = "probe"
              /\ calls'[depth + 1].dev \in bound /\ calls'[depth + 1].at = "enter"
    <3>1. "parent" \in Stages("probe") /\ bound \subseteq Devices
      BY DEF Stages, IInv, TypeOK
    <3>2. CASE Parent[dev] = Root
      <4>1. Goto("parent", {})
        BY <1>3, <3>2
      <4> QED BY <1>1, <3>1, <3>2, <4>1, ProbeGoes
    <3>3. CASE Parent[dev] # Root
      <4>1. Call("parent", {}, Frame("probe", Parent[dev], TRUE)) /\ Parent[dev] \in Devices
        BY <1>3, <2>1, <3>1, <3>3
      <4> QED BY <1>1, <2>1, <3>1, <3>3, <4>1, ProbeCalls
    <3> QED BY <3>2, <3>3
  <2>4. /\ depth' \in Nat /\ depth \in 1 .. depth'
        /\ \A j \in 1 .. depth' : j \in 1 .. depth - 1 \/ j = depth \/ j = depth + 1
        /\ \A j \in 1 .. depth : j \in 1 .. depth' /\ (j # depth => calls'[j] = calls[j])
    BY <2>1, <2>3
  <2>5. \A j \in 1 .. depth' : calls'[j].op = "probe" /\ calls'[j].dev \in bound
                                 /\ calls'[j].at # "error"
    <3>1. \A j \in 1 .. depth : calls[j].dev \in bound
      BY <2>1 DEF IInv, LifeSound
    <3>2. \A j \in 1 .. depth : calls[j].at # "error"
      BY <2>1 DEF IInv, StackSound, FrameSound, Stages
    <3> QED BY <2>1, <2>3, <2>4, <3>1, <3>2
  <2>6. LifeSound'
    <3>1. ASSUME NEW d \in priv', d \notin active'
          PROVE  \E j \in 1 .. depth' : Waiting(j)' /\ calls'[j].dev = d
      <4>1. CASE d = dev
        BY <2>1, <2>3, <2>4, <4>1 DEF Waiting, dev
      <4>2. CASE d # dev
        <5>1. PICK j \in 1 .. depth : Waiting(j) /\ calls[j].dev = d
          BY <1>3, <2>2, <3>1, <4>2 DEF IInv, LifeSound
        <5>2. j # depth
          BY <2>1, <4>2, <5>1 DEF dev
        <5> QED BY <2>4, <5>1, <5>2 DEF Waiting
      <4> QED BY <4>1, <4>2
    <3> QED BY <2>2, <2>5, <3>1 DEF IInv, LifeSound, SeqsDiffer
  <2>7. CalmSound'
    <3>1. SUFFICES ASSUME Calm PROVE CalmSound'
      BY <2>2 DEF CalmSound, Calm
    <3>2. /\ UpClosed(active)
          /\ \A j \in 1 .. depth : Running(j) => calls[j].dev \in active
          /\ \A i, j \in 1 .. depth :
               i < j /\ Running(i) /\ (calls[j].op = "remove" \/ calls[j].at # "enter") =>
                 Apart(calls[i].dev, calls[j].dev)
      BY <2>1, <3>1 DEF IInv, CalmSound
    <3>3. \A j \in 1 .. depth' : Running(j)' => j \in 1 .. depth /\ Running(j) /\ calls'[j] = calls[j]
      BY <2>3, <2>4 DEF Running
    <3>4. ASSUME NEW i \in 1 .. depth', NEW j \in 1 .. depth', i < j, Running(i)',
                 calls'[j].at # "enter"
          PROVE  Apart(calls'[i].dev, calls'[j].dev)
      <4>1. i \in 1 .. depth /\ Running(i) /\ calls'[i] = calls[i] /\ calls[i].dev \in active
        BY <3>2, <3>3, <3>4
      <4>2. CASE j = depth
        <5>1. calls'[j].dev \notin active /\ active \in SUBSET Devices
          BY <1>3, <2>1, <2>3, <4>2 DEF IInv, TypeOK, dev
        <5> QED BY <3>2, <4>1, <5>1 DEF Apart
      <4>3. CASE j # depth
        <5>1. j \in 1 .. depth /\ calls'[j] = calls[j]
          BY <2>3, <2>4, <3>4, <4>3
        <5> QED BY <3>2, <3>4, <4>1, <5>1
      <4> QED BY <4>2, <4>3
    <3>5. ASSUME Waiting(depth)' PROVE Active(Parent[calls[depth].dev])'
      <4>1. depth' = depth /\ Parent[dev] = Root
        BY <2>3, <3>5 DEF Waiting
      <4> QED BY <2>1, <2>3, <4>1 DEF Active, dev
    <3>6. \A j \in 1 .. depth' : Running(j)' => calls'[j].dev \in active'
      BY <2>2, <3>2, <3>3
    <3> QED BY <2>2, <2>5, <3>2, <3>4, <3>5, <3>6 DEF CalmSound, UpClosed, Apart
  <2>8. PrivSound'
    <3>1. SUFFICES ASSUME Calm, "reentered" \notin mishaps PROVE PrivSound'
      BY <2>2 DEF PrivSound, Calm
    <3>2. active \subseteq priv /\ \A j \in 1 .. depth : Waiting(j) => calls[j].dev \in priv
      BY <1>1, <3>1, ProbePriv
    <3>3. ASSUME NEW j \in 1 .. depth', Waiting(j)' PROVE calls'[j].dev \in priv'
      <4>1. CASE j = depth
        BY <1>3, <2>1, <2>3, <4>1 DEF dev
      <4>2. CASE j \in 1 .. depth - 1
        BY <1>3, <2>3, <3>2, <3>3, <4>2 DEF Waiting
      <4>3. CASE j = depth + 1
        BY <2>3, <2>4, <3>3, <4>3 DEF Waiting
      <4> QED BY <2>4, <4>1, <4>2, <4>3
    <3> QED BY <1>3, <2>2, <3>2, <3>3 DEF PrivSound
  <2>9. /\ active' \subseteq bound /\ priv' \subseteq Devices
        /\ seq' \in [Devices -> Nat \cup {-1}]
    BY <1>3, <2>1, <2>2 DEF IInv, ListsSound, TypeOK
  <2> QED BY <1>1, <2>3, <2>5, <2>6, <2>7, <2>8, <2>9, ProbeRest
<1> QED BY <1>2, <1>3 DEF ProbeEnter

\* The parent is there: the device is active before its hooks run.
LEMMA ProbeParentDoneIInv ==
  ASSUME IInv, ProbeParentDone
  PROVE  IInv'
<1>1. /\ stack # <<>> /\ Top.op = "probe" /\ Top.at = "parent" /\ ret
      /\ UNCHANGED <<lists, priv, handed, mishaps>>
  BY DEF ProbeParentDone, At
<1>2. CASE dev \in active /\ Return(TRUE) /\ UNCHANGED <<active, seq>>
  <2>1. stack' = Tail(stack) /\ ret' = TRUE /\ UNCHANGED <<lists, life, handed, mishaps>>
    BY <1>1, <1>2 DEF Return, life
  <2> QED BY <1>1, <1>2, <2>1, ProbeReturns
<1>3. ASSUME dev \notin active, seq' = [seq EXCEPT ![dev] = ResolveSeq(dev)],
             active' = active \cup {dev}, Goto("hooks", Uses[dev])
      PROVE  IInv'
  <2>1. /\ depth \in Nat \ {0} /\ depth \in 1 .. depth /\ Top = calls[depth]
        /\ calls \in [1 .. depth -> Frames] /\ Top \in Frames
        /\ dev \in Devices /\ dev \in bound /\ ~handed
        /\ \A j \in 1 .. depth : calls[j].op = "probe"
    BY <1>1, ProbeState
  <2>2. mishaps' = mishaps /\ bound' = bound /\ linked' = linked /\ handed' = handed
          /\ priv' = priv
    BY <1>1 DEF lists
  <2>3. /\ stack' \in Seq(Frames) /\ StackSound' /\ depth' = depth /\ ret' = TRUE
        /\ calls'[depth].at = "hooks"
        /\ \A j \in 1 .. depth : calls'[j].op = "probe" /\ calls'[j].dev = calls[j].dev
        /\ \A j \in 1 .. depth - 1 : calls'[j] = calls[j] /\ j \in 1 .. depth
    <3>1. "hooks" \in Stages("probe") /\ Uses[dev] \in SUBSET Devices
      BY <2>1, DeviceAssumption DEF Stages
    <3> QED BY <1>1, <1>3, <3>1, ProbeGoes
  <2>4. \A j \in 1 .. depth : j # depth => calls'[j] = calls[j]
    BY <2>1, <2>3
  <2>5. ResolveSeq(dev) \in Nat /\ ResolveSeq(dev) \notin Taken(dev)
    BY <2>1, SeqIsFree DEF IInv
  <2>6. SeqsDiffer'
    <3>1. /\ \A d \in Devices : seq[d] # -1 <=> d \in active
          /\ \A d, e \in active : d # e /\ Uclass[d] = Uclass[e] => seq[d] # seq[e]
          /\ seq \in [Devices -> Nat \cup {-1}] /\ active \subseteq Devices
          /\ active \subseteq linked
      BY DEF IInv, LifeSound, SeqsDiffer, TypeOK, ListsSound
    <3>2. /\ seq'[dev] = ResolveSeq(dev) /\ seq'[dev] # -1
          /\ \A d \in Devices \ {dev} : seq'[d] = seq[d]
      BY <1>3, <2>1, <2>5, <3>1
    <3>3. ASSUME NEW d \in active, Uclass[d] = Uclass[dev], d # dev PROVE seq'[d] # seq'[dev]
      <4>1. seq[d] \in Taken(dev)
        BY <3>1, <3>3 DEF Taken
      <4> QED BY <2>5, <3>1, <3>2, <3>3, <4>1
    <3>4. \A d \in Devices : seq'[d] # -1 <=> d \in active'
      BY <1>3, <3>1, <3>2
    <3>5. \A d, e \in active' : d # e /\ Uclass[d] = Uclass[e] => seq'[d] # seq'[e]
      BY <1>3, <3>1, <3>2, <3>3
    <3> QED BY <3>4, <3>5 DEF SeqsDiffer
  <2>7. LifeSound'
    <3>1. ASSUME NEW d \in priv', d \notin active'
          PROVE  \E j \in 1 .. depth' : Waiting(j)' /\ calls'[j].dev = d
      <4>1. PICK j \in 1 .. depth : Waiting(j) /\ calls[j].dev = d
        BY <1>3, <2>2, <3>1 DEF IInv, LifeSound
      <4>2. j # depth
        BY <1>3, <2>1, <3>1, <4>1 DEF dev
      <4> QED BY <2>3, <2>4, <4>1, <4>2 DEF Waiting
    <3>2. \A j \in 1 .. depth : calls[j].dev \in bound
      BY <2>1 DEF IInv, LifeSound
    <3>3. \A j \in 1 .. depth' : calls'[j].at # "error"
      BY <2>3 DEF StackSound, FrameSound, Stages
    <3> QED BY <2>2, <2>3, <2>6, <3>1, <3>2, <3>3 DEF LifeSound
  <2>8. CalmSound'
    <3>1. SUFFICES ASSUME Calm PROVE CalmSound'
      BY <2>2 DEF CalmSound, Calm
    <3>2. /\ UpClosed(active)
          /\ \A j \in 1 .. depth : Running(j) => calls[j].dev \in active
          /\ \A i, j \in 1 .. depth :
               i < j /\ Running(i) /\ (calls[j].op = "remove" \/ calls[j].at # "enter") =>
                 Apart(calls[i].dev, calls[j].dev)
          /\ Waiting(depth) /\ ret => Active(Parent[calls[depth].dev])
      BY <2>1, <3>1 DEF IInv, CalmSound
    <3>3. Active(Parent[dev])
      BY <1>1, <2>1, <3>2 DEF Waiting, dev
    <3>4. UpClosed(active')
      BY <1>3, <3>2, <3>3 DEF UpClosed, Active
    <3>5. ASSUME NEW i \in 1 .. depth, NEW j \in 1 .. depth, i < j, Running(i)',
                 calls'[j].at # "enter"
          PROVE  Apart(calls'[i].dev, calls'[j].dev)
      <4>1. i # depth /\ calls'[i] = calls[i] /\ Running(i)
        BY <2>1, <2>4, <3>5 DEF Running
      <4>2. calls[j].at # "enter" /\ calls'[j].dev = calls[j].dev
        BY <1>1, <2>1, <2>3, <2>4, <3>5
      <4> QED BY <3>2, <3>5, <4>1, <4>2
    <3>6. ~Waiting(depth)'
      BY <2>3 DEF Waiting
    <3>7. ASSUME NEW j \in 1 .. depth, Running(j)' PROVE calls'[j].dev \in active'
      <4>1. CASE j = depth
        BY <1>3, <2>1, <2>3, <4>1 DEF dev
      <4>2. CASE j # depth
        BY <1>3, <2>4, <3>2, <3>7, <4>2 DEF Running
      <4> QED BY <4>1, <4>2
    <3> QED BY <2>3, <3>4, <3>5, <3>6, <3>7 DEF CalmSound, UpClosed, Apart
  <2>9. PrivSound'
    <3>1. SUFFICES ASSUME Calm, "reentered" \notin mishaps PROVE PrivSound'
      BY <2>2 DEF PrivSound, Calm
    <3>2. active \subseteq priv /\ \A j \in 1 .. depth : Waiting(j) => calls[j].dev \in priv
      BY <1>1, <3>1, ProbePriv
    <3>3. dev \in priv
      BY <1>1, <2>1, <3>2 DEF Waiting, dev
    <3>4. ASSUME NEW j \in 1 .. depth, Waiting(j)' PROVE calls'[j].dev \in priv'
      <4>1. j # depth
        BY <2>3, <3>4 DEF Waiting
      <4> QED BY <2>2, <2>4, <3>2, <3>4, <4>1 DEF Waiting
    <3> QED BY <1>3, <2>2, <2>3, <3>2, <3>3, <3>4 DEF PrivSound
  <2>10. /\ active' \subseteq bound /\ priv' \subseteq Devices
         /\ seq' \in [Devices -> Nat \cup {-1}]
    BY <1>3, <2>1, <2>2, <2>5 DEF IInv, ListsSound, TypeOK
  <2> QED BY <1>1, <2>3, <2>7, <2>8, <2>9, <2>10, ProbeRest
<1> QED BY <1>2, <1>3 DEF ProbeParentDone

\* The hooks go on, call another probe, or the device is to be removed again.
LEMMA ProbeRuns ==
  ASSUME IInv, stack # <<>>, Top.op = "probe", Top.at \in {"hooks", "post"},
         UNCHANGED <<lists, life, handed, mishaps>>,
         stack' \in Seq(Frames), StackSound', ret' = TRUE,
         calls'[depth].at \in {"hooks", "post", "undo"},
         \A j \in 1 .. depth : calls'[j].op = "probe" /\ calls'[j].dev = calls[j].dev,
         \A j \in 1 .. depth - 1 : calls'[j] = calls[j] /\ j \in 1 .. depth,
         \/ depth' = depth
         \/ /\ depth' = depth + 1 /\ calls'[depth + 1].at = "enter"
            /\ \/ calls'[depth + 1].op = "probe" /\ calls'[depth + 1].dev \in bound
               \/ /\ calls'[depth + 1].op = "remove" /\ calls'[depth].at = "undo"
                  /\ calls'[depth + 1].dev = dev
  PROVE  IInv'
<1>1. /\ depth \in Nat \ {0} /\ depth \in 1 .. depth /\ Top = calls[depth]
      /\ calls \in [1 .. depth -> Frames] /\ Top \in Frames
      /\ dev \in Devices /\ dev \in bound /\ ~handed
      /\ \A j \in 1 .. depth : calls[j].op = "probe"
  BY ProbeState
<1>2. /\ depth' \in Nat /\ depth \in 1 .. depth'
      /\ \A j \in 1 .. depth' : j \in 1 .. depth - 1 \/ j = depth \/ j = depth + 1
      /\ \A j \in 1 .. depth : j \in 1 .. depth' /\ (j # depth => calls'[j] = calls[j])
  BY <1>1
<1>3. /\ active' = active /\ priv' = priv /\ seq' = seq /\ linked' = linked /\ bound' = bound
      /\ plat' = plat /\ mishaps' = mishaps /\ handed' = handed
  BY DEF life, lists
<1>4. \A j \in 1 .. depth' :
        /\ calls'[j].op \in {"probe", "remove"} /\ calls'[j].at \notin {"error", "children"}
        /\ calls'[j].op = "probe" => calls'[j].dev \in bound
  <2>1. \A j \in 1 .. depth : calls[j].dev \in bound
    BY <1>1 DEF IInv, LifeSound
  <2>2. \A j \in 1 .. depth : calls[j].at \notin {"error", "children"}
    BY <1>1 DEF IInv, StackSound, FrameSound, Stages
  <2> QED BY <1>1, <1>2, <2>1, <2>2
<1>5. \A j \in 1 .. depth' : (Waiting(j)' \/ Running(j)') =>
        /\ j \in 1 .. depth /\ calls'[j].dev = calls[j].dev
        /\ Waiting(j)' => Waiting(j) /\ j # depth
        /\ Running(j)' => Running(j)
  BY <1>1, <1>2 DEF Waiting, Running
<1>6. LifeSound'
  <2>1. ASSUME NEW d \in priv', d \notin active'
        PROVE  \E j \in 1 .. depth' : Waiting(j)' /\ calls'[j].dev = d
    <3>1. PICK j \in 1 .. depth : Waiting(j) /\ calls[j].dev = d
      BY <1>3, <2>1 DEF IInv, LifeSound
    <3>2. j # depth
      BY <1>1, <3>1 DEF Waiting
    <3> QED BY <1>2, <3>1, <3>2 DEF Waiting
  <2> QED BY <1>3, <1>4, <2>1 DEF IInv, LifeSound, SeqsDiffer
<1>7. CalmSound'
  <2>1. SUFFICES ASSUME Calm PROVE CalmSound'
    BY <1>3 DEF CalmSound, Calm
  <2>2. /\ UpClosed(active)
        /\ \A j \in 1 .. depth : Running(j) => calls[j].dev \in active
        /\ \A i, j \in 1 .. depth :
             i < j /\ Running(i) /\ (calls[j].op = "remove" \/ calls[j].at # "enter") =>
               Apart(calls[i].dev, calls[j].dev)
    BY <1>1, <2>1 DEF IInv, CalmSound
  <2>3. ASSUME NEW i \in 1 .. depth', NEW j \in 1 .. depth', i < j, Running(i)',
               calls'[j].op = "remove" \/ calls'[j].at # "enter"
        PROVE  Apart(calls'[i].dev, calls'[j].dev)
    <3>1. i \in 1 .. depth /\ Running(i) /\ calls'[i].dev = calls[i].dev
      BY <1>5, <2>3
    <3>2. CASE j \in 1 .. depth
      <4>1. calls[j].at # "enter" /\ calls'[j].dev = calls[j].dev
        BY <1>1, <1>2, <2>3, <3>2
      <4> QED BY <2>2, <2>3, <3>1, <3>2, <4>1
    <3>3. CASE j = depth + 1
      <4>1. calls'[j].dev = calls[depth].dev /\ calls'[depth].at = "undo"
        BY <1>1, <1>2, <2>3, <3>3 DEF dev
      <4>2. i # depth /\ i < depth
        BY <1>1, <2>3, <3>1, <4>1 DEF Running
      <4> QED BY <1>1, <2>2, <3>1, <4>1, <4>2
    <3> QED BY <1>1, <1>2, <3>2, <3>3
  <2>4. ~Waiting(depth)'
    <3>1. depth' \in 1 .. depth' /\ (depth' = depth \/ depth' = depth + 1)
      BY <1>1
    <3> QED BY <3>1 DEF Waiting
  <2>5. \A j \in 1 .. depth' : Running(j)' => calls'[j].dev \in active'
    BY <1>3, <1>5, <2>2
  <2> QED BY <1>3, <1>4, <2>2, <2>3, <2>4, <2>5 DEF CalmSound, UpClosed, Apart
<1>8. PrivSound'
  <2>1. SUFFICES ASSUME Calm, "reentered" \notin mishaps PROVE PrivSound'
    BY <1>3 DEF PrivSound, Calm
  <2>2. active \subseteq priv /\ \A j \in 1 .. depth : Waiting(j) => calls[j].dev \in priv
    BY <2>1, ProbePriv
  <2> QED BY <1>3, <1>5, <2>2 DEF PrivSound
<1>9. /\ active' \subseteq bound /\ priv' \subseteq Devices
      /\ seq' \in [Devices -> Nat \cup {-1}]
  BY <1>3 DEF IInv, ListsSound, TypeOK
<1>10. \A j \in 1 .. depth' : calls'[j].op \in {"probe", "remove"}
  BY <1>4
<1> QED BY <1>3, <1>6, <1>7, <1>8, <1>9, <1>10, ProbeRest DEF lists, life

LEMMA ProbeOtherIInv ==
  ASSUME IInv, ProbeOther
  PROVE  IInv'
<1>1. /\ stack # <<>> /\ Top.op = "probe" /\ Top.at \in {"hooks", "post"}
      /\ UNCHANGED <<lists, life, handed, mishaps>>
  BY DEF ProbeOther, At
<1>2. PICK e \in Top.todo \cap bound : Call(Top.at, Top.todo \ {e}, Frame("probe", e, TRUE))
  BY DEF ProbeOther
<1>3. /\ Top.at \in Stages("probe") /\ Top.todo \ {e} \in SUBSET Devices /\ e \in Devices
      /\ handed' = handed
  <2>1. Top \in Frames /\ bound \subseteq Devices
    BY <1>1, ProbeState DEF IInv, TypeOK
  <2> QED BY <1>1, <2>1 DEF Stages, Frames
<1>4. /\ stack' \in Seq(Frames) /\ StackSound' /\ depth' = depth + 1 /\ ret' = TRUE
      /\ calls'[depth].at = Top.at
      /\ calls'[depth + 1].op = "probe" /\ calls'[depth + 1].dev = e
      /\ calls'[depth + 1].at = "enter"
      /\ \A j \in 1 .. depth : calls'[j].op = "probe" /\ calls'[j].dev = calls[j].dev
      /\ \A j \in 1 .. depth - 1 : calls'[j] = calls[j] /\ j \in 1 .. depth
  BY <1>1, <1>2, <1>3, ProbeCalls
<1> QED BY <1>1, <1>4, ProbeRuns

LEMMA ProbeHooksDoneIInv ==
  ASSUME IInv, ProbeHooksDone
  PROVE  IInv'
<1>1. /\ stack # <<>> /\ Top.op = "probe" /\ Top.at = "hooks" /\ Goto("post", Top.todo)
      /\ UNCHANGED <<lists, life, handed, mishaps>>
  BY DEF ProbeHooksDone, At
<1>2. "post" \in Stages("probe") /\ Top.todo \in SUBSET Devices /\ handed' = handed
  <2>1. Top \in Frames
    BY <1>1, ProbeState
  <2> QED BY <1>1, <2>1 DEF Stages, Frames
<1>3. /\ stack' \in Seq(Frames) /\ StackSound' /\ depth' = depth /\ ret' = TRUE
      /\ calls'[depth].at = "post"
      /\ \A j \in 1 .. depth : calls'[j].op = "probe" /\ calls'[j].dev = calls[j].dev
      /\ \A j \in 1 .. depth - 1 : calls'[j] = calls[j] /\ j \in 1 .. depth
  BY <1>1, <1>2, ProbeGoes
<1> QED BY <1>1, <1>3, ProbeRuns

LEMMA ProbePostFailsIInv ==
  ASSUME IInv, ProbePostFails
  PROVE  IInv'
<1>1. /\ stack # <<>> /\ Top.op = "probe" /\ Top.at = "post"
      /\ Call("undo", {}, Frame("remove", dev, TRUE))
      /\ UNCHANGED <<lists, life, handed, mishaps>>
  BY DEF ProbePostFails, At
<1>2. "undo" \in Stages("probe") /\ {} \in SUBSET Devices /\ dev \in Devices /\ handed' = handed
  BY <1>1, ProbeState DEF Stages
<1>3. /\ stack' \in Seq(Frames) /\ StackSound' /\ depth' = depth + 1 /\ ret' = TRUE
      /\ calls'[depth].at = "undo"
      /\ calls'[depth + 1].op = "remove" /\ calls'[depth + 1].dev = dev
      /\ calls'[depth + 1].at = "enter"
      /\ \A j \in 1 .. depth : calls'[j].op = "probe" /\ calls'[j].dev = calls[j].dev
      /\ \A j \in 1 .. depth - 1 : calls'[j] = calls[j] /\ j \in 1 .. depth
  BY <1>1, <1>2, ProbeCalls
<1> QED BY <1>1, <1>3, ProbeRuns

LEMMA ProbeIInv ==
  ASSUME IInv,
         \/ ProbeEnter \/ ProbeNoMemory \/ ProbeParentDone \/ ProbeParentFailed \/ ProbeOther
         \/ ProbeHooksDone \/ ProbeHookFails \/ ProbeDone \/ ProbePostFails \/ ProbeUndone
  PROVE  IInv'
<1>1. CASE ProbeEnter
  BY <1>1, ProbeEnterIInv
<1>2. CASE ProbeNoMemory
  BY <1>2, ProbeFailsIInv DEF ProbeNoMemory, At
<1>3. CASE ProbeParentDone
  BY <1>3, ProbeParentDoneIInv
<1>4. CASE ProbeParentFailed
  BY <1>4, ProbeFailsIInv DEF ProbeParentFailed, At
<1>5. CASE ProbeOther
  BY <1>5, ProbeOtherIInv
<1>6. CASE ProbeHooksDone
  BY <1>6, ProbeHooksDoneIInv
<1>7. CASE ProbeHookFails
  BY <1>7, ProbeFailsIInv DEF ProbeHookFails, At
<1>8. CASE ProbeDone
  BY <1>8, ProbeReturns DEF ProbeDone, At, Return
<1>9. CASE ProbePostFails
  BY <1>9, ProbePostFailsIInv
<1>10. CASE ProbeUndone
  BY <1>10, ProbeFailsIInv DEF ProbeUndone, At
<1> QED BY <1>1, <1>2, <1>3, <1>4, <1>5, <1>6, <1>7, <1>8, <1>9, <1>10
-----------------------------------------------------------------------------
(***************************************************************************)
(* Remove.                                                                 *)
(***************************************************************************)
LEMMA RemoveState ==
  ASSUME IInv, stack # <<>>, Top.op = "remove"
  PROVE  /\ depth \in Nat \ {0} /\ depth \in 1 .. depth /\ Top = calls[depth]
         /\ calls \in [1 .. depth -> Frames] /\ Top \in Frames
         /\ dev \in Devices \cup {Root} /\ (dev = Root => handed)
         /\ FrameSound(Top)
         /\ \A j \in 1 .. depth :
              /\ calls[j].op \in {"probe", "remove"}
              /\ calls[j].op = "probe" =>
                   ~handed /\ j < depth /\ calls[j].at \in {"parent", "hooks", "post", "undo"}
              /\ calls[j].op = "remove" => calls[j].at \in {"enter", "children", "error"}
              /\ calls[j].op = "remove" /\ j < depth => calls[j].at = "children"
         /\ depth > 1 => ~Waiting(depth - 1)
<1>1. /\ depth \in Nat \ {0} /\ depth \in 1 .. depth /\ Top = calls[depth]
      /\ calls \in [1 .. depth -> Frames] /\ Top \in Frames
  BY CallsType DEF IInv
<1>2. dev \in Devices \cup {Root} /\ FrameSound(Top) /\ (dev = Root => handed)
  BY <1>1, TopSound DEF IInv, Frames, dev
<1>3. ASSUME NEW j \in 1 .. depth
      PROVE  /\ calls[j].op \in {"probe", "remove"}
             /\ calls[j].op = "probe" => ~handed /\ j < depth
             /\ calls[j].op = "remove" => calls[j].at \in {"enter", "children", "error"}
  <2>1. calls[j].op \in {"probe", "remove"} /\ FrameSound(calls[j])
    BY Homogeneous DEF IInv, StackSound
  <2>2. calls[j].op = "probe" => j # depth
    BY <1>1
  <2> QED BY <1>1, <2>1, <2>2 DEF FrameSound, Stages
<1>4. ASSUME NEW j \in 1 .. depth, j < depth
      PROVE  /\ calls[j].op = "probe" => calls[j].at \in {"parent", "hooks", "post", "undo"}
             /\ calls[j].op = "remove" => calls[j].at = "children"
  <2>1. Called(calls[j], calls[j + 1])
    <3>1. j \in 1 .. depth - 1
      BY <1>1, <1>4
    <3> QED BY <3>1 DEF IInv, StackSound
  <2> QED BY <2>1 DEF Called
<1>5. ASSUME depth > 1 PROVE ~Waiting(depth - 1)
  <2>1. Called(calls[depth - 1], Top)
    BY <1>5, TopSound DEF IInv
  <2> QED BY <2>1 DEF Called, Waiting
<1> QED BY <1>1, <1>2, <1>3, <1>4, <1>5

\* What a step of a removal leaves of the stack: the probes, and the devices of
\* the other removals.
Removes ==
  /\ \A j \in 1 .. depth : calls[j].op = "probe" => j \in 1 .. depth' /\ calls'[j] = calls[j]
  /\ \A j \in 1 .. depth' :
       \/ calls'[j].op = "probe" /\ j \in 1 .. depth /\ calls'[j] = calls[j]
       \/ /\ calls'[j].op = "remove" /\ j \in 1 .. depth /\ calls[j].op = "remove"
          /\ calls'[j].dev = calls[j].dev
       \/ /\ calls'[j].op = "remove" /\ j = depth + 1
          /\ calls'[j].dev \in Devices /\ Parent[calls'[j].dev] = dev
  /\ depth' > 0 => ~Waiting(depth)'

LEMMA RemoveGoes ==
  ASSUME IInv, stack # <<>>, Top.op = "remove", handed' = handed,
         NEW at \in {"children", "error"}, NEW todo \in SUBSET Devices, Goto(at, todo),
         \A c \in todo : Parent[c] = dev
  PROVE  /\ stack' \in Seq(Frames) /\ StackSound' /\ Removes /\ depth' = depth /\ ret' = TRUE
         /\ calls'[depth].op = "remove" /\ calls'[depth].dev = dev
         /\ calls'[depth].at = at /\ calls'[depth].todo = todo
         /\ \A j \in 1 .. depth - 1 : calls'[j] = calls[j] /\ j \in 1 .. depth
<1> DEFINE f == [Top EXCEPT !.at = at, !.todo = todo]
<1>1. /\ depth \in Nat \ {0} /\ depth \in 1 .. depth /\ Top = calls[depth]
      /\ calls \in [1 .. depth -> Frames] /\ Top \in Frames
      /\ \A j \in 1 .. depth : calls[j].op \in {"probe", "remove"}
  BY RemoveState
<1>2. SameCall(f) /\ f.at = at /\ f.todo = todo /\ f.op = "remove" /\ f.dev = dev
  <2>1. at \in Ats
    BY DEF Ats
  <2> QED BY <1>1, <2>1 DEF SameCall, Frames, dev, Ats
<1>3. stack' = <<f>> \o Tail(stack) /\ ret' = TRUE
  BY DEF Goto
<1> HIDE DEF f
<1>4. stack' \in Seq(Frames) /\ Changes(f) /\ StackSound'
  <2>1. f.at \in Stages(f.op) /\ \A c \in f.todo : Parent[c] = f.dev
    BY <1>2 DEF Stages
  <2> QED BY <1>2, <1>3, <2>1, ChangeSound DEF IInv
<1>5. depth' = depth /\ calls'[depth] = f /\ \A j \in 1 .. depth - 1 : calls'[j] = calls[j]
  BY <1>4 DEF Changes
<1>6. Removes
  <2>1. \A j \in 1 .. depth : j = depth \/ j \in 1 .. depth - 1
    BY <1>1
  <2>2. ~Waiting(depth)'
    BY <1>2, <1>5 DEF Waiting
  <2> QED BY <1>1, <1>2, <1>5, <2>1, <2>2 DEF Removes, dev
<1> QED BY <1>1, <1>2, <1>3, <1>4, <1>5, <1>6

LEMMA RemoveCalls ==
  ASSUME IInv, RemoveChild
  PROVE  /\ stack' \in Seq(Frames) /\ StackSound' /\ Removes /\ depth' = depth + 1
         /\ ret' = TRUE
         /\ \E c \in Top.todo :
              /\ calls'[depth].op = "remove" /\ calls'[depth].dev = dev
              /\ calls'[depth].at = "children" /\ calls'[depth].todo = Top.todo \ {c}
              /\ calls'[depth + 1].op = "remove" /\ calls'[depth + 1].dev = c
              /\ calls'[depth + 1].at = "enter"
         /\ \A j \in 1 .. depth - 1 : calls'[j] = calls[j] /\ j \in 1 .. depth
<1>1. stack # <<>> /\ Top.op = "remove" /\ Top.at = "children" /\ handed' = handed
  BY DEF RemoveChild, At
<1>2. PICK c \in Top.todo :
        Call("children", Top.todo \ {c}, Frame("remove", c, Top.normal))
  BY DEF RemoveChild
<1> DEFINE f == [Top EXCEPT !.at = "children", !.todo = Top.todo \ {c}]
           g == Frame("remove", c, Top.normal)
<1>3. /\ depth \in Nat \ {0} /\ depth \in 1 .. depth /\ Top = calls[depth]
      /\ calls \in [1 .. depth -> Frames] /\ Top \in Frames /\ FrameSound(Top)
      /\ \A j \in 1 .. depth : calls[j].op \in {"probe", "remove"}
  BY <1>1, RemoveState
<1>4. c \in Devices /\ Parent[c] = dev /\ \A x \in Top.todo : Parent[x] = dev
  BY <1>1, <1>3 DEF Frames, FrameSound, dev
<1>5. /\ SameCall(f) /\ f.at = "children" /\ f.todo = Top.todo \ {c} /\ f.op = "remove"
      /\ f.dev = dev
  BY <1>1, <1>3 DEF SameCall, Frames, dev
<1>6. /\ g \in Frames /\ g.op = "remove" /\ g.at = "enter" /\ g.dev = c
      /\ g.normal = Top.normal /\ g.todo = {}
  BY <1>3, <1>4 DEF Frame, Frames
<1>7. stack' = <<g, f>> \o Tail(stack) /\ ret' = TRUE
  BY <1>2 DEF Call
<1> HIDE DEF f, g
<1>8. stack' \in Seq(Frames) /\ Pushes(f, g) /\ StackSound'
  <2>1. f.at \in Stages(f.op) /\ \A x \in f.todo : Parent[x] = f.dev
    BY <1>4, <1>5 DEF Stages
  <2>2. FrameSound(g)
    <3>1. g.dev # Root
      BY <1>4, <1>6, DeviceAssumption
    <3> QED BY <1>3, <1>6, <3>1 DEF FrameSound, Stages
  <2>3. Called(f, g)
    BY <1>4, <1>5, <1>6 DEF Called
  <2> QED BY <1>1, <1>5, <1>6, <1>7, <2>1, <2>2, <2>3, PushSound DEF IInv
<1>9. /\ depth' = depth + 1 /\ calls'[depth] = f /\ calls'[depth + 1] = g
      /\ \A j \in 1 .. depth - 1 : calls'[j] = calls[j]
  BY <1>8 DEF Pushes
<1>10. Removes
  <2>1. /\ \A j \in 1 .. depth : j \in 1 .. depth' /\ (j = depth \/ j \in 1 .. depth - 1)
        /\ \A j \in 1 .. depth' : j = depth + 1 \/ j = depth \/ j \in 1 .. depth - 1
        /\ \A j \in 1 .. depth - 1 : j \in 1 .. depth
    BY <1>3, <1>9
  <2>2. ~Waiting(depth)'
    BY <1>6, <1>9 DEF Waiting
  <2>3. \A j \in 1 .. depth : calls[j].op = "probe" => j # depth
    BY <1>1, <1>3
  <2>4. ASSUME NEW j \in 1 .. depth'
        PROVE  \/ calls'[j].op = "probe" /\ j \in 1 .. depth /\ calls'[j] = calls[j]
               \/ /\ calls'[j].op = "remove" /\ j \in 1 .. depth /\ calls[j].op = "remove"
                  /\ calls'[j].dev = calls[j].dev
               \/ /\ calls'[j].op = "remove" /\ j = depth + 1
                  /\ calls'[j].dev \in Devices /\ Parent[calls'[j].dev] = dev
    <3>1. CASE j = depth + 1
      BY <1>4, <1>6, <1>9, <3>1
    <3>2. CASE j = depth
      BY <1>1, <1>3, <1>5, <1>9, <3>2 DEF dev
    <3>3. CASE j \in 1 .. depth - 1
      BY <1>3, <1>9, <2>1, <3>3
    <3> QED BY <2>1, <3>1, <3>2, <3>3
  <2> QED BY <1>9, <2>1, <2>2, <2>3, <2>4 DEF Removes
<1> QED BY <1>3, <1>5, <1>6, <1>7, <1>8, <1>9, <1>10

LEMMA RemovePops ==
  ASSUME IInv, stack # <<>>, Top.op = "remove", handed' = handed, stack' = Tail(stack)
  PROVE  /\ stack' \in Seq(Frames) /\ StackSound' /\ Removes
         /\ depth' = depth - 1 /\ depth' \in Nat
         /\ \A j \in 1 .. depth - 1 : calls'[j] = calls[j] /\ j \in 1 .. depth
<1>1. /\ depth \in Nat \ {0} /\ depth \in 1 .. depth /\ Top = calls[depth]
      /\ \A j \in 1 .. depth : calls[j].op \in {"probe", "remove"}
      /\ depth > 1 => ~Waiting(depth - 1)
  BY RemoveState
<1>2. stack' \in Seq(Frames) /\ Pops /\ StackSound'
  BY PopSound DEF IInv
<1>3. depth' = depth - 1 /\ \A j \in 1 .. depth - 1 : calls'[j] = calls[j] /\ j \in 1 .. depth
  BY <1>1, <1>2 DEF Pops
<1>4. Removes
  <2>1. \A j \in 1 .. depth : j = depth \/ j \in 1 .. depth - 1
    BY <1>1
  <2>2. ASSUME depth' > 0 PROVE ~Waiting(depth)'
    <3>1. depth - 1 \in 1 .. depth - 1 /\ depth > 1
      BY <1>1, <1>3, <2>2
    <3> QED BY <1>1, <1>3, <3>1 DEF Waiting
  <2> QED BY <1>1, <1>3, <2>1, <2>2 DEF Removes
<1> QED BY <1>1, <1>2, <1>3, <1>4

\* Probes that are doomed stay so.
LEMMA RemoveDooms ==
  ASSUME IInv, stack # <<>>, Top.op = "remove", Removes
  PROVE  /\ \A j \in 1 .. depth : Doomed(j) => Doomed(j)'
         /\ Reenters => Reenters'
         /\ \A j \in 1 .. depth' : Waiting(j)' => j \in 1 .. depth /\ Waiting(j) /\ calls'[j] = calls[j]
<1>1. /\ depth \in Nat \ {0} /\ depth \in 1 .. depth /\ Top = calls[depth]
      /\ \A j \in 1 .. depth :
           /\ calls[j].op \in {"probe", "remove"}
           /\ calls[j].op = "remove" => calls[j].at \in {"enter", "children", "error"}
  BY RemoveState
<1>2. \A j \in 1 .. depth : calls[j].op = "probe" => j \in 1 .. depth' /\ calls'[j] = calls[j]
  BY DEF Removes
<1>3. ASSUME NEW j \in 1 .. depth, Doomed(j) PROVE Doomed(j)'
  <2>1. PICK m \in j .. depth :
          /\ \A i \in j .. m - 1 : Waiting(i)
          /\ calls[m].at = "undo" \/ (m = depth /\ Waiting(m) /\ ~ret)
    BY <1>3 DEF Doomed
  <2>2. m \in 1 .. depth /\ j \in Int /\ \A i \in j .. m - 1 : i \in 1 .. depth
    BY <1>1
  <2>3. calls[m].at = "undo" /\ calls[m].op = "probe"
    BY <1>1, <2>1, <2>2 DEF Waiting
  <2>4. m \in 1 .. depth' /\ calls'[m] = calls[m]
    BY <1>2, <2>2, <2>3
  <2>5. \A i \in j .. m - 1 : Waiting(i)'
    BY <1>2, <2>1, <2>2 DEF Waiting
  <2>6. m \in j .. depth'
    BY <2>2, <2>4
  <2> QED BY <2>3, <2>4, <2>5, <2>6 DEF Doomed
<1>4. ASSUME Reenters PROVE Reenters'
  <2>1. PICK j \in 1 .. depth : calls[j].at = "undo" /\
          \E i \in 1 .. j - 1 : calls[i].op = "probe" /\ calls[i].dev = calls[j].dev
    BY <1>4 DEF Reenters
  <2>2. PICK i \in 1 .. j - 1 : calls[i].op = "probe" /\ calls[i].dev = calls[j].dev
    BY <2>1
  <2>3. i \in 1 .. depth /\ calls[j].op = "probe"
    BY <1>1, <2>1
  <2>4. j \in 1 .. depth' /\ calls'[j] = calls[j] /\ calls'[i] = calls[i]
    BY <1>2, <2>2, <2>3
  <2> QED BY <2>1, <2>2, <2>4 DEF Reenters
<1>5. \A j \in 1 .. depth' : Waiting(j)' => j \in 1 .. depth /\ Waiting(j) /\ calls'[j] = calls[j]
  BY DEF Removes, Waiting
<1> QED BY <1>3, <1>4, <1>5

\* What is to be seen of a step of a removal once its stack is known: of the
\* children that are active, which are to come, and what becomes of the private
\* data and of the search before the hand-over.
LEMMA RemoveRest ==
  ASSUME IInv, stack # <<>>, Top.op = "remove", UNCHANGED <<lists, handed>>,
         stack' \in Seq(Frames), StackSound', Removes, ret' \in BOOLEAN,
         mishaps \subseteq mishaps', mishaps' \subseteq mishaps \cup {"remove"},
         \/ UNCHANGED life
         \/ /\ dev \in Devices
            /\ active' = active \ {dev} /\ priv' = priv \ {dev}
            /\ seq' = [seq EXCEPT ![dev] = -1]
            /\ Calm /\ ~handed => Children(dev) \cap active = {},
         \A j \in 1 .. depth' : calls'[j].at = "error" => "remove" \in mishaps',
         Calm' /\ ~handed =>
           \A j \in 1 .. depth' : calls'[j].op = "remove" /\ calls'[j].at = "children" =>
             \A c \in Devices :
               (Parent[c] = calls'[j].dev /\ c \in linked /\ c \in active') =>
                 c \in calls'[j].todo \/ (j < depth' /\ c = calls'[j + 1].dev),
         PrivSound', HandSound'
  PROVE  IInv'
<1>1. /\ depth \in Nat \ {0} /\ depth \in 1 .. depth /\ Top = calls[depth]
      /\ dev \in Devices \cup {Root} /\ (dev = Root => handed)
      /\ \A j \in 1 .. depth :
           /\ calls[j].op \in {"probe", "remove"}
           /\ calls[j].op = "probe" => ~handed /\ j < depth
           /\ calls[j].op = "remove" /\ j < depth => calls[j].at = "children"
  BY RemoveState
<1>2. linked' = linked /\ bound' = bound /\ plat' = plat /\ handed' = handed
  BY DEF lists
<1>3. active' \subseteq active /\ priv' \subseteq priv
  BY DEF life
<1>4. TypeOK'
  <2>1. active \subseteq Devices /\ priv \subseteq Devices /\ seq \in [Devices -> Nat \cup {-1}]
    BY DEF IInv, TypeOK
  <2>2. seq' \in [Devices -> Nat \cup {-1}]
    BY <2>1 DEF life
  <2>3. mishaps' \subseteq {"bind", "orphan", "reentered", "remove", "unbind"}
    BY DEF IInv, TypeOK
  <2> QED BY <1>2, <1>3, <2>1, <2>2, <2>3 DEF IInv, TypeOK
<1>5. ListsSound' /\ BindSound' /\ UnbindSound'
  <2>1. active' \subseteq bound
    BY <1>3 DEF IInv, ListsSound
  <2>2. \A j \in 1 .. depth' : calls'[j].op \in {"probe", "remove"}
    BY DEF Removes
  <2>3. mishaps' \subseteq mishaps \cup {"orphan", "remove", "reentered"}
    OBVIOUS
  <2> QED BY <2>1, <2>2, <2>3, ListsAlone
<1>6. LifeSound'
  <2>1. SeqsDiffer'
    <3>1. CASE UNCHANGED life
      BY <3>1 DEF IInv, LifeSound, SeqsDiffer, life
    <3>2. CASE dev \in Devices /\ active' = active \ {dev} /\ seq' = [seq EXCEPT ![dev] = -1]
      BY <3>2 DEF IInv, LifeSound, SeqsDiffer, TypeOK
    <3> QED BY <3>1, <3>2
  <2>2. ASSUME NEW d \in priv', d \notin active'
        PROVE  \E j \in 1 .. depth' : Waiting(j)' /\ calls'[j].dev = d
    <3>1. d \in priv /\ d \notin active
      BY <2>2 DEF life
    <3>2. PICK j \in 1 .. depth : Waiting(j) /\ calls[j].dev = d
      BY <3>1 DEF IInv, LifeSound
    <3>3. j \in 1 .. depth' /\ calls'[j] = calls[j]
      BY <3>2 DEF Removes, Waiting
    <3> QED BY <3>2, <3>3 DEF Waiting
  <2>3. ASSUME NEW j \in 1 .. depth', calls'[j].op = "probe" PROVE calls'[j].dev \in bound'
    <3>1. j \in 1 .. depth /\ calls'[j] = calls[j]
      BY <2>3 DEF Removes
    <3> QED BY <1>2, <2>3, <3>1 DEF IInv, LifeSound
  <2> QED BY <2>1, <2>2, <2>3 DEF LifeSound
<1>7. CalmSound'
  <2>1. SUFFICES ASSUME Calm', ~handed PROVE CalmSound'
    BY <1>2 DEF CalmSound
  <2>2. Calm
    BY <2>1 DEF Calm
  <2>3. /\ UpClosed(active)
        /\ \A j \in 1 .. depth : Running(j) => calls[j].dev \in active
        /\ \A i, j \in 1 .. depth :
             i < j /\ Running(i) /\ (calls[j].op = "remove" \/ calls[j].at # "enter") =>
               Apart(calls[i].dev, calls[j].dev)
    BY <2>1, <2>2 DEF IInv, CalmSound
  <2>4. UpClosed(active')
    <3>1. CASE UNCHANGED life
      BY <2>3, <3>1 DEF life, UpClosed
    <3>2. CASE active' = active \ {dev} /\ Children(dev) \cap active = {}
      BY <2>3, <3>2 DEF UpClosed, Children, IInv, TypeOK, ListsSound
    <3> QED BY <2>1, <2>2, <3>1, <3>2
  <2>5. ASSUME NEW j \in 1 .. depth', Running(j)'
        PROVE  j \in 1 .. depth /\ Running(j) /\ calls'[j] = calls[j] /\ j < depth
    <3>1. j \in 1 .. depth /\ calls'[j] = calls[j]
      BY <2>5 DEF Removes, Running
    <3> QED BY <1>1, <2>5, <3>1 DEF Running
  <2>6. ASSUME NEW j \in 1 .. depth', Running(j)' PROVE calls'[j].dev \in active'
    <3>1. j \in 1 .. depth /\ Running(j) /\ calls'[j] = calls[j] /\ j < depth
      BY <2>5, <2>6
    <3>2. Apart(calls[j].dev, dev)
      BY <1>1, <2>3, <3>1 DEF dev
    <3>3. calls[j].dev # dev
      BY <3>2 DEF Apart
    <3> QED BY <2>3, <3>1, <3>3 DEF life
  <2>7. ASSUME NEW i \in 1 .. depth', NEW j \in 1 .. depth', i < j, Running(i)',
               calls'[j].op = "remove" \/ calls'[j].at # "enter"
        PROVE  Apart(calls'[i].dev, calls'[j].dev)
    <3>1. i \in 1 .. depth /\ Running(i) /\ calls'[i] = calls[i] /\ i < depth
      BY <2>5, <2>7
    <3>2. CASE calls'[j].op = "probe" /\ j \in 1 .. depth /\ calls'[j] = calls[j]
      BY <2>3, <2>7, <3>1, <3>2
    <3>3. CASE j \in 1 .. depth /\ calls[j].op = "remove" /\ calls'[j].dev = calls[j].dev
      BY <2>3, <2>7, <3>1, <3>3
    <3>4. CASE calls'[j].dev \in Devices /\ Parent[calls'[j].dev] = dev
      <4>1. Apart(calls[i].dev, dev)
        BY <1>1, <2>3, <3>1 DEF dev
      <4>2. PICK U \in SUBSET Devices : UpClosed(U) /\ calls[i].dev \in U /\ dev \notin U
        BY <4>1 DEF Apart
      <4>3. dev # Root
        BY <1>1, <2>1
      <4>4. calls'[j].dev \notin U
        BY <3>4, <4>2, <4>3 DEF UpClosed
      <4> QED BY <3>1, <4>2, <4>4 DEF Apart
    <3> QED BY <3>2, <3>3, <3>4 DEF Removes
  <2>8. \A j \in 1 .. depth' : calls'[j].op = "remove" /\ calls'[j].at = "children" =>
          \A c \in Children(calls[j].dev)' \cap active' :
            c \in calls'[j].todo \/ (j < depth' /\ c = calls'[j + 1].dev)
    BY <1>2, <2>1 DEF Children, IInv, TypeOK
  <2> QED BY <2>4, <2>6, <2>7, <2>8 DEF CalmSound, UpClosed, Apart, Removes
<1> QED BY <1>4, <1>5, <1>6, <1>7 DEF IInv

\* The same of the private data, when none is freed
LEMMA RemovePriv ==
  ASSUME IInv, stack # <<>>, Top.op = "remove", Removes, UNCHANGED life,
         mishaps \subseteq mishaps'
  PROVE  PrivSound'
<1>1. SUFFICES ASSUME Calm', "reentered" \notin mishaps' PROVE PrivSound'
  BY DEF PrivSound
<1>2. Calm /\ "reentered" \notin mishaps
  BY <1>1 DEF Calm
<1>3. /\ active \subseteq priv
      /\ \A j \in 1 .. depth : Waiting(j) => calls[j].dev \in priv \/ Doomed(j) \/ Reenters
  BY <1>2 DEF IInv, PrivSound
<1>4. ASSUME NEW j \in 1 .. depth', Waiting(j)'
      PROVE  calls'[j].dev \in priv' \/ Doomed(j)' \/ Reenters'
  <2>1. /\ j \in 1 .. depth /\ Waiting(j) /\ calls'[j] = calls[j]
        /\ (Doomed(j) => Doomed(j)') /\ (Reenters => Reenters')
    BY <1>4, RemoveDooms
  <2> QED BY <1>3, <2>1 DEF life
<1>5. active' \subseteq priv'
  BY <1>3 DEF life
<1> QED BY <1>4, <1>5 DEF PrivSound

\* A removal finds its own device waiting in a probe further out only when that
\* probe is doomed, or when the probe that is undone began within another of
\* the same device: else the probe of some device above it would be running
\* within a removal that has passed it.
LEMMA RemovedWaits ==
  ASSUME IInv, stack # <<>>, Top.op = "remove", Calm,
         NEW j \in 1 .. depth, Waiting(j), calls[j].dev = dev
  PROVE  Doomed(j) \/ Reenters
<1> DEFINE R == {i \in 1 .. depth : calls[i].op = "remove"}
<1>1. /\ depth \in Nat \ {0} /\ depth \in 1 .. depth /\ Top = calls[depth]
      /\ \A i \in 1 .. depth :
           /\ calls[i].op \in {"probe", "remove"}
           /\ calls[i].op = "probe" =>
                ~handed /\ i < depth /\ calls[i].at \in {"parent", "hooks", "post", "undo"}
           /\ calls[i].op = "remove" /\ i < depth => calls[i].at = "children"
  BY RemoveState
<1>2. ~handed /\ j < depth
  BY <1>1 DEF Waiting
<1>3. PICK m \in R : \A i \in R : m <= i
  <2>1. R \in SUBSET Nat /\ R # {}
    BY <1>1
  <2> QED BY <2>1, LeastNatural
<1>4. \A i \in 1 .. depth : calls[i].op = "remove" <=> i >= m
  <2>1. \A i \in 1 .. depth : calls[i].op = "remove" => i >= m
    BY <1>1, <1>3
  <2>2. ASSUME NEW i \in 1 .. depth, i >= m PROVE calls[i].op = "remove"
    <3>1. i = m \/ m < i
      BY <1>1, <2>2
    <3> QED BY <1>3, <3>1 DEF IInv, StackSound
  <2> QED BY <2>1, <2>2
<1>5. m \in 1 .. depth /\ j < m
  <2>1. m \in 1 .. depth
    OBVIOUS
  <2>2. ~(j >= m)
    BY <1>4 DEF Waiting
  <2> QED BY <2>1, <2>2
<1> HIDE DEF R
<1> DEFINE u == m - 1
<1>6. /\ u \in 1 .. depth /\ u + 1 = m /\ u < m /\ u \in 1 .. depth - 1 /\ j <= u
  BY <1>1, <1>5
<1>7. \A i \in 1 .. depth : i <= u \/ i >= m
  BY <1>1, <1>6
<1> HIDE DEF u
<1>8. /\ calls[u].op = "probe" /\ calls[u].at = "undo" /\ calls[m].dev = calls[u].dev
      /\ j # u /\ j < u
  <2>1. calls[u].op = "probe"
    BY <1>1, <1>4, <1>5, <1>6
  <2>2. Called(calls[u], calls[m]) /\ calls[m].op = "remove"
    BY <1>4, <1>5, <1>6 DEF IInv, StackSound
  <2>3. calls[u].at = "undo" /\ calls[m].dev = calls[u].dev
    BY <2>1, <2>2 DEF Called
  <2> QED BY <1>6, <2>1, <2>3 DEF Waiting
<1>9. CASE \A i \in j .. u - 1 : Waiting(i)
  <2>1. u \in j .. depth
    BY <1>6
  <2> QED BY <1>8, <1>9, <2>1 DEF Doomed
<1>10. CASE ~ \A i \in j .. u - 1 : Waiting(i)
  <2> DEFINE K == {i \in j .. u - 1 : ~Waiting(i)}
  <2>1. PICK k \in K : \A i \in K : k <= i
    <3>1. K \in SUBSET Nat /\ K # {}
      BY <1>10
    <3> QED BY <3>1, LeastNatural
  <2>2. /\ k \in j .. u - 1 /\ ~Waiting(k)
        /\ \A i \in j .. k - 1 : Waiting(i)
    <3>1. \A i \in j .. k - 1 : i \in j .. u - 1 /\ ~(k <= i)
      BY <1>6
    <3> QED BY <2>1, <3>1
  <2> HIDE DEF K
  <2>3. /\ k \in 1 .. depth /\ k < u /\ k < m /\ j # k /\ j < k /\ k < depth
        /\ j \in j .. k - 1 /\ k \in Int
    <3>1. j # k
      BY <2>2
    <3> QED BY <1>1, <1>5, <1>6, <2>2, <3>1
  <2>4. Running(k)
    <3>1. calls[k].op = "probe"
      BY <1>1, <1>4, <1>5, <2>3
    <3>2. calls[k].at # "undo"
      BY <1>6, <1>8, <2>3 DEF IInv, StackSound
    <3> QED BY <1>1, <2>2, <2>3, <3>1, <3>2 DEF Running, Waiting
  <2> DEFINE A == {calls[l].dev : l \in j .. k - 1}
  <2>5. \A l \in j .. k - 1 : l \in 1 .. depth /\ l + 1 \in j .. k /\ l \in 1 .. depth - 1
    BY <1>1, <2>3
  <2>6. ASSUME NEW a \in A PROVE Parent[a] \in A \/ Parent[a] = calls[k].dev
    <3>1. PICK l \in j .. k - 1 : a = calls[l].dev
      OBVIOUS
    <3>2. Called(calls[l], calls[l + 1]) /\ Waiting(l)
      BY <2>2, <2>5 DEF IInv, StackSound
    <3>3. calls[l + 1].dev = Parent[a]
      BY <3>1, <3>2 DEF Called, Waiting
    <3>4. l + 1 = k \/ l + 1 \in j .. k - 1
      BY <2>3, <2>5
    <3> QED BY <3>3, <3>4
  <2>7. \A i \in 1 .. depth : i >= m => calls[i].dev # calls[k].dev
    <3>1. ASSUME NEW i \in 1 .. depth, i >= m PROVE calls[i].dev # calls[k].dev
      <4>1. calls[i].op = "remove" /\ k < i
        BY <1>1, <1>4, <1>5, <2>3, <3>1
      <4>2. Apart(calls[k].dev, calls[i].dev)
        BY <1>2, <2>3, <2>4, <4>1 DEF IInv, CalmSound
      <4> QED BY <4>2 DEF Apart
    <3> QED BY <3>1
  <2>8. dev \in A
    BY <2>3
  <2> HIDE DEF A
  <2> DEFINE D == {i \in m .. depth : \A l \in i .. depth : calls[l].dev \in A}
  <2>9. PICK i \in D : \A l \in D : i <= l
    <3>1. depth \in D
      <4>1. \A l \in depth .. depth : l = depth
        BY <1>1
      <4>2. depth \in m .. depth
        BY <1>1, <1>5
      <4> QED BY <1>1, <2>8, <4>1, <4>2 DEF dev
    <3>2. D \in SUBSET Nat /\ D # {}
      BY <1>5, <3>1
    <3> QED BY <3>2, LeastNatural
  <2>10. i \in m .. depth /\ i \in 1 .. depth /\ \A l \in i .. depth : calls[l].dev \in A
    BY <1>5
  <2>11. i = m
    <3>1. SUFFICES ASSUME i # m PROVE FALSE
      OBVIOUS
    <3>2. /\ i - 1 \in m .. depth /\ i - 1 \in 1 .. depth /\ i - 1 \in 1 .. depth - 1
          /\ (i - 1) + 1 = i /\ i - 1 >= m /\ ~(i <= i - 1) /\ i \in i .. depth
      BY <1>1, <1>5, <2>10, <3>1
    <3>3. calls[i - 1].op = "remove" /\ Called(calls[i - 1], calls[i])
      BY <1>4, <3>2 DEF IInv, StackSound
    <3>4. calls[i - 1].dev = Parent[calls[i].dev]
      BY <3>3 DEF Called
    <3>5. calls[i - 1].dev \in A
      BY <2>6, <2>7, <2>10, <3>2, <3>4
    <3>6. \A l \in i - 1 .. depth : l = i - 1 \/ l \in i .. depth
      BY <2>10
    <3>7. i - 1 \in D
      BY <2>10, <3>2, <3>5, <3>6
    <3> QED BY <2>9, <3>2, <3>7
  <2>12. calls[u].dev \in A
    <3>1. m \in m .. depth
      BY <1>5
    <3> QED BY <1>8, <2>10, <2>11, <3>1
  <2>13. PICK l \in j .. k - 1 : calls[u].dev = calls[l].dev
    BY <2>12 DEF A
  <2>14. l \in 1 .. u - 1 /\ calls[l].op = "probe"
    <3>1. Waiting(l)
      BY <2>2
    <3>2. l \in 1 .. u - 1
      BY <1>6, <2>3
    <3> QED BY <3>1, <3>2 DEF Waiting
  <2> QED BY <1>6, <1>8, <2>13, <2>14 DEF Reenters
<1> QED BY <1>9, <1>10

\* The private data of a device that is removed
LEMMA RemovePrivDone ==
  ASSUME IInv, stack # <<>>, Top.op = "remove", Removes,
         active' = active \ {dev}, priv' = priv \ {dev}, mishaps \subseteq mishaps'
  PROVE  PrivSound'
<1>1. SUFFICES ASSUME Calm', "reentered" \notin mishaps' PROVE PrivSound'
  BY DEF PrivSound
<1>2. Calm /\ "reentered" \notin mishaps
  BY <1>1 DEF Calm
<1>3. /\ active \subseteq priv
      /\ \A j \in 1 .. depth : Waiting(j) => calls[j].dev \in priv \/ Doomed(j) \/ Reenters
  BY <1>2 DEF IInv, PrivSound
<1>4. ASSUME NEW j \in 1 .. depth', Waiting(j)'
      PROVE  calls'[j].dev \in priv' \/ Doomed(j)' \/ Reenters'
  <2>1. /\ j \in 1 .. depth /\ Waiting(j) /\ calls'[j] = calls[j]
        /\ (Doomed(j) => Doomed(j)') /\ (Reenters => Reenters')
    BY <1>4, RemoveDooms
  <2>2. calls[j].dev = dev => Doomed(j) \/ Reenters
    BY <1>2, <2>1, RemovedWaits
  <2> QED BY <1>3, <2>1, <2>2
<1>5. active' \subseteq priv'
  BY <1>3
<1> QED BY <1>4, <1>5 DEF PrivSound

\* A removal begins with the children.
LEMMA RemoveEnterIInv ==
  ASSUME IInv, RemoveEnter, Active(dev)
  PROVE  IInv'
<1>1. /\ stack # <<>> /\ Top.op = "remove" /\ Top.at = "enter"
      /\ Goto("children", Children(dev))
      /\ UNCHANGED <<lists, life, handed, mishaps>>
  BY DEF RemoveEnter, At
<1>2. /\ depth \in Nat \ {0} /\ depth \in 1 .. depth /\ Top = calls[depth]
      /\ \A j \in 1 .. depth :
           /\ calls[j].op \in {"probe", "remove"}
           /\ calls[j].op = "probe" => ~handed /\ j < depth
  BY <1>1, RemoveState
<1>3. /\ linked' = linked /\ active' = active /\ handed' = handed /\ mishaps' = mishaps
      /\ active \subseteq linked /\ linked \subseteq Devices
  BY <1>1 DEF lists, life, IInv, ListsSound, TypeOK
<1>4. /\ stack' \in Seq(Frames) /\ StackSound' /\ Removes /\ depth' = depth /\ ret' = TRUE
      /\ calls'[depth].op = "remove" /\ calls'[depth].dev = dev
      /\ calls'[depth].at = "children" /\ calls'[depth].todo = Children(dev)
      /\ \A j \in 1 .. depth - 1 : calls'[j] = calls[j] /\ j \in 1 .. depth
  <2>1. Children(dev) \in SUBSET Devices /\ \A c \in Children(dev) : Parent[c] = dev
    BY <1>3 DEF Children
  <2> QED BY <1>1, <2>1, RemoveGoes
<1>5. \A j \in 1 .. depth : j = depth \/ (j \in 1 .. depth - 1 /\ j < depth /\ j + 1 \in 1 .. depth)
  BY <1>2
<1>6. ASSUME NEW j \in 1 .. depth', calls'[j].at = "error" PROVE "remove" \in mishaps'
  <2>1. j \in 1 .. depth /\ calls[j].at = "error"
    BY <1>4, <1>5, <1>6
  <2> QED BY <1>3, <2>1 DEF IInv, LifeSound
<1>7. ASSUME Calm', ~handed,
             NEW j \in 1 .. depth', calls'[j].op = "remove", calls'[j].at = "children",
             NEW c \in Devices, Parent[c] = calls'[j].dev, c \in linked, c \in active'
      PROVE  c \in calls'[j].todo \/ (j < depth' /\ c = calls'[j + 1].dev)
  <2>1. CASE j = depth
    BY <1>4, <1>7, <2>1 DEF Children
  <2>2. CASE j # depth
    <3>1. j \in 1 .. depth - 1 /\ j < depth /\ j + 1 \in 1 .. depth /\ calls'[j] = calls[j]
      BY <1>4, <1>5, <1>7, <2>2
    <3>2. c \in calls[j].todo \/ c = calls[j + 1].dev
      BY <1>3, <1>4, <1>7, <3>1 DEF IInv, CalmSound, Calm, Children
    <3>3. calls'[j + 1].dev = calls[j + 1].dev
      BY <1>2, <1>4, <1>5, <3>1 DEF dev
    <3> QED BY <1>4, <3>1, <3>2, <3>3
  <2> QED BY <2>1, <2>2
<1>8. PrivSound'
  BY <1>1, <1>3, <1>4, RemovePriv
<1>9. HandSound'
  <2>1. SUFFICES ASSUME Calm, handed PROVE HandSound'
    BY <1>3 DEF HandSound, Calm
  <2>2. PICK V \in SUBSET (active \cup {Root}) :
          /\ \A a \in active \cap Dma :
               a \in V \/ \E j \in 1 .. depth : calls[j].at = "children" /\ calls[j].dev = a
          /\ \A j \in 1 .. depth : calls[j].at = "children" => calls[j].dev \notin V
          /\ \A v \in V :
               \/ \E j \in 1 .. depth :
                    \/ calls[j].at = "children" /\ v \in calls[j].todo
                    \/ calls[j].at = "enter" /\ calls[j].dev = v
               \/ v \in Devices /\ Parent[v] \in V
    BY <2>1 DEF IInv, HandSound
  <2>3. V \ {dev} \in SUBSET (active' \cup {Root})
    BY <1>3
  <2>4. ASSUME NEW a \in active' \cap Dma
        PROVE  \/ a \in V \ {dev}
               \/ \E j \in 1 .. depth' : calls'[j].at = "children" /\ calls'[j].dev = a
    <3>1. CASE a = dev
      BY <1>2, <1>4, <3>1
    <3>2. CASE a # dev
      <4>1. CASE a \in V
        BY <3>2, <4>1
      <4>2. ASSUME NEW j \in 1 .. depth, calls[j].at = "children", calls[j].dev = a
            PROVE  \E i \in 1 .. depth' : calls'[i].at = "children" /\ calls'[i].dev = a
        <5>1. j # depth
          BY <1>1, <1>2, <4>2
        <5> QED BY <1>4, <1>5, <4>2, <5>1
      <4> QED BY <1>3, <2>2, <4>1, <4>2
    <3> QED BY <3>1, <3>2
  <2>5. ASSUME NEW j \in 1 .. depth', calls'[j].at = "children"
        PROVE  calls'[j].dev \notin V \ {dev}
    <3>1. CASE j = depth
      BY <1>4, <3>1
    <3>2. CASE j # depth
      BY <1>4, <1>5, <2>2, <2>5, <3>2
    <3> QED BY <3>1, <3>2
  <2>6. ASSUME NEW v \in V \ {dev}
        PROVE  \/ \E j \in 1 .. depth' :
                    \/ calls'[j].at = "children" /\ v \in calls'[j].todo
                    \/ calls'[j].at = "enter" /\ calls'[j].dev = v
               \/ v \in Devices /\ Parent[v] \in V \ {dev}
    <3>1. CASE v \in Devices /\ Parent[v] \in V
      <4>1. CASE Parent[v] = dev
        <5>1. v # Root
          BY <3>1, DeviceAssumption
        <5>2. v \in Children(dev)
          BY <1>3, <3>1, <4>1, <5>1 DEF Children
        <5> QED BY <1>2, <1>4, <5>2
      <4>2. CASE Parent[v] # dev
        BY <3>1, <4>2
      <4> QED BY <4>1, <4>2
    <3>2. ASSUME NEW j \in 1 .. depth,
                 \/ calls[j].at = "children" /\ v \in calls[j].todo
                 \/ calls[j].at = "enter" /\ calls[j].dev = v
          PROVE  \E i \in 1 .. depth' :
                    \/ calls'[i].at = "children" /\ v \in calls'[i].todo
                    \/ calls'[i].at = "enter" /\ calls'[i].dev = v
      <4>1. j # depth
        BY <1>1, <1>2, <2>6, <3>2 DEF dev
      <4> QED BY <1>4, <1>5, <3>2, <4>1
    <3> QED BY <2>2, <3>1, <3>2
  <2> DEFINE W == V \ {dev}
  <2> HIDE DEF W
  <2>7. /\ W \in SUBSET (active' \cup {Root})
        /\ \A a \in active' \cap Dma :
             a \in W \/ \E j \in 1 .. depth' : calls'[j].at = "children" /\ calls'[j].dev = a
        /\ \A j \in 1 .. depth' : calls'[j].at = "children" => calls'[j].dev \notin W
        /\ \A v \in W :
             \/ \E j \in 1 .. depth' :
                  \/ calls'[j].at = "children" /\ v \in calls'[j].todo
                  \/ calls'[j].at = "enter" /\ calls'[j].dev = v
             \/ v \in Devices /\ Parent[v] \in W
    BY <2>3, <2>4, <2>5, <2>6 DEF W
  <2> QED BY <2>7 DEF HandSound
<1>10. /\ UNCHANGED <<lists, handed>> /\ UNCHANGED life /\ ret' \in BOOLEAN
       /\ mishaps \subseteq mishaps' /\ mishaps' \subseteq mishaps \cup {"remove"}
  BY <1>1, <1>4
<1> QED BY <1>1, <1>4, <1>6, <1>7, <1>8, <1>9, <1>10, RemoveRest

\* A removal calls the next child.
LEMMA RemoveChildIInv ==
  ASSUME IInv, RemoveChild
  PROVE  IInv'
<1>1. /\ stack # <<>> /\ Top.op = "remove" /\ Top.at = "children"
      /\ UNCHANGED <<lists, life, handed, mishaps>>
  BY DEF RemoveChild, At
<1>2. /\ depth \in Nat \ {0} /\ depth \in 1 .. depth /\ Top = calls[depth]
      /\ \A j \in 1 .. depth :
           /\ calls[j].op \in {"probe", "remove"}
           /\ calls[j].op = "probe" => ~handed /\ j < depth
  BY <1>1, RemoveState
<1>3. /\ linked' = linked /\ active' = active /\ handed' = handed /\ mishaps' = mishaps
      /\ active \subseteq linked /\ linked \subseteq Devices
  BY <1>1 DEF lists, life, IInv, ListsSound, TypeOK
<1>4. /\ stack' \in Seq(Frames) /\ StackSound' /\ Removes /\ depth' = depth + 1 /\ ret' = TRUE
      /\ \A j \in 1 .. depth - 1 : calls'[j] = calls[j] /\ j \in 1 .. depth
  BY RemoveCalls
<1>5. PICK c \in Top.todo :
        /\ calls'[depth].op = "remove" /\ calls'[depth].dev = dev
        /\ calls'[depth].at = "children" /\ calls'[depth].todo = Top.todo \ {c}
        /\ calls'[depth + 1].op = "remove" /\ calls'[depth + 1].dev = c
        /\ calls'[depth + 1].at = "enter"
  BY RemoveCalls
<1>6. /\ \A j \in 1 .. depth : j = depth \/ (j \in 1 .. depth - 1 /\ j < depth /\ j + 1 \in 1 .. depth)
      /\ \A j \in 1 .. depth' : j = depth + 1 \/ j = depth \/ j \in 1 .. depth - 1
      /\ \A j \in 1 .. depth : j \in 1 .. depth' /\ j < depth'
      /\ depth + 1 \in 1 .. depth'
  BY <1>2, <1>4
<1>7. ASSUME NEW j \in 1 .. depth', calls'[j].at = "error" PROVE "remove" \in mishaps'
  <2>1. j \in 1 .. depth /\ calls[j].at = "error"
    BY <1>4, <1>5, <1>6, <1>7
  <2> QED BY <1>3, <2>1 DEF IInv, LifeSound
<1>8. ASSUME Calm', ~handed,
             NEW j \in 1 .. depth', calls'[j].op = "remove", calls'[j].at = "children",
             NEW x \in Devices, Parent[x] = calls'[j].dev, x \in linked, x \in active'
      PROVE  x \in calls'[j].todo \/ (j < depth' /\ x = calls'[j + 1].dev)
  <2>1. CASE j = depth
    <3>1. x \in Children(dev) \cap active
      BY <1>3, <1>5, <1>8, <2>1 DEF Children
    <3>2. x \in Top.todo
      BY <1>1, <1>2, <1>3, <1>8, <3>1 DEF IInv, CalmSound, Calm, dev
    <3> QED BY <1>5, <1>6, <2>1, <3>2
  <2>2. CASE j \in 1 .. depth - 1
    <3>1. j < depth /\ j + 1 \in 1 .. depth /\ calls'[j] = calls[j] /\ j < depth'
      BY <1>2, <1>4, <1>6, <2>2
    <3>2. x \in calls[j].todo \/ x = calls[j + 1].dev
      BY <1>3, <1>4, <1>8, <2>2, <3>1 DEF IInv, CalmSound, Calm, Children
    <3>3. calls'[j + 1].dev = calls[j + 1].dev
      BY <1>2, <1>4, <1>5, <1>6, <3>1 DEF dev
    <3> QED BY <3>1, <3>2, <3>3
  <2>3. CASE j = depth + 1
    BY <1>5, <1>8, <2>3
  <2> QED BY <1>6, <2>1, <2>2, <2>3
<1>9. PrivSound'
  BY <1>1, <1>3, <1>4, RemovePriv
<1>10. HandSound'
  <2>1. SUFFICES ASSUME Calm, handed PROVE HandSound'
    BY <1>3 DEF HandSound, Calm
  <2>2. PICK V \in SUBSET (active \cup {Root}) :
          /\ \A a \in active \cap Dma :
               a \in V \/ \E j \in 1 .. depth : calls[j].at = "children" /\ calls[j].dev = a
          /\ \A j \in 1 .. depth : calls[j].at = "children" => calls[j].dev \notin V
          /\ \A v \in V :
               \/ \E j \in 1 .. depth :
                    \/ calls[j].at = "children" /\ v \in calls[j].todo
                    \/ calls[j].at = "enter" /\ calls[j].dev = v
               \/ v \in Devices /\ Parent[v] \in V
    BY <2>1 DEF IInv, HandSound
  <2>3. \A j \in 1 .. depth : calls'[j].at = calls[j].at /\ calls'[j].dev = calls[j].dev
    BY <1>1, <1>2, <1>4, <1>5, <1>6 DEF dev
  <2>4. ASSUME NEW j \in 1 .. depth', calls'[j].at = "children" PROVE calls'[j].dev \notin V
    <3>1. j \in 1 .. depth
      BY <1>2, <1>4, <1>5, <1>6, <2>4
    <3> QED BY <2>2, <2>3, <2>4, <3>1
  <2>5. ASSUME NEW v \in V, NEW j \in 1 .. depth,
               \/ calls[j].at = "children" /\ v \in calls[j].todo
               \/ calls[j].at = "enter" /\ calls[j].dev = v
        PROVE  \E i \in 1 .. depth' :
                  \/ calls'[i].at = "children" /\ v \in calls'[i].todo
                  \/ calls'[i].at = "enter" /\ calls'[i].dev = v
    <3>1. CASE v = c
      BY <1>5, <1>6, <3>1
    <3>2. CASE v # c /\ j = depth
      BY <1>1, <1>2, <1>5, <1>6, <2>5, <3>2
    <3>3. CASE j # depth
      BY <1>4, <1>6, <2>5, <3>3
    <3> QED BY <3>1, <3>2, <3>3
  <2>6. \A a \in active' \cap Dma :
          a \in V \/ \E j \in 1 .. depth' : calls'[j].at = "children" /\ calls'[j].dev = a
    BY <1>3, <1>6, <2>2, <2>3
  <2> QED BY <1>3, <2>2, <2>4, <2>5, <2>6 DEF HandSound
<1>11. /\ UNCHANGED <<lists, handed>> /\ UNCHANGED life /\ ret' \in BOOLEAN
       /\ mishaps \subseteq mishaps' /\ mishaps' \subseteq mishaps \cup {"remove"}
  BY <1>1, <1>4
<1> QED BY <1>1, <1>4, <1>7, <1>8, <1>9, <1>10, <1>11, RemoveRest

\* A removal ends: for a device that is not active, or whose children were all
\* removed, or with a failure that is noted.
LEMMA RemoveEnds ==
  ASSUME IInv, stack # <<>>, Top.op = "remove", UNCHANGED <<lists, handed>>,
         stack' = Tail(stack), ret' \in BOOLEAN,
         mishaps \subseteq mishaps', mishaps' \subseteq mishaps \cup {"remove"},
         \/ "remove" \in mishaps' /\ UNCHANGED life
         \/ Top.at = "enter" /\ ~Active(dev) /\ UNCHANGED life
         \/ Top.at = "children" /\ Top.todo = {} /\ ~FlagsRemove(Top) /\ UNCHANGED life
         \/ /\ Top.at = "children" /\ Top.todo = {} /\ FlagsRemove(Top)
            /\ active' = active \ {dev} /\ priv' = priv \ {dev}
            /\ seq' = [seq EXCEPT ![dev] = -1]
  PROVE  IInv'
<1>1. /\ depth \in Nat \ {0} /\ depth \in 1 .. depth /\ Top = calls[depth]
      /\ Top \in Frames /\ FrameSound(Top)
      /\ dev \in Devices \cup {Root} /\ (dev = Root => handed)
  BY RemoveState
<1>2. /\ linked' = linked /\ handed' = handed
      /\ active \subseteq linked /\ linked \subseteq Devices
  BY DEF lists, IInv, ListsSound, TypeOK
<1>3. /\ stack' \in Seq(Frames) /\ StackSound' /\ Removes
      /\ depth' = depth - 1 /\ depth' \in Nat
      /\ \A j \in 1 .. depth - 1 : calls'[j] = calls[j] /\ j \in 1 .. depth
  BY RemovePops
<1>4. \A j \in 1 .. depth : j = depth \/ j \in 1 .. depth'
  BY <1>1, <1>3
<1>5. ASSUME NEW j \in 1 .. depth', calls'[j].at = "error" PROVE "remove" \in mishaps'
  BY <1>3, <1>5 DEF IInv, LifeSound
<1>6. Top.normal <=> ~handed
  BY <1>1 DEF FrameSound
<1>7. FlagsRemove(Top) => dev \in Devices
  <2>1. Root \notin Dma
    BY DeviceAssumption
  <2> QED BY <1>1, <1>6, <2>1 DEF FlagsRemove, dev
<1>8. active' \subseteq active
  BY DEF life
<1>9. ASSUME Calm', ~handed PROVE dev \notin active'
  <2>1. "remove" \notin mishaps' /\ Top.normal
    BY <1>6, <1>9 DEF Calm
  <2> QED BY <2>1 DEF FlagsRemove, Active, life
<1>10. ASSUME Calm', ~handed,
              NEW j \in 1 .. depth', calls'[j].op = "remove", calls'[j].at = "children",
              NEW c \in Devices, Parent[c] = calls'[j].dev, c \in linked, c \in active'
       PROVE  c \in calls'[j].todo \/ (j < depth' /\ c = calls'[j + 1].dev)
  <2>1. calls'[j] = calls[j] /\ j \in 1 .. depth /\ Calm
    BY <1>3, <1>10 DEF Calm
  <2>2. c \in calls[j].todo \/ c = calls[j + 1].dev
    BY <1>8, <1>10, <2>1 DEF IInv, CalmSound, Children
  <2>3. CASE j = depth'
    <3>1. j + 1 = depth
      BY <1>1, <1>3, <2>3
    <3>2. c # calls[j + 1].dev
      BY <1>1, <1>9, <1>10, <3>1 DEF dev
    <3> QED BY <2>1, <2>2, <3>2
  <2>4. CASE j # depth'
    <3>1. j < depth' /\ j + 1 \in 1 .. depth - 1
      BY <1>3, <2>4
    <3> QED BY <1>3, <2>1, <2>2, <3>1
  <2> QED BY <2>3, <2>4
<1>11. PrivSound'
  <2>1. CASE UNCHANGED life
    BY <1>3, <2>1, RemovePriv
  <2>2. CASE active' = active \ {dev} /\ priv' = priv \ {dev}
    BY <1>3, <2>2, RemovePrivDone
  <2> QED BY <2>1, <2>2
<1>12. HandSound'
  <2> SUFFICES ASSUME Calm', handed' PROVE HandSound'
    BY DEF HandSound
  <2>1. Calm' /\ Calm /\ handed
    BY <1>2 DEF Calm
  <2>2. PICK V \in SUBSET (active \cup {Root}) :
          /\ \A a \in active \cap Dma :
               a \in V \/ \E j \in 1 .. depth : calls[j].at = "children" /\ calls[j].dev = a
          /\ \A j \in 1 .. depth : calls[j].at = "children" => calls[j].dev \notin V
          /\ \A v \in V :
               \/ \E j \in 1 .. depth :
                    \/ calls[j].at = "children" /\ v \in calls[j].todo
                    \/ calls[j].at = "enter" /\ calls[j].dev = v
               \/ v \in Devices /\ Parent[v] \in V
    BY <2>1 DEF IInv, HandSound
  <2>3. \/ Top.at = "enter" /\ ~Active(dev) /\ active' = active
        \/ Top.at = "children" /\ Top.todo = {} /\ dev \notin Dma /\ active' = active
        \/ Top.at = "children" /\ Top.todo = {} /\ active' = active \ {dev}
    BY <2>1 DEF Calm, FlagsRemove, life, dev
  <2>4. dev \notin V
    BY <1>1, <2>2, <2>3 DEF Active, dev
  <2>5. V \in SUBSET (active' \cup {Root})
    BY <2>3, <2>4
  <2>6. ASSUME NEW a \in active' \cap Dma
        PROVE  \/ a \in V
               \/ \E j \in 1 .. depth' : calls'[j].at = "children" /\ calls'[j].dev = a
    <3>1. a \in active \cap Dma
      BY <1>8
    <3>2. ASSUME NEW j \in 1 .. depth, calls[j].at = "children", calls[j].dev = a
          PROVE  \E i \in 1 .. depth' : calls'[i].at = "children" /\ calls'[i].dev = a
      <4>1. j # depth
        <5>1. a = dev => Top.at = "enter"
          BY <2>3
        <5> QED BY <1>1, <3>2, <5>1 DEF dev
      <4> QED BY <1>3, <1>4, <3>2, <4>1
    <3> QED BY <2>2, <3>1, <3>2
  <2>7. \A j \in 1 .. depth' : calls'[j].at = "children" => calls'[j].dev \notin V
    BY <1>3, <2>2
  <2>8. ASSUME NEW v \in V, NEW j \in 1 .. depth,
               \/ calls[j].at = "children" /\ v \in calls[j].todo
               \/ calls[j].at = "enter" /\ calls[j].dev = v
        PROVE  \E i \in 1 .. depth' :
                  \/ calls'[i].at = "children" /\ v \in calls'[i].todo
                  \/ calls'[i].at = "enter" /\ calls'[i].dev = v
    <3>1. j # depth
      BY <1>1, <2>3, <2>4, <2>8 DEF dev
    <3> QED BY <1>3, <1>4, <2>8, <3>1
  <2> QED BY <2>2, <2>5, <2>6, <2>7, <2>8 DEF HandSound
<1>13. \/ UNCHANGED life
       \/ /\ dev \in Devices
          /\ active' = active \ {dev} /\ priv' = priv \ {dev}
          /\ seq' = [seq EXCEPT ![dev] = -1]
          /\ Calm /\ ~handed => Children(dev) \cap active = {}
  <2>1. CASE UNCHANGED life
    BY <2>1
  <2>2. CASE /\ Top.at = "children" /\ Top.todo = {} /\ FlagsRemove(Top)
             /\ active' = active \ {dev} /\ priv' = priv \ {dev}
             /\ seq' = [seq EXCEPT ![dev] = -1]
    <3>1. ASSUME Calm, ~handed PROVE Children(dev) \cap active = {}
      <4>1. \A c \in Children(calls[depth].dev) \cap active :
              c \in calls[depth].todo \/ (depth < depth /\ c = calls[depth + 1].dev)
        BY <1>1, <2>2, <3>1 DEF IInv, CalmSound
      <4>2. ~(depth < depth)
        BY <1>1
      <4> QED BY <1>1, <2>2, <4>1, <4>2 DEF dev
    <3> QED BY <1>7, <2>2, <3>1
  <2> QED BY <2>1, <2>2
<1> QED BY <1>3, <1>5, <1>10, <1>11, <1>12, <1>13, RemoveRest

LEMMA RemoveFailsIInv ==
  ASSUME IInv, RemoveFails
  PROVE  IInv'
<1>1. /\ stack # <<>> /\ Top.op = "remove" /\ Goto("error", {})
      /\ mishaps' = mishaps \cup {"remove"} /\ UNCHANGED <<lists, life, handed>>
  BY DEF RemoveFails, At, Mishap
<1>2. /\ stack' \in Seq(Frames) /\ StackSound' /\ Removes /\ ret' = TRUE
  <2>1. {} \in SUBSET Devices /\ \A c \in {} : Parent[c] = dev
    OBVIOUS
  <2> QED BY <1>1, <2>1, RemoveGoes
<1>3. "remove" \in mishaps' /\ ~Calm'
  BY <1>1 DEF Calm
<1>4. PrivSound' /\ HandSound'
  BY <1>3 DEF PrivSound, HandSound
<1> QED BY <1>1, <1>2, <1>3, <1>4, RemoveRest

LEMMA RemoveIInv ==
  ASSUME IInv,
         \/ RemoveEnter \/ RemoveRefused \/ RemoveChild \/ RemoveDone \/ RemoveFails
         \/ RemovePutBack
  PROVE  IInv'
<1>1. CASE RemoveEnter
  <2>1. CASE Active(dev)
    BY <1>1, <2>1, RemoveEnterIInv
  <2>2. CASE ~Active(dev)
    <3>1. /\ stack # <<>> /\ Top.op = "remove" /\ Top.at = "enter" /\ Return(TRUE)
          /\ UNCHANGED <<lists, life, handed, mishaps>>
      BY <1>1, <2>2 DEF RemoveEnter, At
    <3>2. stack' = Tail(stack) /\ ret' \in BOOLEAN /\ mishaps' = mishaps
      BY <3>1 DEF Return
    <3> QED BY <2>2, <3>1, <3>2, RemoveEnds
  <2> QED BY <2>1, <2>2
<1>2. CASE RemoveRefused
  <2>1. /\ stack # <<>> /\ Top.op = "remove" /\ Return(FALSE) /\ "remove" \in mishaps'
        /\ UNCHANGED <<lists, life, handed>> /\ mishaps' = mishaps \cup {"remove"}
    BY <1>2 DEF RemoveRefused, At, Mishap
  <2>2. stack' = Tail(stack) /\ ret' \in BOOLEAN
    BY <2>1 DEF Return
  <2> QED BY <2>1, <2>2, RemoveEnds
<1>3. CASE RemoveChild
  BY <1>3, RemoveChildIInv
<1>4. CASE RemoveDone
  <2>1. /\ stack # <<>> /\ Top.op = "remove" /\ Top.at = "children" /\ Top.todo = {}
        /\ UNCHANGED <<lists, handed>>
        /\ IF FlagsRemove(Top)
             THEN /\ active' = active \ {dev} /\ priv' = priv \ {dev}
                  /\ seq' = [seq EXCEPT ![dev] = -1]
             ELSE UNCHANGED life
    BY <1>4 DEF RemoveDone, At
  <2>2. PICK ok \in BOOLEAN : Return(ok) /\ Mishap("remove", ~ok)
    BY <1>4 DEF RemoveDone
  <2>3. stack' = Tail(stack) /\ ret' \in BOOLEAN
    BY <2>2 DEF Return
  <2>4. mishaps \subseteq mishaps' /\ mishaps' \subseteq mishaps \cup {"remove"}
    BY <2>2 DEF Mishap
  <2> QED BY <2>1, <2>3, <2>4, RemoveEnds
<1>5. CASE RemoveFails
  BY <1>5, RemoveFailsIInv
<1>6. CASE RemovePutBack
  <2>1. /\ stack # <<>> /\ Top.op = "remove" /\ Top.at = "error"
        /\ UNCHANGED <<lists, life, handed, mishaps>>
        /\ stack' = Tail(stack) /\ ret' \in BOOLEAN
    BY <1>6 DEF RemovePutBack, At, Return
  <2>2. "remove" \in mishaps' /\ mishaps' = mishaps
    BY <2>1, RemoveState DEF IInv, LifeSound
  <2> QED BY <2>1, <2>2, RemoveEnds
<1> QED BY <1>1, <1>2, <1>3, <1>4, <1>5, <1>6
-----------------------------------------------------------------------------
(***************************************************************************)
(* All steps.                                                              *)
(***************************************************************************)
LEMMA InitIInv ==
  ASSUME Init
  PROVE  IInv
<1>1. /\ linked = {} /\ bound = {} /\ plat = {} /\ active = {} /\ priv = {}
      /\ seq = [d \in Devices |-> -1]
      /\ stack = <<>> /\ ret = TRUE /\ handed = FALSE /\ mishaps = {}
  BY DEF Init
<1>2. depth = 0 /\ 1 .. depth = {} /\ 1 .. depth - 1 = {}
  BY <1>1 DEF depth
<1>3. TypeOK
  <2>1. stack \in Seq(Frames)
    BY <1>1
  <2>2. seq \in [Devices -> Nat \cup {-1}]
    BY <1>1
  <2>3. ret \in BOOLEAN /\ handed \in BOOLEAN
    BY <1>1
  <2> QED BY <1>1, <2>1, <2>2, <2>3 DEF TypeOK
<1>4. StackSound /\ ListsSound /\ BindSound /\ UnbindSound
  BY <1>1, <1>2 DEF StackSound, ListsSound, BindSound, UnbindSound, UpClosed
<1>5. LifeSound
  BY <1>1, <1>2 DEF LifeSound, SeqsDiffer
<1>6. CalmSound
  BY <1>1, <1>2 DEF CalmSound, UpClosed
<1>7. PrivSound /\ HandSound
  BY <1>1, <1>2 DEF PrivSound, HandSound
<1> QED BY <1>3, <1>4, <1>5, <1>6, <1>7 DEF IInv

LEMMA NextIInv ==
  ASSUME IInv, [Next]_vars
  PROVE  IInv'
<1>1. CASE UNCHANGED vars
  <2>1. /\ linked' = linked /\ bound' = bound /\ plat' = plat /\ active' = active
        /\ priv' = priv /\ seq' = seq /\ stack' = stack /\ ret' = ret /\ handed' = handed
        /\ mishaps' = mishaps
    BY <1>1 DEF vars
  <2>2. depth' = depth /\ calls' = calls
    BY <2>1 DEF depth, calls
  <2>3. Calm' <=> Calm
    BY <2>1 DEF Calm
  <2>4. TypeOK'
    BY <2>1 DEF IInv, TypeOK
  <2>5. StackSound'
    BY <2>1, <2>2 DEF IInv, StackSound, FrameSound, Called
  <2>6. ListsSound' /\ BindSound' /\ UnbindSound'
    BY <2>1, <2>2 DEF IInv, ListsSound, BindSound, UnbindSound, UpClosed, Binding, Clear, Children
  <2>7. LifeSound'
    BY <2>1, <2>2 DEF IInv, LifeSound, SeqsDiffer, Waiting
  <2>8. CalmSound'
    BY <2>1, <2>2, <2>3 DEF IInv, CalmSound, UpClosed, Waiting, Running, Apart, Active, Children
  <2>9. PrivSound'
    BY <2>1, <2>2, <2>3 DEF IInv, PrivSound, Waiting, Doomed, Reenters
  <2>10. HandSound'
    BY <2>1, <2>2, <2>3 DEF IInv, HandSound
  <2> QED BY <2>4, <2>5, <2>6, <2>7, <2>8, <2>9, <2>10 DEF IInv
<1>2. ASSUME NEW d \in Devices, Bind(d) PROVE IInv'
  BY <1>2, OutsideIInv
<1>3. ASSUME NEW d \in Devices, NEW op \in {"probe", "remove", "unbind"}, Use(op, d)
      PROVE  IInv'
  BY <1>3, OutsideIInv
<1>4. CASE HandOver
  BY <1>4, OutsideIInv
<1>5. CASE Step
  <2>1. CASE BindEnter \/ BindDone \/ BindFails
    BY <2>1, BindIInv
  <2>2. CASE BindChild
    BY <2>2, BindChildIInv
  <2>3. CASE \/ ProbeEnter \/ ProbeNoMemory \/ ProbeParentDone \/ ProbeParentFailed
             \/ ProbeOther \/ ProbeHooksDone \/ ProbeHookFails \/ ProbeDone \/ ProbePostFails
             \/ ProbeUndone
    BY <2>3, ProbeIInv
  <2>4. CASE \/ RemoveEnter \/ RemoveRefused \/ RemoveChild \/ RemoveDone \/ RemoveFails
             \/ RemovePutBack
    BY <2>4, RemoveIInv
  <2>5. CASE UnbindEnter \/ UnbindStops \/ UnbindDone
    BY <2>5, UnbindIInv
  <2>6. CASE UnbindChild
    BY <2>6, UnbindChildIInv
  <2> QED BY <1>5, <2>1, <2>2, <2>3, <2>4, <2>5, <2>6 DEF Step
<1> QED BY <1>1, <1>2, <1>3, <1>4, <1>5 DEF Next

\* The strengthening holds in every state.
THEOREM Invariance == Spec => []IInv
BY InitIInv, NextIInv, PTL DEF Spec

\* TypeOK, of every state: each variable keeps to its type, whatever fails.
THEOREM TypeCorrect == Spec => []TypeOK
<1>1. IInv => TypeOK
  BY DEF IInv
<1> QED BY <1>1, Invariance, PTL

\* SeqsDiffer: uclass_resolve_seq() gives every active device a number that no
\* other active device of its uclass has, for every tree and all requests.
THEOREM SeqsDifferHolds == Spec => []SeqsDiffer
<1>1. IInv => SeqsDiffer
  BY DEF IInv, LifeSound
<1> QED BY <1>1, Invariance, PTL

\* ParentsFirst: device_probe() and device_remove() keep the parents of active
\* devices active, and device_bind() and device_unbind() those of linked ones
\* linked.
THEOREM ParentsFirstHolds == Spec => []ParentsFirst
<1>1. ASSUME IInv PROVE ParentsFirst
  <2>1. ASSUME mishaps \cap {"remove", "orphan"} = {}, ~handed, NEW d \in active
        PROVE  Active(Parent[d])
    <3>1. UpClosed(active)
      BY <1>1, <2>1 DEF IInv, CalmSound, Calm
    <3> QED BY <2>1, <3>1 DEF UpClosed, Active
  <2>2. ASSUME "bind" \notin mishaps, NEW d \in linked
        PROVE  Parent[d] \in linked \cup {Root}
    BY <1>1, <2>2 DEF IInv, ListsSound, UpClosed
  <2> QED BY <2>1, <2>2 DEF ParentsFirst
<1> QED BY <1>1, Invariance, PTL

\* DataWithDevice: no probe and no removal takes the private data of a device
\* that is active or becomes so, and none leaves any behind.
THEOREM DataWithDeviceHolds == Spec => []DataWithDevice
<1>1. ASSUME IInv PROVE DataWithDevice
  <2>1. ActiveHasData
    <3>1. ASSUME NEW d \in active PROVE d \in bound
      BY <1>1 DEF IInv, ListsSound
    <3>2. ASSUME NEW d \in active, mishaps \cap {"orphan", "remove", "reentered"} = {}
          PROVE  d \in priv
      <4>1. Calm /\ "reentered" \notin mishaps
        BY <3>2 DEF Calm
      <4> QED BY <1>1, <3>2, <4>1 DEF IInv, PrivSound
    <3>3. ASSUME NEW d \in active, "unbind" \notin mishaps PROVE d \in plat
      BY <1>1, <3>3 DEF IInv, ListsSound
    <3> QED BY <3>1, <3>2, <3>3 DEF ActiveHasData
  <2>2. ASSUME NEW d \in priv, d \notin active
        PROVE  \E i \in 1 .. Len(stack) : stack[i].op = "probe" /\ stack[i].dev = d
    <3>1. PICK j \in 1 .. depth : Waiting(j) /\ calls[j].dev = d
      BY <1>1, <2>2 DEF IInv, LifeSound
    <3>2. depth \in Nat /\ depth = Len(stack)
      BY <1>1, CallsType DEF IInv, depth
    <3>3. calls[j] = stack[Len(stack) + 1 - j]
      BY <3>1, <3>2 DEF calls, Outer
    <3>4. Len(stack) + 1 - j \in 1 .. Len(stack)
      BY <3>2
    <3> QED BY <3>1, <3>3, <3>4 DEF Waiting
  <2> QED BY <2>1, <2>2 DEF DataWithDevice, NothingLeaks
<1> QED BY <1>1, Invariance, PTL

\* QuietAtHandOver: the search from the root device finds every device with DMA,
\* however deep below devices without, because the tree has no cycle.
THEOREM QuietAtHandOverHolds == Spec => []QuietAtHandOver
<1>1. ASSUME IInv PROVE QuietAtHandOver
  <2>1. SUFFICES ASSUME handed, stack = <<>>, mishaps \cap {"remove", "orphan"} = {},
                        active \cap Dma # {}
                 PROVE  FALSE
    BY DEF QuietAtHandOver
  <2>2. depth = 0 /\ 1 .. depth = {} /\ Calm
    BY <2>1 DEF depth, Calm
  <2>3. PICK V \in SUBSET (active \cup {Root}) :
          /\ \A a \in active \cap Dma : a \in V
          /\ \A v \in V : v \in Devices /\ Parent[v] \in V
    BY <1>1, <2>1, <2>2 DEF IInv, HandSound
  <2>4. V \in SUBSET Devices /\ V # {}
    BY <2>1, <2>3
  <2>5. \E d \in V : Parent[d] \notin V
    BY <2>4, DeviceAssumption
  <2> QED BY <2>3, <2>5
<1> QED BY <1>1, Invariance, PTL
-----------------------------------------------------------------------------
(***************************************************************************)
(* How deep the probes of one device nest.                                 *)
(***************************************************************************)
\* Above a device is what is above its parent, and never the device itself.
LEMMA AboveParent ==
  ASSUME NEW d \in Devices, Parent[d] \in Devices
  PROVE  Above(Parent[d]) \subseteq Above(d) \ {d}
<1>1. ASSUME NEW a \in Above(Parent[d]) PROVE a \in Above(d)
  <2>1. ASSUME NEW U \in SUBSET Devices, d \in U, \A x \in U : Parent[x] \in U \cup {Root}
        PROVE  a \in U
    <3>1. Parent[d] \in U
      BY <2>1, DeviceAssumption
    <3> QED BY <2>1, <3>1 DEF Above
  <2> QED BY <2>1 DEF Above
<1>2. ASSUME d \in Above(Parent[d]) PROVE FALSE
  <2> DEFINE S == {x \in Devices : d \in Above(x)}
  <2>1. ASSUME NEW x \in S PROVE Parent[x] \in S
    <3>1. CASE x = d
      BY <1>2, <3>1
    <3>2. CASE x # d
      <4>1. Parent[x] \in Devices
        <5>1. SUFFICES ASSUME Parent[x] = Root PROVE FALSE
          BY DeviceAssumption
        <5>2. {x} \in SUBSET Devices /\ x \in {x} /\ \A y \in {x} : Parent[y] \in {x} \cup {Root}
          BY <5>1
        <5>3. d \in {x}
          BY <5>2 DEF Above
        <5> QED BY <3>2, <5>3
      <4>2. ASSUME NEW U \in SUBSET Devices, Parent[x] \in U,
                   \A y \in U : Parent[y] \in U \cup {Root}
            PROVE  d \in U
        <5>1. /\ U \cup {x} \in SUBSET Devices /\ x \in U \cup {x}
              /\ \A y \in U \cup {x} : Parent[y] \in (U \cup {x}) \cup {Root}
          BY <4>2
        <5>2. d \in U \cup {x}
          BY <5>1 DEF Above
        <5> QED BY <3>2, <5>2
      <4> QED BY <4>1, <4>2 DEF Above
    <3> QED BY <3>1, <3>2
  <2>2. S \in SUBSET Devices /\ Parent[d] \in S
    BY <1>2
  <2> HIDE DEF S
  <2>3. \E x \in S : Parent[x] \notin S
    BY <2>2, DeviceAssumption
  <2> QED BY <2>1, <2>3
<1> QED BY <1>1, <1>2

\* The probes of a device that have begun, and those of them that are not the
\* innermost: these wait for a probe of the parent that has begun too.
Nested(d) ==
  {i \in 1 .. Len(stack) :
     stack[i].op = "probe" /\ stack[i].dev = d /\ stack[i].at # "enter"}

LEMMA NestedWaits ==
  ASSUME IInv, Calm, ~handed, NEW d, NEW i \in Nested(d), NEW k \in Nested(d), i < k
  PROVE  Parent[d] \in Devices /\ k - 1 \in Nested(Parent[d])
<1>1. /\ depth \in Nat /\ depth = Len(stack) /\ calls \in [1 .. depth -> Frames]
  BY CallsType DEF IInv, depth
<1>2. \A n \in 1 .. Len(stack) : depth + 1 - n \in 1 .. depth /\ calls[depth + 1 - n] = stack[n]
  <2>1. ASSUME NEW n \in 1 .. Len(stack)
        PROVE  depth + 1 - n \in 1 .. depth /\ calls[depth + 1 - n] = stack[n]
    <3>1. depth + 1 - n \in 1 .. Len(stack) /\ Len(stack) + 1 - (depth + 1 - n) = n
      BY <1>1
    <3> QED BY <1>1, <3>1 DEF calls, Outer
  <2> QED BY <2>1
<1>3. /\ i \in 1 .. Len(stack) /\ k \in 1 .. Len(stack)
      /\ stack[i].op = "probe" /\ stack[i].dev = d /\ stack[i].at # "enter"
      /\ stack[k].op = "probe" /\ stack[k].dev = d
  BY DEF Nested
<1> DEFINE a == depth + 1 - k
           b == depth + 1 - i
<1>4. /\ a \in 1 .. depth /\ b \in 1 .. depth /\ a < b /\ a \in 1 .. depth - 1
      /\ a + 1 \in 1 .. depth /\ a + 1 <= b /\ a + 1 = depth + 1 - (k - 1)
      /\ k - 1 \in 1 .. Len(stack)
  BY <1>1, <1>3
<1>5. calls[a] = stack[k] /\ calls[b] = stack[i] /\ calls[a + 1] = stack[k - 1]
  BY <1>2, <1>3, <1>4
<1> HIDE DEF a, b
<1>6. Called(calls[a], calls[a + 1])
  BY <1>4 DEF IInv, StackSound
<1>7. calls[a].at # "undo"
  BY <1>3, <1>4, <1>5 DEF IInv, StackSound
<1>8. ~Running(a)
  <2>1. Running(a) => Apart(calls[a].dev, calls[b].dev)
    BY <1>3, <1>4, <1>5 DEF IInv, CalmSound
  <2> QED BY <1>3, <1>5, <2>1 DEF Apart
<1>9. /\ calls[a + 1].op = "probe" /\ calls[a + 1].dev = Parent[d]
      /\ calls[a + 1].dev \in Devices
  BY <1>3, <1>5, <1>6, <1>7, <1>8 DEF Called, Running
<1>10. calls[a + 1].at # "enter"
  <2>1. CASE a + 1 = b
    BY <1>3, <1>5, <2>1
  <2>2. CASE a + 1 # b
    <3>1. a + 1 \in 1 .. depth - 1
      BY <1>1, <1>4, <2>2
    <3>2. Called(calls[a + 1], calls[(a + 1) + 1])
      BY <3>1 DEF IInv, StackSound
    <3> QED BY <1>9, <3>2 DEF Called
  <2> QED BY <2>1, <2>2
<1> QED BY <1>4, <1>5, <1>9, <1>10 DEF Nested

\* If a device is probed by more calls than there are levels down to it, so is
\* its parent.
LEMMA NestedParent ==
  ASSUME IInv, Calm, ~handed, NEW d \in Devices,
         Cardinality(Nested(d)) > Cardinality(Above(d))
  PROVE  Parent[d] \in Devices
           /\ Cardinality(Nested(Parent[d])) > Cardinality(Above(Parent[d]))
<1>1. \A x : /\ Nested(x) \in SUBSET Nat
             /\ IsFiniteSet(Nested(x)) /\ Cardinality(Nested(x)) \in Nat
  <2>1. ASSUME NEW x
        PROVE  /\ Nested(x) \in SUBSET Nat
               /\ IsFiniteSet(Nested(x)) /\ Cardinality(Nested(x)) \in Nat
    <3>1. Len(stack) \in Nat
      BY CallsType DEF IInv, depth
    <3>2. Nested(x) \in SUBSET (1 .. Len(stack)) /\ IsFiniteSet(1 .. Len(stack))
      BY <3>1, FS_Interval DEF Nested
    <3>3. IsFiniteSet(Nested(x))
      BY <3>2, FS_Subset
    <3> QED BY <3>1, <3>2, <3>3, FS_CardinalityType
  <2> QED BY <2>1
<1>2. \A x : IsFiniteSet(Above(x)) /\ Cardinality(Above(x)) \in Nat
  <2>1. ASSUME NEW x PROVE IsFiniteSet(Above(x)) /\ Cardinality(Above(x)) \in Nat
    <3>1. Above(x) \in SUBSET Devices /\ IsFiniteSet(Devices)
      BY DeviceAssumption DEF Above
    <3>2. IsFiniteSet(Above(x))
      BY <3>1, FS_Subset
    <3> QED BY <3>2, FS_CardinalityType
  <2> QED BY <2>1
<1>3. d \in Above(d) /\ Cardinality(Above(d) \ {d}) = Cardinality(Above(d)) - 1
        /\ IsFiniteSet(Above(d) \ {d})
  <2>1. d \in Above(d)
    BY DEF Above
  <2> QED BY <1>2, <2>1, FS_RemoveElement
<1>4. Nested(d) # {}
  <2>1. Cardinality(Nested(d)) # 0
    BY <1>1, <1>2
  <2> QED BY <2>1, FS_EmptySet
<1>5. PICK n \in Nested(d) : \A k \in Nested(d) : n <= k
  BY <1>1, <1>4, LeastNatural
<1> DEFINE T == Nested(d) \ {n}
<1>6. IsFiniteSet(T) /\ Cardinality(T) = Cardinality(Nested(d)) - 1
  BY <1>1, FS_RemoveElement
<1>7. ASSUME NEW k \in T PROVE Parent[d] \in Devices /\ k - 1 \in Nested(Parent[d])
  <2>1. k \in Nested(d) /\ n <= k /\ n # k /\ n \in Nat /\ k \in Nat
    BY <1>1, <1>5
  <2>2. n < k
    BY <2>1
  <2> QED BY <2>1, <2>2, NestedWaits
<1>8. Parent[d] \in Devices
  <2>1. SUFFICES ASSUME Parent[d] \notin Devices PROVE FALSE
    OBVIOUS
  <2>2. T = {}
    BY <1>7, <2>1
  <2>3. Cardinality(Nested(d)) = 1
    <3>1. Cardinality(T) = 0
      BY <2>2, FS_EmptySet
    <3> HIDE DEF T
    <3> QED BY <1>1, <1>6, <3>1
  <2>4. Cardinality(Above(d)) # 0
    BY <1>2, <1>3, FS_EmptySet
  <2>5. Cardinality(Above(d)) \in Nat /\ Cardinality(Nested(d)) > Cardinality(Above(d))
    BY <1>2
  <2> QED BY <2>3, <2>4, <2>5
<1>9. Cardinality(T) <= Cardinality(Nested(Parent[d]))
  <2> DEFINE f == [k \in T |-> k - 1]
  <2>1. f \in Injection(T, Nested(Parent[d]))
    <3>1. \A k \in T : k \in Nat
      BY <1>1
    <3>2. f \in [T -> Nested(Parent[d])]
      BY <1>7
    <3>3. \A k, l \in T : f[k] = f[l] => k = l
      BY <3>1
    <3> HIDE DEF f, T
    <3> QED BY <3>2, <3>3 DEF Injection, IsInjective
  <2> HIDE DEF f, T
  <2> QED BY <1>1, <2>1, FS_Injection
<1>10. Cardinality(Above(Parent[d])) <= Cardinality(Above(d)) - 1
  <2>1. Above(Parent[d]) \in SUBSET (Above(d) \ {d})
    BY <1>8, AboveParent
  <2> QED BY <1>3, <2>1, FS_Subset
<1> DEFINE nd == Cardinality(Nested(d))
           ad == Cardinality(Above(d))
           np == Cardinality(Nested(Parent[d]))
           ap == Cardinality(Above(Parent[d]))
<1>11. /\ nd \in Nat /\ ad \in Nat /\ np \in Nat /\ ap \in Nat
       /\ nd > ad /\ nd - 1 <= np /\ ap <= ad - 1
  BY <1>1, <1>2, <1>6, <1>9, <1>10
<1> HIDE DEF nd, ad, np, ap
<1>12. np > ap
  BY <1>11
<1> QED BY <1>8, <1>12 DEF np, ap

\* NestingSound: device_probe() calls itself for the parent and hooks probe what
\* they like, and yet no device is probed by more calls at once than there are
\* levels of the tree down to it.
THEOREM NestingSoundHolds == Spec => []NestingSound
<1>1. ASSUME IInv PROVE NestingSound
  <2>1. SUFFICES ASSUME Calm
                 PROVE  \A d \in Devices : Cardinality(Nested(d)) <= Cardinality(Above(d))
    BY <1>1 DEF IInv, NestingSound, NestsBounded, Nested, Calm
  <2>2. \A d \in Devices : Cardinality(Nested(d)) \in Nat /\ Cardinality(Above(d)) \in Nat
    <3>1. ASSUME NEW d \in Devices
          PROVE  Cardinality(Nested(d)) \in Nat /\ Cardinality(Above(d)) \in Nat
      <4>1. Above(d) \in SUBSET Devices /\ IsFiniteSet(Devices)
        BY DeviceAssumption DEF Above
      <4>2. Len(stack) \in Nat
        BY <1>1, CallsType DEF IInv, depth
      <4>3. Nested(d) \in SUBSET (1 .. Len(stack)) /\ IsFiniteSet(1 .. Len(stack))
        BY <4>2, FS_Interval DEF Nested
      <4>4. IsFiniteSet(Above(d)) /\ IsFiniteSet(Nested(d))
        BY <4>1, <4>3, FS_Subset
      <4> QED BY <4>4, FS_CardinalityType
    <3> QED BY <3>1
  <2>3. CASE handed
    <3>1. ASSUME NEW d \in Devices PROVE Nested(d) = {}
      <4>1. SUFFICES ASSUME NEW i \in Nested(d) PROVE FALSE
        OBVIOUS
      <4>2. i \in 1 .. Len(stack) /\ stack[i].op = "probe" /\ Len(stack) \in Nat
        BY <1>1, CallsType DEF Nested, IInv, depth
      <4>3. Len(stack) + 1 - i \in 1 .. Len(stack) /\ Len(stack) + 1 - (Len(stack) + 1 - i) = i
        BY <4>2
      <4>4. calls[Len(stack) + 1 - i] = stack[i]
        BY <4>3 DEF calls, Outer
      <4>5. FrameSound(calls[Len(stack) + 1 - i])
        BY <1>1, <4>3 DEF IInv, StackSound, depth
      <4> QED BY <2>3, <4>2, <4>4, <4>5 DEF FrameSound
    <3>2. ASSUME NEW d \in Devices PROVE Cardinality(Nested(d)) <= Cardinality(Above(d))
      <4>1. Cardinality(Nested(d)) = 0 /\ Cardinality(Above(d)) \in Nat
        BY <2>2, <3>1, FS_EmptySet
      <4> QED BY <4>1
    <3> QED BY <3>2
  <2>4. CASE ~handed
    <3> DEFINE B == {d \in Devices : Cardinality(Nested(d)) > Cardinality(Above(d))}
    <3>1. \A d \in B : Parent[d] \in B
      BY <1>1, <2>1, <2>4, NestedParent
    <3>2. B \in SUBSET Devices
      OBVIOUS
    <3>3. B = {}
      <4> HIDE DEF B
      <4> QED BY <3>1, <3>2, DeviceAssumption
    <3>4. ASSUME NEW d \in Devices PROVE Cardinality(Nested(d)) <= Cardinality(Above(d))
      <4>1. ~ (Cardinality(Nested(d)) > Cardinality(Above(d)))
        BY <3>3
      <4>2. Cardinality(Nested(d)) \in Nat /\ Cardinality(Above(d)) \in Nat
        BY <2>2
      <4> QED BY <4>1, <4>2
    <3> QED BY <3>4
  <2> QED BY <2>3, <2>4
<1> QED BY <1>1, Invariance, PTL
=============================================================================
