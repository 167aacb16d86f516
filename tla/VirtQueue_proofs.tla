-------------------------- MODULE VirtQueue_proofs --------------------------
(***************************************************************************)
(* What VirtQueue guarantees for every size of the ring, every range of    *)
(* its indices and every set of buffers, on a machine whose stores reach   *)
(* memory in the order of the program: the descriptors are shared out      *)
(* between the free list and the buffers lent, and the ring implements the *)
(* queue of BufQueue.  The free list and the chains are threaded through   *)
(* one table, so that the invariant names the lists themselves; the head   *)
(* of each buffer's chain is then in one place of the two rings or with    *)
(* the device, and that there are no more heads than descriptors keeps the *)
(* rings from being overrun.  What is said of kicks needs no order of      *)
(* stores: it is about the indices alone.                                  *)
(***************************************************************************)
EXTENDS VirtQueue, FiniteSetTheorems, SequenceTheorems, WellFoundedInduction, TLAPS

\* A non-empty set of natural numbers has a least member.
LEMMA LeastNatural ==
  ASSUME NEW T \in SUBSET Nat, T # {}
  PROVE  \E n \in T : \A m \in T : n <= m
<1> DEFINE R == OpToRel(<, Nat)
<1>1. IsWellFoundedOn(R, Nat)
  BY NatLessThanWellFounded
<1>2. \A m, n \in Nat : m < n => <<m, n>> \in R
  BY DEF OpToRel
<1> HIDE DEF R
<1>3. PICK n \in T : \A m \in T : ~ (<<m, n>> \in R)
  BY <1>1, WFMin
<1>4. ASSUME NEW m \in T PROVE n <= m
  <2>1. m \in Nat /\ n \in Nat
    OBVIOUS
  <2>2. ~ (<<m, n>> \in R)
    BY <1>3
  <2>3. ~ (m < n)
    BY <1>2, <2>1, <2>2
  <2> QED BY <2>1, <2>3
<1> QED BY <1>4

-----------------------------------------------------------------------------
(***************************************************************************)
(* Indices and slots.                                                      *)
(***************************************************************************)
LEMMA RingType == Num \in Nat \ {0} /\ IdxMod \in Nat /\ IdxMod > Num
BY VirtQueueAssumption

LEMMA DivMod ==
  ASSUME NEW n \in Nat \ {0}, NEW a \in Nat
  PROVE  a = n * (a \div n) + (a % n)
OBVIOUS

LEMMA Division ==
  ASSUME NEW n \in Nat \ {0}, NEW a \in Nat
  PROVE  \E q \in Nat, r \in 0 .. n - 1 : r = a % n /\ a = n * q + r
<1> DEFINE q == a \div n
           r == a % n
<1>1. q \in Int /\ r \in 0 .. n - 1 /\ r = a % n
  OBVIOUS
<1>2. a = n * q + r
  BY DivMod
<1> HIDE DEF q, r
<1>3. ASSUME q < 0 PROVE FALSE
  <2> DEFINE z == -1 - q
  <2>1. z \in Nat /\ q = -1 - z
    BY <1>1, <1>3
  <2> HIDE DEF z
  <2>2. n * (-1 - z) = -n - n * z /\ n * z \in Int /\ n * z >= 0
    BY <2>1
  <2> DEFINE m == n * z
  <2>3. a = -n - m + r /\ m \in Int /\ m >= 0
    BY <1>2, <2>1, <2>2
  <2> HIDE DEF m
  <2> QED BY <1>1, <2>3
<1> QED BY <1>1, <1>2, <1>3

\* The quotient and the rest are determined.
LEMMA RestUnique ==
  ASSUME NEW n \in Nat \ {0}, NEW q \in Nat, NEW p \in Nat,
         NEW r \in 0 .. n - 1, NEW s \in 0 .. n - 1, n * q + r = n * p + s
  PROVE  r = s
<1>1. ASSUME NEW x \in Nat, NEW y \in Nat, x < y PROVE n * y >= n * x + n
  <2>1. PICK z \in Nat : y = x + 1 + z
    <3>1. y - x - 1 \in Nat /\ y = x + 1 + (y - x - 1)
      BY <1>1
    <3> QED BY <3>1
  <2>2. n * y = n * x + n + n * z
    BY <2>1
  <2>3. n * z >= 0 /\ n * z \in Int /\ n * x \in Int
    OBVIOUS
  <2> QED BY <2>2, <2>3
<1>2. n * q \in Int /\ n * p \in Int
  OBVIOUS
<1>3. CASE q < p
  <2>1. n * p >= n * q + n
    BY <1>1, <1>3
  <2> QED BY <1>2, <2>1
<1>4. CASE p < q
  <2>1. n * q >= n * p + n
    BY <1>1, <1>4
  <2> QED BY <1>2, <2>1
<1>5. CASE p = q
  BY <1>2, <1>5
<1> QED BY <1>3, <1>4, <1>5

LEMMA RestOfSum ==
  ASSUME NEW n \in Nat \ {0}, NEW a \in Nat, NEW m \in Nat, m % n = 0
  PROVE  (a + m) % n = a % n
<1> DEFINE c == a + m
<1>1. c \in Nat /\ c = a + m
  OBVIOUS
<1> HIDE DEF c
<1>2. PICK q \in Nat, r \in 0 .. n - 1 : r = a % n /\ a = n * q + r
  BY Division
<1>3. PICK p \in Nat, z \in 0 .. n - 1 : z = m % n /\ m = n * p + z
  BY Division
<1>4. PICK t \in Nat, s \in 0 .. n - 1 : s = c % n /\ c = n * t + s
  BY <1>1, Division
<1>5. z = 0
  BY <1>3
<1>6. q + p \in Nat /\ n * (q + p) = n * q + n * p
        /\ n * q \in Int /\ n * p \in Int /\ n * t \in Int
  OBVIOUS
<1>7. n * (q + p) + r = n * t + s
  BY <1>1, <1>2, <1>3, <1>4, <1>5, <1>6
<1>8. r = s
  BY <1>6, <1>7, RestUnique
<1> QED BY <1>1, <1>2, <1>4, <1>8

LEMMA RestsDiffer ==
  ASSUME NEW n \in Nat \ {0}, NEW a \in Nat, NEW k \in 1 .. n - 1
  PROVE  (a + k) % n # a % n
<1> DEFINE c == a + k
<1>1. c \in Nat /\ c = a + k
  OBVIOUS
<1> HIDE DEF c
<1>2. PICK q \in Nat, r \in 0 .. n - 1 : r = a % n /\ a = n * q + r
  BY Division
<1>3. PICK t \in Nat, s \in 0 .. n - 1 : s = c % n /\ c = n * t + s
  BY <1>1, Division
<1>4. SUFFICES ASSUME r = s PROVE FALSE
  BY <1>1, <1>2, <1>3
<1>5. n * t \in Int /\ n * q \in Int
  OBVIOUS
<1>6. n * t + 0 = n * q + k /\ 0 \in 0 .. n - 1 /\ k \in 0 .. n - 1 /\ k # 0
  BY <1>1, <1>2, <1>3, <1>4, <1>5
<1> QED BY <1>6, RestUnique

LEMMA PlusValue ==
  ASSUME NEW i \in Idx
  PROVE  /\ Plus(i, 1) = IF i + 1 < IdxMod THEN i + 1 ELSE 0
         /\ Plus(i, 1) \in Idx
<1>1. CASE i + 1 < IdxMod
  <2>1. i + 1 \in 0 .. IdxMod - 1
    BY <1>1, RingType DEF Idx
  <2>2. (i + 1) % IdxMod = i + 1
    BY <2>1, RingType
  <2> QED BY <1>1, <2>1, <2>2 DEF Plus, Idx
<1>2. CASE ~(i + 1 < IdxMod)
  <2>1. i + 1 = IdxMod
    BY <1>2, RingType DEF Idx
  <2>2. (i + 1) % IdxMod = 0
    BY <2>1, RingType
  <2> QED BY <1>2, <2>2, RingType DEF Plus, Idx
<1> QED BY <1>1, <1>2

LEMMA ApartValue ==
  ASSUME NEW i \in Idx, NEW j \in Idx
  PROVE  /\ Apart(i, j) = IF i <= j THEN j - i ELSE j - i + IdxMod
         /\ Apart(i, j) \in 0 .. IdxMod - 1
<1>1. CASE i <= j
  <2>1. j - i \in 0 .. IdxMod - 1
    BY <1>1, RingType DEF Idx
  <2>2. (j - i) % IdxMod = j - i
    BY <2>1, RingType
  <2> QED BY <1>1, <2>1, <2>2 DEF Apart
<1>2. CASE ~(i <= j)
  <2>1. j - i \in -IdxMod + 1 .. -1
    BY <1>2, RingType DEF Idx
  <2>2. (j - i) % IdxMod = j - i + IdxMod
    BY <2>1, RingType
  <2> QED BY <1>2, <2>1, <2>2, RingType DEF Apart
<1> QED BY <1>1, <1>2

LEMMA SlotType == \A i \in Nat : Slot(i) \in Desc
BY RingType DEF Slot, Desc

\* Slots that are less than once around the ring apart are different ...
LEMMA SlotsDiffer ==
  ASSUME NEW i \in Nat, NEW k \in 1 .. Num - 1
  PROVE  Slot(i + k) # Slot(i)
BY RingType, RestsDiffer DEF Slot

\* ... and where an index wraps its slot does, too, for the size of the ring
\* divides their range.
LEMMA SlotWraps ==
  ASSUME NEW i \in Nat
  PROVE  Slot(i + IdxMod) = Slot(i)
BY RingType, VirtQueueAssumption, RestOfSum DEF Slot

LEMMA SlotShift ==
  ASSUME NEW i \in Idx, NEW k \in Nat
  PROVE  Slot(Plus(i, 1) + k) = Slot(i + 1 + k)
<1>1. i \in Nat
  BY DEF Idx
<1>2. CASE i + 1 < IdxMod
  BY <1>1, <1>2, PlusValue
<1>3. CASE ~(i + 1 < IdxMod)
  <2>1. i + 1 + k = k + IdxMod /\ Plus(i, 1) + k = k
    BY <1>3, PlusValue, RingType DEF Idx
  <2> QED BY <2>1, SlotWraps
<1> QED BY <1>2, <1>3

LEMMA SlotOfEnd ==
  ASSUME NEW i \in Idx, NEW j \in Idx
  PROVE  Slot(i + Apart(i, j)) = Slot(j)
<1>1. i \in Nat /\ j \in Nat
  BY DEF Idx
<1>2. Apart(i, j) = IF i <= j THEN j - i ELSE j - i + IdxMod
  BY ApartValue
<1>3. i + Apart(i, j) = j \/ i + Apart(i, j) = j + IdxMod
  BY <1>1, <1>2, RingType
<1> QED BY <1>1, <1>3, SlotWraps

\* How the window from one index to another changes with either
LEMMA ApartAfter ==
  ASSUME NEW i \in Idx, NEW j \in Idx
  PROVE  /\ Apart(i, j) = 0 <=> i = j
         /\ Apart(i, j) < IdxMod - 1 => Apart(i, Plus(j, 1)) = Apart(i, j) + 1
         /\ i # j => Apart(Plus(i, 1), j) = Apart(i, j) - 1
<1>1. i \in 0 .. IdxMod - 1 /\ j \in 0 .. IdxMod - 1
  BY DEF Idx
<1>2. Plus(i, 1) \in Idx /\ Plus(j, 1) \in Idx
  BY PlusValue
<1>3. /\ Apart(i, j) = IF i <= j THEN j - i ELSE j - i + IdxMod
      /\ Plus(j, 1) = IF j + 1 < IdxMod THEN j + 1 ELSE 0
      /\ Plus(i, 1) = IF i + 1 < IdxMod THEN i + 1 ELSE 0
      /\ Apart(i, Plus(j, 1)) = IF i <= Plus(j, 1) THEN Plus(j, 1) - i
                                ELSE Plus(j, 1) - i + IdxMod
      /\ Apart(Plus(i, 1), j) = IF Plus(i, 1) <= j THEN j - Plus(i, 1)
                                ELSE j - Plus(i, 1) + IdxMod
  BY <1>2, PlusValue, ApartValue
<1>4. Apart(i, j) < IdxMod - 1 => Apart(i, Plus(j, 1)) = Apart(i, j) + 1
  BY <1>1, <1>3, RingType
<1>5. i # j => Apart(Plus(i, 1), j) = Apart(i, j) - 1
  BY <1>1, <1>3, RingType
<1> QED BY <1>1, <1>3, <1>4, <1>5, RingType

-----------------------------------------------------------------------------
(***************************************************************************)
(* The lists that are threaded through the descriptors, of a table D: desc *)
(* before or after a step, or what the device sees of it.                   *)
(***************************************************************************)
LEMMA Threads ==
  \A d : /\ From(d) = FromIn(desc, d) /\ From(d)' = FromIn(desc', d')
         /\ Ends(d) <=> EndsIn(desc, d)
         /\ Chain(d) = ChainIn(desc, d) /\ Chain(d)' = ChainIn(desc', d')
BY DEF From, Ends, Chain

\* Following next is defined for as many steps as there are descriptors.
LEMMA Walk ==
  ASSUME NEW D \in Descs, NEW d \in Desc
  PROVE  /\ FromIn(D, d) \in [0 .. Num -> Desc]
         /\ FromIn(D, d)[0] = d
         /\ \A k \in 1 .. Num : FromIn(D, d)[k] = D[FromIn(D, d)[k - 1]].next
<1> DEFINE Go(x) == D[x].next
           Solves(g, m) == g = [k \in 0 .. m |-> IF k = 0 THEN d ELSE Go(g[k - 1])]
           at == CHOOSE g : Solves(g, Num)
<1>1. FromIn(D, d) = at
  BY DEF FromIn
<1>2. \A x \in Desc : Go(x) \in Desc
  BY DEF Descs
<1> HIDE DEF Go
<1>3. \A m \in Nat : \E g : Solves(g, m)
  <2> DEFINE T == {m \in Nat : ~ \E g : Solves(g, m)}
  <2> SUFFICES ASSUME T # {} PROVE FALSE
    OBVIOUS
  <2>1. PICK m \in T : \A k \in T : m <= k
    BY LeastNatural
  <2>2. m \in Nat /\ ~ \E g : Solves(g, m)
    OBVIOUS
  <2>3. CASE m = 0
    <3> DEFINE g == [k \in 0 .. 0 |-> d]
    <3>1. Solves(g, 0)
      OBVIOUS
    <3> QED BY <2>2, <2>3, <3>1
  <2>4. CASE m # 0
    <3>1. m - 1 \in Nat /\ ~(m <= m - 1)
      BY <2>2, <2>4
    <3>2. m - 1 \notin T
      BY <2>1, <3>1
    <3>3. PICK g : Solves(g, m - 1)
      BY <3>1, <3>2
    <3> DEFINE h == [k \in 0 .. m |-> IF k = m THEN Go(g[m - 1]) ELSE g[k]]
    <3>4. ASSUME NEW k \in 0 .. m
          PROVE  h[k] = IF k = 0 THEN d ELSE Go(h[k - 1])
      <4>1. k \in Int /\ (k # m => k \in 0 .. m - 1)
              /\ (k # 0 => k - 1 \in 0 .. m /\ k - 1 # m)
        BY <2>2
      <4>2. k # m => g[k] = IF k = 0 THEN d ELSE Go(g[k - 1])
        BY <3>3, <4>1
      <4>3. k # 0 => h[k - 1] = g[k - 1]
        BY <4>1
      <4> QED BY <2>2, <2>4, <4>1, <4>2, <4>3
    <3>5. Solves(h, m)
      BY <3>4
    <3> QED BY <2>2, <3>5
  <2> QED BY <2>3, <2>4
<1>4. Solves(at, Num)
  BY <1>3, RingType
<1> HIDE DEF at
<1>5. /\ DOMAIN at = 0 .. Num /\ at = [k \in 0 .. Num |-> at[k]]
      /\ \A k \in 0 .. Num : at[k] = IF k = 0 THEN d ELSE Go(at[k - 1])
  BY <1>4
<1> HIDE DEF Solves
<1>6. at[0] = d
  BY <1>5, RingType
<1>7. ASSUME NEW k \in 1 .. Num PROVE at[k] = Go(at[k - 1])
  <2>1. k \in 0 .. Num /\ k # 0
    BY RingType
  <2> QED BY <1>5, <2>1
<1>8. \A k \in 0 .. Num : at[k] \in Desc
  <2> DEFINE T == {k \in 0 .. Num : at[k] \notin Desc}
  <2> SUFFICES ASSUME T # {} PROVE FALSE
    OBVIOUS
  <2>1. T \in SUBSET Nat
    BY RingType
  <2>2. PICK k \in T : \A j \in T : k <= j
    BY <2>1, LeastNatural
  <2>3. k \in 0 .. Num /\ at[k] \notin Desc
    OBVIOUS
  <2>4. k # 0
    BY <1>6, <2>3
  <2>5. k - 1 \in 0 .. Num /\ k \in 1 .. Num /\ ~(k <= k - 1)
    BY <2>3, <2>4, RingType
  <2>6. at[k - 1] \in Desc
    BY <2>2, <2>5
  <2> QED BY <1>2, <1>7, <2>3, <2>5, <2>6
<1>9. at \in [0 .. Num -> Desc]
  BY <1>5, <1>8
<1> QED BY <1>1, <1>6, <1>7, <1>9 DEF Go

\* f lists n descriptors in the order of their links.
Linked(D, n, f) ==
  /\ f \in [1 .. n -> Desc]
  /\ \A k \in 1 .. n - 1 : D[f[k]].next = f[k + 1]

LEMMA WalkOfList ==
  ASSUME NEW D \in Descs, NEW n \in 1 .. Num, NEW f, Linked(D, n, f)
  PROVE  \A k \in 0 .. n - 1 : FromIn(D, f[1])[k] = f[k + 1]
<1> DEFINE at == FromIn(D, f[1])
           T == {k \in 0 .. n - 1 : at[k] # f[k + 1]}
<1>1. n \in Nat /\ 1 <= n /\ n <= Num /\ f[1] \in Desc /\ Num \in Nat
  BY RingType DEF Linked
<1>2. at[0] = f[1] /\ \A k \in 1 .. Num : at[k] = D[at[k - 1]].next
  BY <1>1, Walk
<1> HIDE DEF at
<1> SUFFICES ASSUME T # {} PROVE FALSE
  BY DEF at
<1>3. T \in SUBSET Nat
  BY <1>1
<1>4. PICK k \in T : \A j \in T : k <= j
  BY <1>3, LeastNatural
<1>5. k \in 0 .. n - 1 /\ at[k] # f[k + 1]
  OBVIOUS
<1>6. k # 0
  BY <1>2, <1>5
<1>7. /\ k - 1 \in 0 .. n - 1 /\ ~(k <= k - 1) /\ k \in 1 .. Num
      /\ k \in 1 .. n - 1 /\ (k - 1) + 1 = k
  BY <1>1, <1>5, <1>6
<1>8. at[k - 1] = f[k]
  BY <1>4, <1>7
<1>9. D[f[k]].next = f[k + 1]
  BY <1>7 DEF Linked
<1> QED BY <1>2, <1>5, <1>7, <1>8, <1>9

\* How the table D is shared out: "free" lists the n free descriptors, from
\* the free list's head, and chain[b] those of each buffer b that is lent.
Shape(D, head, n, on_loan, free, chain) ==
  /\ Linked(D, n, free)
  /\ n > 0 => free[1] = head
  /\ \A j, k \in 1 .. n : free[j] = free[k] => j = k
  /\ DOMAIN chain = Buffers
  /\ \A b \in on_loan :
       /\ Linked(D, Size[b], chain[b])
       /\ \A k \in 1 .. Size[b] : /\ D[chain[b][k]].addr = <<b, k>>
                                  /\ D[chain[b][k]].more <=> k < Size[b]
       /\ \A k \in 1 .. Size[b], j \in 1 .. n : chain[b][k] # free[j]
  /\ \A d \in Desc : \/ \E j \in 1 .. n : d = free[j]
                     \/ \E b \in on_loan : \E k \in 1 .. Size[b] : d = chain[b][k]

LEMMA SizeType == \A b \in Buffers : Size[b] \in Nat /\ Size[b] >= 1
BY VirtQueueAssumption

\* A chain and the free list together have no more than all descriptors.
LEMMA ShapeFits ==
  ASSUME NEW D \in Descs, NEW head \in Desc, NEW n \in Nat,
         NEW on_loan \in SUBSET Buffers, NEW free, NEW chain,
         Shape(D, head, n, on_loan, free, chain), NEW b \in on_loan
  PROVE  n + Size[b] <= Num
<1> DEFINE z == Size[b]
           both == [k \in 1 .. n + z |-> IF k <= n THEN free[k] ELSE chain[b][k - n]]
<1>1. z \in Nat /\ z >= 1
  BY SizeType
<1> HIDE DEF z
<1>2. /\ free \in [1 .. n -> Desc]
      /\ chain[b] \in [1 .. z -> Desc]
      /\ \A j, k \in 1 .. n : free[j] = free[k] => j = k
      /\ \A k \in 1 .. z : D[chain[b][k]].addr = <<b, k>>
      /\ \A k \in 1 .. z, j \in 1 .. n : chain[b][k] # free[j]
  BY DEF Shape, Linked, z
<1>3. ASSUME NEW k \in 1 .. n + z
      PROVE  /\ both[k] = IF k <= n THEN free[k] ELSE chain[b][k - n]
             /\ k <= n => k \in 1 .. n
             /\ ~(k <= n) => k - n \in 1 .. z
  BY <1>1
<1>4. both \in [1 .. n + z -> Desc]
  BY <1>2, <1>3
<1> HIDE DEF both
<1>5. ASSUME NEW j \in 1 .. n + z, NEW k \in 1 .. n + z, both[j] = both[k]
      PROVE  j = k
  <2>1. CASE j <= n /\ k <= n
    BY <1>2, <1>3, <1>5, <2>1
  <2>2. CASE j <= n /\ ~(k <= n)
    BY <1>2, <1>3, <1>5, <2>2
  <2>3. CASE ~(j <= n) /\ k <= n
    BY <1>2, <1>3, <1>5, <2>3
  <2>4. CASE ~(j <= n) /\ ~(k <= n)
    <3>1. j - n \in 1 .. z /\ k - n \in 1 .. z /\ chain[b][j - n] = chain[b][k - n]
      BY <1>3, <1>5, <2>4
    <3>2. <<b, j - n>> = <<b, k - n>>
      BY <1>2, <3>1
    <3> QED BY <1>1, <3>1, <3>2
  <2> QED BY <2>1, <2>2, <2>3, <2>4
<1>6. both \in Injection(1 .. n + z, Desc)
  BY <1>4, <1>5 DEF Injection, IsInjective
<1>7. IsFiniteSet(Desc) /\ Cardinality(Desc) = Num
  BY FS_Interval, RingType DEF Desc
<1>8. Cardinality(1 .. n + z) = n + z
  BY <1>1, FS_Interval
<1>9. Cardinality(1 .. n + z) <= Cardinality(Desc)
  BY <1>6, <1>7, FS_Injection
<1> QED BY <1>7, <1>8, <1>9 DEF z

\* ... and the free list alone
LEMMA FreeFits ==
  ASSUME NEW D \in Descs, NEW head \in Desc, NEW n \in Nat,
         NEW on_loan \in SUBSET Buffers, NEW free, NEW chain,
         Shape(D, head, n, on_loan, free, chain)
  PROVE  n <= Num
<1>1. free \in Injection(1 .. n, Desc)
  BY DEF Shape, Linked, Injection, IsInjective
<1>2. IsFiniteSet(Desc) /\ Cardinality(Desc) = Num
  BY FS_Interval, RingType DEF Desc
<1>3. Cardinality(1 .. n) = n
  BY FS_Interval
<1> QED BY <1>1, <1>2, <1>3, FS_Injection

\* What is walked from the first of a list, of which the last alone does not
\* go on, is the list.
LEMMA ListWalked ==
  ASSUME NEW D \in Descs, NEW z \in 1 .. Num, NEW c, Linked(D, z, c),
         \A k \in 1 .. z : D[c[k]].more <=> k < z
  PROVE  EndsIn(D, c[1]) /\ ChainIn(D, c[1]) = c
<1> DEFINE at == FromIn(D, c[1])
           IsLast(k) == ~D[at[k]].more /\ \A j \in 0 .. k - 1 : D[at[j]].more
           last == CHOOSE k \in Desc : IsLast(k)
<1>1. z \in Nat /\ z >= 1 /\ z <= Num /\ z - 1 \in Desc /\ Num \in Nat
  BY RingType DEF Desc
<1>2. /\ Linked(D, z, c)
      /\ \A k \in 1 .. z : D[c[k]].more <=> k < z
      /\ c \in [1 .. z -> Desc]
  BY DEF Linked
<1>3. \A k \in 0 .. z - 1 : at[k] = c[k + 1]
  BY <1>1, <1>2, WalkOfList
<1> HIDE DEF at
<1>4. \A k \in 0 .. z - 1 : D[at[k]].more <=> k < z - 1
  <2> TAKE k \in 0 .. z - 1
  <2>1. k + 1 \in 1 .. z /\ (k + 1 < z <=> k < z - 1)
    BY <1>1
  <2> QED BY <1>2, <1>3, <2>1
<1>5. IsLast(z - 1)
  <2>1. ~D[at[z - 1]].more
    BY <1>1, <1>4
  <2>2. \A j \in 0 .. (z - 1) - 1 : D[at[j]].more
    BY <1>1, <1>4
  <2> QED BY <2>1, <2>2
<1>6. ASSUME NEW k \in Desc, IsLast(k) PROVE k = z - 1
  <2>1. k \in Nat
    BY DEF Desc
  <2>2. ~(k < z - 1)
    <3>1. SUFFICES ASSUME k < z - 1 PROVE FALSE
      OBVIOUS
    <3>2. k \in 0 .. z - 1
      BY <1>1, <2>1, <3>1
    <3> QED BY <1>4, <1>6, <3>1, <3>2
  <2>3. ~(k > z - 1)
    <3>1. SUFFICES ASSUME k > z - 1 PROVE FALSE
      OBVIOUS
    <3>2. z - 1 \in 0 .. k - 1 /\ z - 1 \in 0 .. z - 1
      BY <1>1, <2>1, <3>1
    <3> QED BY <1>4, <1>6, <3>2
  <2> QED BY <1>1, <2>1, <2>2, <2>3
<1>7. last = z - 1
  BY <1>1, <1>5, <1>6
<1>8. ChainIn(D, c[1]) = [k \in 1 .. last + 1 |-> at[k - 1]]
  BY DEF ChainIn, at
<1> HIDE DEF last, IsLast
<1>9. last + 1 = z
  BY <1>1, <1>7
<1>10. ASSUME NEW k \in 1 .. z PROVE at[k - 1] = c[k]
  <2>1. k - 1 \in 0 .. z - 1 /\ (k - 1) + 1 = k
    BY <1>1
  <2> QED BY <1>3, <2>1
<1>11. ChainIn(D, c[1]) = [k \in 1 .. z |-> at[k - 1]]
  BY <1>8, <1>9
<1>12. ChainIn(D, c[1]) = c
  BY <1>2, <1>10, <1>11
<1>13. EndsIn(D, c[1])
  <2>1. ~D[at[z - 1]].more
    BY <1>5 DEF IsLast
  <2> QED BY <1>1, <2>1 DEF EndsIn, at
<1> QED BY <1>12, <1>13

\* What the code walks from a buffer's head is its chain.
LEMMA ChainFound ==
  ASSUME NEW D \in Descs, NEW head \in Desc, NEW n \in Nat,
         NEW on_loan \in SUBSET Buffers, NEW free, NEW chain,
         Shape(D, head, n, on_loan, free, chain), NEW b \in on_loan
  PROVE  /\ EndsIn(D, chain[b][1])
         /\ ChainIn(D, chain[b][1]) = chain[b]
<1>1. Size[b] \in 1 .. Num
  <2>1. Size[b] \in Nat /\ Size[b] >= 1 /\ n + Size[b] <= Num
    BY SizeType, ShapeFits
  <2> QED BY <2>1, RingType
<1>2. /\ Linked(D, Size[b], chain[b])
      /\ \A k \in 1 .. Size[b] : D[chain[b][k]].more <=> k < Size[b]
  BY DEF Shape
<1> QED BY <1>1, <1>2, ListWalked

\* Different buffers have no descriptor in common, whence their heads differ.
LEMMA ChainsDisjoint ==
  ASSUME NEW D \in Descs, NEW head \in Desc, NEW n \in Nat,
         NEW on_loan \in SUBSET Buffers, NEW free, NEW chain,
         Shape(D, head, n, on_loan, free, chain),
         NEW a \in on_loan, NEW b \in on_loan,
         NEW j \in 1 .. Size[a], NEW k \in 1 .. Size[b],
         chain[a][j] = chain[b][k]
  PROVE  a = b /\ j = k
<1>1. D[chain[a][j]].addr = <<a, j>> /\ D[chain[b][k]].addr = <<b, k>>
  BY DEF Shape
<1>2. <<a, j>> = <<b, k>>
  BY <1>1
<1> QED BY <1>2

-----------------------------------------------------------------------------
(***************************************************************************)
(* How adding a buffer and taking one back change the lists.               *)
(***************************************************************************)
FilledIn(D, head, b) ==
  LET at == FromIn(D, head)
  IN [d \in Desc |->
        IF \E k \in 0 .. Size[b] - 1 : at[k] = d
        THEN LET k == CHOOSE j \in 0 .. Size[b] - 1 : at[j] = d
             IN [addr |-> <<b, k + 1>>, more |-> k < Size[b] - 1,
                 next |-> D[d].next]
        ELSE D[d]]

\* The lists after b has got a chain that begins at h
Reshaped(D2, head2, n2, on_loan, chain, b, h) ==
  \E free2, chain2 : /\ Shape(D2, head2, n2, on_loan \cup {b}, free2, chain2)
                     /\ chain2[b][1] = h
                     /\ \A c \in on_loan : chain2[c] = chain[c]

\* virtqueue_add() makes the first free descriptors the chain of the buffer,
\* and leaves all others as they were.
LEMMA FillKeepsShape ==
  ASSUME NEW D \in Descs, NEW head \in Desc, NEW n \in Nat,
         NEW on_loan \in SUBSET Buffers, NEW free, NEW chain,
         Shape(D, head, n, on_loan, free, chain),
         NEW b \in Buffers \ on_loan, Size[b] <= n
  PROVE  /\ FilledIn(D, head, b) \in Descs /\ FromIn(D, head)[Size[b]] \in Desc
         /\ Reshaped(FilledIn(D, head, b), FromIn(D, head)[Size[b]], n - Size[b],
                     on_loan, chain, b, head)
<1> DEFINE z == Size[b]
           at == FromIn(D, head)
           D2 == FilledIn(D, head, b)
           free2 == [k \in 1 .. n - z |-> free[k + z]]
           mine == [k \in 1 .. z |-> free[k]]
           chain2 == [chain EXCEPT ![b] = mine]
<1>1. z \in Nat /\ z >= 1 /\ z <= n /\ n <= Num /\ Num \in Nat
  BY SizeType, FreeFits, RingType
<1>2. /\ free \in [1 .. n -> Desc]
      /\ \A k \in 1 .. n - 1 : D[free[k]].next = free[k + 1]
      /\ \A j, k \in 1 .. n : free[j] = free[k] => j = k
      /\ free[1] = head
      /\ DOMAIN chain = Buffers
  BY <1>1 DEF Shape, Linked
<1>3. \A c \in on_loan :
        /\ chain[c] \in [1 .. Size[c] -> Desc]
        /\ \A k \in 1 .. Size[c] - 1 : D[chain[c][k]].next = chain[c][k + 1]
        /\ \A k \in 1 .. Size[c] : /\ D[chain[c][k]].addr = <<c, k>>
                                   /\ D[chain[c][k]].more <=> k < Size[c]
        /\ \A k \in 1 .. Size[c], j \in 1 .. n : chain[c][k] # free[j]
  BY DEF Shape, Linked
<1>4. \A d \in Desc : \/ \E j \in 1 .. n : d = free[j]
                      \/ \E c \in on_loan : \E k \in 1 .. Size[c] : d = chain[c][k]
  BY DEF Shape
<1>5. /\ at \in [0 .. Num -> Desc]
      /\ \A k \in 1 .. Num : at[k] = D[at[k - 1]].next
  BY Walk
<1>6. \A k \in 0 .. n - 1 : at[k] = free[k + 1]
  <2>1. Linked(D, n, free) /\ n \in 1 .. Num
    BY <1>1 DEF Shape
  <2> QED BY <1>2, <2>1, WalkOfList
<1>7. D2 = [d \in Desc |->
              IF \E k \in 0 .. z - 1 : at[k] = d
              THEN LET k == CHOOSE j \in 0 .. z - 1 : at[j] = d
                   IN [addr |-> <<b, k + 1>>, more |-> k < z - 1, next |-> D[d].next]
              ELSE D[d]]
  BY DEF FilledIn
<1>8. \A c \in on_loan : chain2[c] = chain[c]
  BY <1>2
<1>9. chain2[b] = mine /\ DOMAIN chain2 = Buffers
  BY <1>2
<1> HIDE DEF z, at, D2, chain2
<1>10. ASSUME NEW k \in 1 .. z
       PROVE  /\ free[k] \in Desc /\ k \in 1 .. n
              /\ D2[free[k]] = [addr |-> <<b, k>>, more |-> k < z,
                                next |-> D[free[k]].next]
              /\ D2[free[k]].addr = <<b, k>>
              /\ D2[free[k]].more <=> k < z
              /\ D2[free[k]].next = D[free[k]].next
  <2>1. k - 1 \in 0 .. z - 1 /\ k - 1 \in 0 .. n - 1 /\ (k - 1) + 1 = k
          /\ k \in 1 .. n /\ (k - 1 < z - 1 <=> k < z)
    BY <1>1
  <2>2. at[k - 1] = free[k] /\ free[k] \in Desc
    BY <1>2, <1>6, <2>1
  <2>3. ASSUME NEW j \in 0 .. z - 1, at[j] = free[k] PROVE j = k - 1
    <3>1. j \in 0 .. n - 1 /\ j + 1 \in 1 .. n
      BY <1>1
    <3>2. free[j + 1] = free[k]
      BY <1>6, <2>3, <3>1
    <3>3. j + 1 = k
      BY <1>2, <2>1, <3>1, <3>2
    <3> QED BY <2>1, <3>1, <3>3
  <2>4. (CHOOSE j \in 0 .. z - 1 : at[j] = free[k]) = k - 1
    BY <2>1, <2>2, <2>3
  <2>5. D2[free[k]] = [addr |-> <<b, (k - 1) + 1>>, more |-> k - 1 < z - 1,
                       next |-> D[free[k]].next]
    BY <1>7, <2>1, <2>2, <2>4
  <2>6. k < z <=> k - 1 < z - 1
    BY <2>1
  <2> DEFINE row == [addr |-> <<b, k>>, more |-> k < z, next |-> D[free[k]].next]
  <2>7. D2[free[k]] = row
    BY <2>1, <2>5, <2>6
  <2>8. row.addr = <<b, k>> /\ (row.more <=> k < z) /\ row.next = D[free[k]].next
    OBVIOUS
  <2> QED BY <2>1, <2>2, <2>7, <2>8
<1>11. ASSUME NEW d \in Desc, \A k \in 1 .. z : d # free[k]
       PROVE  D2[d] = D[d]
  <2>1. ASSUME NEW k \in 0 .. z - 1 PROVE at[k] # d
    <3>1. k \in 0 .. n - 1 /\ k + 1 \in 1 .. z
      BY <1>1
    <3> QED BY <1>6, <1>11, <3>1
  <2> QED BY <1>7, <2>1
<1>12. \A d \in Desc : D2[d].next = D[d].next
  <2> TAKE d \in Desc
  <2>1. ASSUME NEW k \in 1 .. z, d = free[k] PROVE D2[d].next = D[d].next
    BY <1>10, <2>1
  <2>2. CASE ~ \E k \in 1 .. z : d = free[k]
    BY <1>11, <2>2
  <2> QED BY <2>1, <2>2
<1>13. D2 \in Descs
  <2> DEFINE Row == [addr : {<<>>} \cup UNION {Range(Whole(c)) : c \in Buffers},
                     more : BOOLEAN, next : Desc]
  <2>1. D \in [Desc -> Row]
    BY DEF Descs
  <2>2. ASSUME NEW k \in 1 .. z PROVE <<b, k>> \in UNION {Range(Whole(c)) : c \in Buffers}
    <3>1. DOMAIN Whole(b) = 1 .. z /\ Whole(b)[k] = <<b, k>>
      BY DEF Whole, z
    <3>2. <<b, k>> \in Range(Whole(b))
      BY <3>1 DEF Range
    <3> QED BY <3>2
  <2>3. ASSUME NEW d \in Desc PROVE D2[d] \in Row
    <3>1. CASE \E k \in 1 .. z : d = free[k]
      <4>1. PICK k \in 1 .. z : d = free[k]
        BY <3>1
      <4>2. D[d].next \in Desc
        BY <2>1
      <4>3. (k < z) \in BOOLEAN
        OBVIOUS
      <4>4. D2[d] = [addr |-> <<b, k>>, more |-> k < z, next |-> D[d].next]
        BY <1>10, <4>1
      <4> QED BY <2>2, <4>2, <4>3, <4>4
    <3>2. CASE ~ \E k \in 1 .. z : d = free[k]
      BY <1>11, <2>1, <3>2
    <3> QED BY <3>1, <3>2
  <2>4. D2 = [d \in Desc |-> D2[d]]
    BY <1>7
  <2> HIDE DEF Row
  <2>5. D2 \in [Desc -> Row]
    BY <2>3, <2>4
  <2> QED BY <2>5 DEF Descs, Row
<1>14. at[z] \in Desc /\ (z < n => at[z] = free[z + 1])
  BY <1>1, <1>5, <1>6
<1>15. ASSUME NEW k \in 1 .. n - z
       PROVE  free2[k] = free[k + z] /\ k + z \in 1 .. n /\ k + z \notin 1 .. z
  BY <1>1
<1>16. Linked(D2, n - z, free2)
  <2>1. free2 \in [1 .. n - z -> Desc]
    BY <1>2, <1>15
  <2>2. ASSUME NEW k \in 1 .. (n - z) - 1 PROVE D2[free2[k]].next = free2[k + 1]
    <3>1. k \in 1 .. n - z /\ k + 1 \in 1 .. n - z /\ k + z \in 1 .. n - 1
            /\ (k + 1) + z = (k + z) + 1
      BY <1>1
    <3>2. free2[k] = free[k + z] /\ free2[k + 1] = free[(k + z) + 1]
            /\ free[k + z] \in Desc
      BY <1>2, <1>15, <3>1
    <3>3. D[free[k + z]].next = free[(k + z) + 1]
      BY <1>2, <3>1
    <3> QED BY <1>12, <3>2, <3>3
  <2> QED BY <2>1, <2>2 DEF Linked
<1>17. n - z > 0 => free2[1] = at[z]
  <2>1. SUFFICES ASSUME n - z > 0 PROVE free2[1] = at[z]
    OBVIOUS
  <2>2. 1 \in 1 .. n - z /\ z < n /\ 1 + z = z + 1
    BY <1>1, <2>1
  <2> QED BY <1>14, <1>15, <2>2
<1>18. ASSUME NEW j \in 1 .. n - z, NEW k \in 1 .. n - z, free2[j] = free2[k]
       PROVE  j = k
  <2>1. j + z = k + z
    BY <1>2, <1>15, <1>18
  <2> QED BY <1>1, <2>1
<1> HIDE DEF free2
<1>19. /\ Linked(D2, z, mine)
       /\ \A k \in 1 .. z : D2[mine[k]].addr = <<b, k>> /\ (D2[mine[k]].more <=> k < z)
       /\ \A k \in 1 .. z, j \in 1 .. n - z : mine[k] # free2[j]
  <2>1. \A k \in 1 .. z : mine[k] = free[k]
    OBVIOUS
  <2>2. mine \in [1 .. z -> Desc]
    BY <1>10
  <2> HIDE DEF mine
  <2>3. ASSUME NEW k \in 1 .. z - 1 PROVE D2[mine[k]].next = mine[k + 1]
    <3>1. k \in 1 .. z /\ k + 1 \in 1 .. z /\ k \in 1 .. n - 1
      BY <1>1
    <3> QED BY <1>2, <1>10, <1>12, <2>1, <3>1
  <2>4. \A k \in 1 .. z : D2[mine[k]].addr = <<b, k>> /\ (D2[mine[k]].more <=> k < z)
    <3> TAKE k \in 1 .. z
    <3>1. mine[k] = free[k]
      BY <2>1
    <3> QED BY <1>10, <3>1
  <2>5. ASSUME NEW k \in 1 .. z, NEW j \in 1 .. n - z PROVE mine[k] # free2[j]
    <3>1. mine[k] = free[k] /\ k \in 1 .. n
      BY <1>10, <2>1
    <3>2. free2[j] = free[j + z] /\ j + z \in 1 .. n /\ j + z \notin 1 .. z
      BY <1>15
    <3>3. k # j + z
      BY <3>2
    <3> QED BY <1>2, <3>1, <3>2, <3>3
  <2> QED BY <2>2, <2>3, <2>4, <2>5 DEF Linked
<1>20. ASSUME NEW c \in on_loan
       PROVE  /\ Linked(D2, Size[c], chain[c])
              /\ \A k \in 1 .. Size[c] : /\ D2[chain[c][k]].addr = <<c, k>>
                                         /\ D2[chain[c][k]].more <=> k < Size[c]
              /\ \A k \in 1 .. Size[c], j \in 1 .. n - z : chain[c][k] # free2[j]
  <2>0. /\ chain[c] \in [1 .. Size[c] -> Desc]
        /\ \A k \in 1 .. Size[c], j \in 1 .. n : chain[c][k] # free[j]
    BY <1>3
  <2>1. Size[c] \in Nat
    BY SizeType
  <2>2. ASSUME NEW k \in 1 .. Size[c]
        PROVE  chain[c][k] \in Desc /\ D2[chain[c][k]] = D[chain[c][k]]
    <3>1. \A j \in 1 .. z : j \in 1 .. n
      BY <1>1
    <3>2. chain[c][k] \in Desc /\ \A j \in 1 .. z : chain[c][k] # free[j]
      BY <2>0, <3>1
    <3> QED BY <1>11, <3>2
  <2>3. \A k \in 1 .. Size[c] - 1 : D2[chain[c][k]].next = chain[c][k + 1]
    <3> TAKE k \in 1 .. Size[c] - 1
    <3>1. k \in 1 .. Size[c]
      BY <2>1
    <3> QED BY <1>3, <2>2, <3>1
  <2>4. Linked(D2, Size[c], chain[c])
    BY <1>3, <2>3 DEF Linked
  <2>5. ASSUME NEW k \in 1 .. Size[c], NEW j \in 1 .. n - z
        PROVE  chain[c][k] # free2[j]
    <3>1. free2[j] = free[j + z] /\ j + z \in 1 .. n
      BY <1>15
    <3>2. chain[c][k] # free[j + z]
      BY <2>0, <3>1
    <3> QED BY <3>1, <3>2
  <2>6. ASSUME NEW k \in 1 .. Size[c]
        PROVE  D2[chain[c][k]].addr = <<c, k>> /\ (D2[chain[c][k]].more <=> k < Size[c])
    <3>1. D[chain[c][k]].addr = <<c, k>> /\ (D[chain[c][k]].more <=> k < Size[c])
      BY <1>3
    <3> QED BY <2>2, <3>1
  <2> QED BY <2>4, <2>5, <2>6
<1>21. ASSUME NEW d \in Desc
       PROVE  \/ \E j \in 1 .. n - z : d = free2[j]
              \/ \E c \in on_loan \cup {b} : \E k \in 1 .. Size[c] : d = chain2[c][k]
  <2>1. CASE \E j \in 1 .. n : d = free[j]
    <3>1. PICK j \in 1 .. n : d = free[j]
      BY <2>1
    <3>2. CASE j <= z
      <4>1. j \in 1 .. z /\ z = Size[b]
        BY <3>2 DEF z
      <4>2. d = chain2[b][j]
        BY <1>9, <3>1, <4>1
      <4> QED BY <4>1, <4>2
    <3>3. CASE ~(j <= z)
      <4>1. j - z \in 1 .. n - z /\ (j - z) + z = j
        BY <1>1, <3>3
      <4>2. d = free2[j - z]
        BY <1>15, <3>1, <4>1
      <4> QED BY <4>1, <4>2
    <3> QED BY <3>2, <3>3
  <2>2. CASE \E c \in on_loan : \E k \in 1 .. Size[c] : d = chain[c][k]
    BY <1>8, <2>2
  <2> QED BY <1>4, <2>1, <2>2
<1> HIDE DEF mine
<1>22. Shape(D2, at[z], n - z, on_loan \cup {b}, free2, chain2)
  <2>1. ASSUME NEW c \in on_loan \cup {b}
        PROVE  /\ Linked(D2, Size[c], chain2[c])
               /\ \A k \in 1 .. Size[c] : /\ D2[chain2[c][k]].addr = <<c, k>>
                                          /\ D2[chain2[c][k]].more <=> k < Size[c]
               /\ \A k \in 1 .. Size[c], j \in 1 .. n - z : chain2[c][k] # free2[j]
    <3>1. CASE c = b
      BY <1>9, <1>19, <3>1 DEF z
    <3>2. CASE c \in on_loan
      BY <1>8, <1>20, <3>2
    <3> QED BY <3>1, <3>2
  <2> QED BY <1>9, <1>16, <1>17, <1>18, <1>21, <2>1 DEF Shape
<1>23. chain2[b][1] = head
  BY <1>1, <1>2, <1>9 DEF mine
<1>24. Reshaped(D2, at[z], n - z, on_loan, chain, b, head)
  BY <1>8, <1>22, <1>23 DEF Reshaped
<1> QED BY <1>13, <1>14, <1>24 DEF z, at, D2

DetachedIn(D, last, head) == [D EXCEPT ![last].next = head]

\* The lists after a buffer has gone back, when some list is the free one
Freed(D2, head2, n2, on_loan, chain) ==
  \E free2 : Shape(D2, head2, n2, on_loan, free2, chain)

\* detach_buf() puts a chain, as it is linked, before the free list.
LEMMA GetKeepsShape ==
  ASSUME NEW D \in Descs, NEW head \in Desc, NEW n \in Nat,
         NEW on_loan \in SUBSET Buffers, NEW free, NEW chain,
         Shape(D, head, n, on_loan, free, chain), NEW b \in on_loan
  PROVE  /\ DetachedIn(D, chain[b][Size[b]], head) \in Descs
         /\ Freed(DetachedIn(D, chain[b][Size[b]], head), chain[b][1], n + Size[b],
                  on_loan \ {b}, chain)
<1> DEFINE z == Size[b]
           c == chain[b]
           last == c[z]
           D2 == DetachedIn(D, last, head)
           free2 == [k \in 1 .. n + z |-> IF k <= z THEN c[k] ELSE free[k - z]]
<1>1. z \in Nat /\ z >= 1 /\ n + z <= Num /\ Num \in Nat
  BY SizeType, ShapeFits, RingType
<1>2. /\ free \in [1 .. n -> Desc]
      /\ \A k \in 1 .. n - 1 : D[free[k]].next = free[k + 1]
      /\ \A j, k \in 1 .. n : free[j] = free[k] => j = k
      /\ n > 0 => free[1] = head
      /\ DOMAIN chain = Buffers
  BY DEF Shape, Linked
<1>3. ASSUME NEW a \in on_loan
      PROVE  /\ chain[a] \in [1 .. Size[a] -> Desc]
             /\ \A k \in 1 .. Size[a] - 1 : D[chain[a][k]].next = chain[a][k + 1]
             /\ \A k \in 1 .. Size[a] : /\ D[chain[a][k]].addr = <<a, k>>
                                        /\ D[chain[a][k]].more <=> k < Size[a]
             /\ \A k \in 1 .. Size[a], j \in 1 .. n : chain[a][k] # free[j]
  BY DEF Shape, Linked
<1>4. \A d \in Desc : \/ \E j \in 1 .. n : d = free[j]
                      \/ \E a \in on_loan : \E k \in 1 .. Size[a] : d = chain[a][k]
  BY DEF Shape
<1>5. ASSUME NEW a \in on_loan, NEW j \in 1 .. Size[a], NEW k \in 1 .. z,
             chain[a][j] = c[k]
      PROVE  a = b /\ j = k
  BY <1>5, ChainsDisjoint
<1>6. /\ c \in [1 .. z -> Desc]
      /\ \A k \in 1 .. z - 1 : D[c[k]].next = c[k + 1]
      /\ \A k \in 1 .. z, j \in 1 .. n : c[k] # free[j]
  BY <1>3
<1>7. z \in 1 .. z /\ last \in Desc
  BY <1>1, <1>6
<1>8. \A d \in Desc : /\ D2[d].addr = D[d].addr /\ (D2[d].more <=> D[d].more)
                      /\ d # last => D2[d] = D[d]
                      /\ D2[last].next = head
  BY <1>7 DEF Descs, DetachedIn
<1>9. D2 \in Descs
  BY <1>7 DEF Descs, DetachedIn
<1> HIDE DEF z, c, last, D2
<1>10. ASSUME NEW k \in 1 .. n + z
       PROVE  /\ free2[k] = IF k <= z THEN c[k] ELSE free[k - z]
              /\ k <= z => k \in 1 .. z
              /\ ~(k <= z) => k - z \in 1 .. n
              /\ free2[k] \in Desc
  <2>1. k <= z => k \in 1 .. z
    OBVIOUS
  <2>2. ~(k <= z) => k - z \in 1 .. n
    BY <1>1
  <2> QED BY <1>2, <1>6, <2>1, <2>2
<1>11. free2 \in [1 .. n + z -> Desc]
  BY <1>10
<1> HIDE DEF free2
<1>12. ASSUME NEW k \in 1 .. (n + z) - 1 PROVE D2[free2[k]].next = free2[k + 1]
  <2>1. k \in 1 .. n + z /\ k + 1 \in 1 .. n + z
    BY <1>1
  <2>2. CASE k < z
    <3>1. k \in 1 .. z - 1 /\ k \in 1 .. z /\ k <= z /\ k + 1 <= z /\ k # z
      BY <1>1, <2>2
    <3>2. c[k] # last
      <4>1. SUFFICES ASSUME c[k] = c[z] PROVE FALSE
        BY DEF last
      <4>2. k = z
        BY <1>5, <1>7, <3>1, <4>1 DEF z, c
      <4> QED BY <3>1, <4>2
    <3>3. free2[k] = c[k] /\ free2[k + 1] = c[k + 1] /\ c[k] \in Desc
      BY <1>6, <1>10, <2>1, <3>1
    <3> QED BY <1>6, <1>8, <3>1, <3>2, <3>3
  <2>3. CASE k = z
    <3>1. k <= z /\ ~(k + 1 <= z) /\ (k + 1) - z = 1 /\ n > 0
      BY <1>1, <2>3
    <3>2. free2[k] = last /\ free2[k + 1] = free[1]
      BY <1>10, <2>1, <2>3, <3>1 DEF last
    <3> QED BY <1>2, <1>7, <1>8, <3>1, <3>2
  <2>4. CASE k > z
    <3>1. k - z \in 1 .. n - 1 /\ k - z \in 1 .. n /\ (k + 1) - z = (k - z) + 1
            /\ ~(k <= z) /\ ~(k + 1 <= z)
      BY <1>1, <2>4
    <3>2. free2[k] = free[k - z] /\ free2[k + 1] = free[(k - z) + 1]
      BY <1>10, <2>1, <3>1
    <3>3. free[k - z] # last /\ free[k - z] \in Desc
      BY <1>2, <1>6, <1>7, <3>1 DEF last
    <3> QED BY <1>2, <1>8, <3>1, <3>2, <3>3
  <2> QED BY <1>1, <2>2, <2>3, <2>4
<1>13. ASSUME NEW j \in 1 .. n + z, NEW k \in 1 .. n + z, free2[j] = free2[k]
       PROVE  j = k
  <2>1. CASE j <= z /\ k <= z
    <3>1. c[j] = c[k] /\ j \in 1 .. z /\ k \in 1 .. z
      BY <1>10, <1>13, <2>1
    <3> QED BY <1>5, <3>1 DEF z, c
  <2>2. CASE j <= z /\ ~(k <= z)
    BY <1>6, <1>10, <1>13, <2>2
  <2>3. CASE ~(j <= z) /\ k <= z
    BY <1>6, <1>10, <1>13, <2>3
  <2>4. CASE ~(j <= z) /\ ~(k <= z)
    <3>1. j - z = k - z
      BY <1>2, <1>10, <1>13, <2>4
    <3> QED BY <1>1, <3>1
  <2> QED BY <2>1, <2>2, <2>3, <2>4
<1>14. ASSUME NEW a \in on_loan \ {b}
       PROVE  /\ Linked(D2, Size[a], chain[a])
              /\ \A k \in 1 .. Size[a] : /\ D2[chain[a][k]].addr = <<a, k>>
                                         /\ D2[chain[a][k]].more <=> k < Size[a]
              /\ \A k \in 1 .. Size[a], j \in 1 .. n + z : chain[a][k] # free2[j]
  <2>1. Size[a] \in Nat /\ a \in on_loan /\ a # b
    BY SizeType
  <2>2. ASSUME NEW k \in 1 .. Size[a]
        PROVE  /\ chain[a][k] \in Desc /\ D2[chain[a][k]] = D[chain[a][k]]
               /\ \A j \in 1 .. z : chain[a][k] # c[j]
    <3>1. \A j \in 1 .. z : chain[a][k] # c[j]
      BY <1>5, <2>1
    <3>2. chain[a][k] \in Desc /\ chain[a][k] # last
      BY <1>3, <1>7, <2>1, <3>1 DEF last
    <3> QED BY <1>8, <3>1, <3>2
  <2>3. ASSUME NEW k \in 1 .. Size[a] - 1
        PROVE  D2[chain[a][k]].next = chain[a][k + 1]
    <3>1. k \in 1 .. Size[a]
      BY <2>1
    <3>2. D[chain[a][k]].next = chain[a][k + 1]
      BY <1>3, <2>1
    <3> QED BY <2>2, <3>1, <3>2
  <2>4. Linked(D2, Size[a], chain[a])
    BY <1>3, <2>1, <2>3 DEF Linked
  <2>5. ASSUME NEW k \in 1 .. Size[a]
        PROVE  D2[chain[a][k]].addr = <<a, k>> /\ (D2[chain[a][k]].more <=> k < Size[a])
    <3>1. D[chain[a][k]].addr = <<a, k>> /\ (D[chain[a][k]].more <=> k < Size[a])
      BY <1>3, <2>1
    <3> QED BY <2>2, <3>1
  <2>6. ASSUME NEW k \in 1 .. Size[a], NEW j \in 1 .. n + z
        PROVE  chain[a][k] # free2[j]
    <3>1. CASE j <= z
      BY <1>10, <2>2, <3>1
    <3>2. CASE ~(j <= z)
      <4>1. free2[j] = free[j - z] /\ j - z \in 1 .. n
        BY <1>10, <3>2
      <4>2. chain[a][k] # free[j - z]
        BY <1>3, <2>1, <4>1
      <4> QED BY <4>1, <4>2
    <3> QED BY <3>1, <3>2
  <2> QED BY <2>4, <2>5, <2>6
<1>15. ASSUME NEW d \in Desc
       PROVE  \/ \E j \in 1 .. n + z : d = free2[j]
              \/ \E a \in on_loan \ {b} : \E k \in 1 .. Size[a] : d = chain[a][k]
  <2>1. ASSUME NEW j \in 1 .. n, d = free[j] PROVE \E k \in 1 .. n + z : d = free2[k]
    <3>1. j + z \in 1 .. n + z /\ ~(j + z <= z) /\ (j + z) - z = j
      BY <1>1
    <3>2. free2[j + z] = d
      BY <1>10, <2>1, <3>1
    <3> QED BY <3>1, <3>2
  <2>2. ASSUME NEW j \in 1 .. z, d = c[j] PROVE \E k \in 1 .. n + z : d = free2[k]
    <3>1. j \in 1 .. n + z /\ j <= z
      BY <1>1
    <3>2. free2[j] = d
      BY <1>10, <2>2, <3>1
    <3> QED BY <3>1, <3>2
  <2>3. ASSUME NEW a \in on_loan, NEW k \in 1 .. Size[a], d = chain[a][k], a # b
        PROVE  \E e \in on_loan \ {b} : \E j \in 1 .. Size[e] : d = chain[e][j]
    BY <2>3
  <2>4. CASE \E j \in 1 .. n : d = free[j]
    BY <2>1, <2>4
  <2>5. CASE \E a \in on_loan : \E k \in 1 .. Size[a] : d = chain[a][k]
    <3>1. PICK a \in on_loan : \E k \in 1 .. Size[a] : d = chain[a][k]
      BY <2>5
    <3>2. PICK k \in 1 .. Size[a] : d = chain[a][k]
      BY <3>1
    <3>3. CASE a = b
      BY <2>2, <3>2, <3>3 DEF z, c
    <3>4. CASE a # b
      BY <2>3, <3>2, <3>4
    <3> QED BY <3>3, <3>4
  <2> QED BY <1>4, <2>4, <2>5
<1>16. n + z > 0 => free2[1] = c[1]
  <2>1. 1 \in 1 .. n + z /\ 1 <= z
    BY <1>1
  <2> QED BY <1>10, <2>1
<1>17. Linked(D2, n + z, free2)
  BY <1>11, <1>12 DEF Linked
<1>18. Shape(D2, c[1], n + z, on_loan \ {b}, free2, chain)
  BY <1>2, <1>13, <1>14, <1>15, <1>16, <1>17 DEF Shape
<1>19. Freed(D2, c[1], n + z, on_loan \ {b}, chain)
  BY <1>18 DEF Freed
<1> QED BY <1>8, <1>9, <1>19 DEF z, c, last, D2

\* Neither touches the chain of another buffer.
LEMMA SameDesc ==
  ASSUME NEW A, NEW x \in [addr : A, more : BOOLEAN, next : Desc],
         NEW y \in [addr : A, more : BOOLEAN, next : Desc],
         x.addr = y.addr, x.more <=> y.more, x.next = y.next
  PROVE  x = y
OBVIOUS

LEMMA ShapeOfChain ==
  ASSUME NEW D, NEW head, NEW n, NEW on_loan, NEW free, NEW chain,
         Shape(D, head, n, on_loan, free, chain), NEW b \in on_loan
  PROVE  /\ chain[b] \in [1 .. Size[b] -> Desc]
         /\ \A k \in 1 .. Size[b] : /\ D[chain[b][k]].addr = <<b, k>>
                                    /\ D[chain[b][k]].more <=> k < Size[b]
BY DEF Shape, Linked

LEMMA DetachLeavesRest ==
  ASSUME NEW D, NEW last, NEW head, NEW x \in DOMAIN D, x # last
  PROVE  DetachedIn(D, last, head)[x] = D[x]
BY DEF DetachedIn

LEMMA FillLinks ==
  ASSUME NEW D \in Descs, NEW head \in Desc, NEW b \in Buffers, NEW d \in Desc
  PROVE  FilledIn(D, head, b)[d].next = D[d].next
<1> DEFINE at == FromIn(D, head)
<1> HIDE DEF at
<1> QED BY DEF FilledIn, at

LEMMA SameEntry ==
  ASSUME NEW D \in Descs, NEW D2 \in Descs, NEW d \in Desc,
         D2[d].addr = D[d].addr, D2[d].more <=> D[d].more, D2[d].next = D[d].next
  PROVE  D2[d] = D[d]
<1> DEFINE A == {<<>>} \cup UNION {Range(Whole(e)) : e \in Buffers}
<1>1. /\ D[d] \in [addr : A, more : BOOLEAN, next : Desc]
      /\ D2[d] \in [addr : A, more : BOOLEAN, next : Desc]
  BY DEF Descs
<1> HIDE DEF A
<1> QED BY <1>1, SameDesc

LEMMA DetachLeaves ==
  ASSUME NEW D \in Descs, NEW head \in Desc, NEW n \in Nat,
         NEW on_loan \in SUBSET Buffers, NEW free, NEW chain,
         Shape(D, head, n, on_loan, free, chain),
         NEW b \in on_loan, NEW c \in on_loan, b # c
  PROVE  /\ ChainIn(DetachedIn(D, chain[b][Size[b]], head), chain[c][1]) = chain[c]
         /\ \A k \in 1 .. Size[c] :
              DetachedIn(D, chain[b][Size[b]], head)[chain[c][k]] = D[chain[c][k]]
<1> DEFINE D2 == DetachedIn(D, chain[b][Size[b]], head)
<1>1. Size[b] \in Nat /\ Size[b] >= 1 /\ n + Size[b] <= Num
  BY SizeType, ShapeFits
<1>2. D2 \in Descs /\ Freed(D2, chain[b][1], n + Size[b], on_loan \ {b}, chain)
  BY GetKeepsShape
<1>3. PICK free2 : Shape(D2, chain[b][1], n + Size[b], on_loan \ {b}, free2, chain)
  BY <1>2 DEF Freed
<1>4. chain[b] \in [1 .. Size[b] -> Desc] /\ chain[c] \in [1 .. Size[c] -> Desc]
  BY DEF Shape, Linked
<1>5. chain[b][1] \in Desc /\ c \in on_loan \ {b} /\ n + Size[b] \in Nat
  BY <1>1, <1>4
<1> DEFINE rest == on_loan \ {b}
           n2 == n + Size[b]
<1>6. rest \in SUBSET Buffers /\ c \in rest /\ n2 \in Nat
        /\ Shape(D2, chain[b][1], n2, rest, free2, chain)
  BY <1>3, <1>5
<1> HIDE DEF D2, rest, n2
<1>7. ChainIn(D2, chain[c][1]) = chain[c]
  BY <1>2, <1>5, <1>6, ChainFound
<1>8. ASSUME NEW k \in 1 .. Size[c] PROVE D2[chain[c][k]] = D[chain[c][k]]
  <2>1. Size[b] \in 1 .. Size[b]
    BY <1>1
  <2>2. chain[c][k] # chain[b][Size[b]]
    <3>1. \A e \in on_loan : \A j \in 1 .. Size[e] : D[chain[e][j]].addr = <<e, j>>
      BY ShapeOfChain
    <3>2. D[chain[c][k]].addr = <<c, k>>
      BY <3>1
    <3>3. D[chain[b][Size[b]]].addr = <<b, Size[b]>>
      BY <2>1, <3>1
    <3> QED BY <3>2, <3>3
  <2>3. chain[c][k] \in Desc
    BY <1>4
  <2>4. chain[c][k] \in DOMAIN D
    BY <2>3 DEF Descs
  <2> QED BY <2>2, <2>4, DetachLeavesRest DEF D2
<1> QED BY <1>7, <1>8 DEF D2

-----------------------------------------------------------------------------
(***************************************************************************)
(* The heads a ring names from one index to another.                       *)
(***************************************************************************)
Distinct(s) == \A j, k \in 1 .. Len(s) : s[j] = s[k] => j = k

LEMMA NamedType ==
  ASSUME NEW r \in [Desc -> Desc], NEW i \in Idx, NEW n \in Nat
  PROVE  /\ Named(r, i, n) \in Seq(Desc)
         /\ Named(r, i, n) \in [1 .. n -> Desc]
         /\ Len(Named(r, i, n)) = n
         /\ \A k \in 1 .. n : Named(r, i, n)[k] = r[Slot(i + k - 1)]
<1>1. ASSUME NEW k \in 1 .. n PROVE r[Slot(i + k - 1)] \in Desc
  <2>1. i + k - 1 \in Nat
    BY DEF Idx
  <2> QED BY <2>1, SlotType
<1>2. Named(r, i, n) \in [1 .. n -> Desc]
  BY <1>1 DEF Named
<1> QED BY <1>2 DEF Named

\* An entry is written and the index after it moves on: the head is appended.
\* The window is less than the ring, so that the entry was not in it.
LEMMA WindowGrows ==
  ASSUME NEW r \in [Desc -> Desc], NEW i \in Idx, NEW j \in Idx, NEW h \in Desc,
         Apart(i, j) < Num,
         NEW r2 \in [Desc -> Desc], r2[Slot(j)] = h,
         \A d \in Desc : d # Slot(j) => r2[d] = r[d]
  PROVE  LET n == Apart(i, j)
         IN /\ Named(r2, i, n) = Named(r, i, n)
            /\ Apart(i, Plus(j, 1)) = n + 1
            /\ Named(r2, i, n + 1) = Append(Named(r, i, n), h)
<1> DEFINE n == Apart(i, j)
<1>1. n \in Nat /\ n < Num /\ n < IdxMod - 1 /\ i \in Nat /\ j \in Nat
  BY ApartValue, RingType DEF Idx
<1>2. Slot(j) \in Desc /\ Slot(i + n) = Slot(j)
  BY <1>1, SlotType, SlotOfEnd
<1>3. r2 \in [Desc -> Desc] /\ r2[Slot(j)] = h
        /\ \A d \in Desc : d # Slot(j) => r2[d] = r[d]
  OBVIOUS
<1>4. Apart(i, Plus(j, 1)) = n + 1
  BY <1>1, ApartAfter
<1> HIDE DEF n
<1>5. ASSUME NEW k \in 1 .. n PROVE r2[Slot(i + k - 1)] = r[Slot(i + k - 1)]
  <2>1. i + k - 1 \in Nat /\ n - k + 1 \in 1 .. Num - 1
          /\ (i + k - 1) + (n - k + 1) = i + n
    BY <1>1, RingType
  <2>2. Slot(i + n) # Slot(i + k - 1)
    BY <2>1, SlotsDiffer
  <2>3. Slot(i + k - 1) \in Desc
    BY <2>1, SlotType
  <2> QED BY <1>2, <1>3, <2>2, <2>3
<1> DEFINE s == Named(r, i, n)
           t == Named(r2, i, n + 1)
<1>6. /\ s \in Seq(Desc) /\ Len(s) = n
      /\ \A k \in 1 .. n : s[k] = r[Slot(i + k - 1)]
      /\ t \in Seq(Desc) /\ Len(t) = n + 1
      /\ \A k \in 1 .. n + 1 : t[k] = r2[Slot(i + k - 1)]
      /\ Named(r2, i, n) \in Seq(Desc) /\ Len(Named(r2, i, n)) = n
      /\ \A k \in 1 .. n : Named(r2, i, n)[k] = r2[Slot(i + k - 1)]
  <2>1. n + 1 \in Nat
    BY <1>1
  <2> QED BY <1>1, <1>3, <2>1, NamedType
<1>7. Named(r2, i, n) = s
  <2> HIDE DEF s, t
  <2>1. \A k \in 1 .. n : Named(r2, i, n)[k] = s[k]
    BY <1>5, <1>6
  <2> QED BY <1>6, <2>1, SeqEqual
<1> HIDE DEF s, t
<1>8. /\ Append(s, h) \in Seq(Desc) /\ Len(Append(s, h)) = n + 1
      /\ \A k \in 1 .. n : Append(s, h)[k] = s[k]
      /\ Append(s, h)[n + 1] = h
  BY <1>1, <1>6
<1>9. ASSUME NEW k \in 1 .. n + 1 PROVE t[k] = Append(s, h)[k]
  <2>1. CASE k = n + 1
    <3>1. i + k - 1 = i + n /\ t[k] = r2[Slot(i + k - 1)]
      BY <1>1, <1>6, <2>1
    <3> QED BY <1>2, <1>3, <1>8, <2>1, <3>1
  <2>2. CASE k # n + 1
    <3>1. k \in 1 .. n
      BY <1>1, <2>2
    <3>2. t[k] = r2[Slot(i + k - 1)] /\ s[k] = r[Slot(i + k - 1)]
      BY <1>6, <3>1
    <3> QED BY <1>5, <1>8, <3>1, <3>2
  <2> QED BY <2>1, <2>2
<1>10. t = Append(s, h)
  BY <1>6, <1>8, <1>9, SeqEqual
<1> QED BY <1>3, <1>4, <1>7, <1>10 DEF s, t, n

\* The index before it moves on: the first head is dropped.
LEMMA WindowShrinks ==
  ASSUME NEW r \in [Desc -> Desc], NEW i \in Idx, NEW j \in Idx, i # j
  PROVE  LET n == Apart(i, j)
             s == Named(r, i, n)
         IN /\ n \in Nat /\ n >= 1 /\ s # <<>> /\ Head(s) = s[1]
            /\ s[1] = r[Slot(i)] /\ r[Slot(i)] \in Desc
            /\ Apart(Plus(i, 1), j) = n - 1
            /\ Named(r, Plus(i, 1), n - 1) = Tail(s)
<1> DEFINE n == Apart(i, j)
           s == Named(r, i, n)
           t == Named(r, Plus(i, 1), n - 1)
<1>1. n \in Nat /\ n >= 1 /\ i \in Nat /\ Apart(Plus(i, 1), j) = n - 1
        /\ Plus(i, 1) \in Idx
  BY ApartValue, ApartAfter, PlusValue DEF Idx
<1> HIDE DEF n
<1>2. /\ s \in Seq(Desc) /\ Len(s) = n
      /\ \A k \in 1 .. n : s[k] = r[Slot(i + k - 1)]
      /\ t \in Seq(Desc) /\ Len(t) = n - 1
      /\ \A k \in 1 .. n - 1 : t[k] = r[Slot(Plus(i, 1) + k - 1)]
  <2>1. n - 1 \in Nat
    BY <1>1
  <2> QED BY <1>1, <2>1, NamedType
<1> HIDE DEF s, t
<1>3. s # <<>>
  BY <1>1, <1>2
<1>4. /\ Tail(s) \in Seq(Desc) /\ Len(Tail(s)) = n - 1
      /\ \A k \in 1 .. n - 1 : Tail(s)[k] = s[k + 1]
  BY <1>2, <1>3, HeadTailProperties
<1>5. ASSUME NEW k \in 1 .. n - 1 PROVE t[k] = Tail(s)[k]
  <2>1. k - 1 \in Nat /\ k + 1 \in 1 .. n /\ i + 1 + (k - 1) = i + (k + 1) - 1
    BY <1>1
  <2>2. Slot(Plus(i, 1) + (k - 1)) = Slot(i + 1 + (k - 1))
    BY <2>1, SlotShift
  <2>3. Plus(i, 1) + (k - 1) = Plus(i, 1) + k - 1
    BY <1>1 DEF Idx
  <2>4. t[k] = r[Slot(i + (k + 1) - 1)]
    BY <1>2, <2>1, <2>2, <2>3
  <2> QED BY <1>2, <1>4, <2>1, <2>4
<1>6. t = Tail(s)
  BY <1>2, <1>4, <1>5, SeqEqual
<1>7. s[1] = r[Slot(i)] /\ s[1] \in Desc
  <2>1. 1 \in 1 .. n /\ i + 1 - 1 = i
    BY <1>1
  <2> QED BY <1>2, <2>1, ElementOfSeq
<1> QED BY <1>1, <1>3, <1>6, <1>7 DEF n, s, t

LEMMA NamedHeads ==
  ASSUME NEW s \in Seq(Desc)
  PROVE  /\ Range(s) \subseteq Desc
         /\ Range(s) = {s[k] : k \in 1 .. Len(s)}
BY RangeOfSeq, RangeEquality

LEMMA AppendHead ==
  ASSUME NEW s \in Seq(Desc), NEW h \in Desc
  PROVE  /\ Range(Append(s, h)) = Range(s) \cup {h}
         /\ Distinct(s) /\ h \notin Range(s) => Distinct(Append(s, h))
<1> DEFINE n == Len(s)
           t == Append(s, h)
<1>1. /\ n \in Nat /\ t \in Seq(Desc) /\ Len(t) = n + 1
      /\ \A k \in 1 .. n : t[k] = s[k]
      /\ t[n + 1] = h
  OBVIOUS
<1> HIDE DEF t, n
<1>2. Range(s) = {s[k] : k \in 1 .. n}
  BY NamedHeads DEF n
<1>3. Range(t) = {t[k] : k \in 1 .. n + 1}
  BY <1>1, NamedHeads
<1>4. \A k \in 1 .. n + 1 : k = n + 1 \/ k \in 1 .. n
  BY <1>1
<1>5. n + 1 \in 1 .. n + 1 /\ \A k \in 1 .. n : k \in 1 .. n + 1
  BY <1>1
<1>6. ASSUME NEW x PROVE x \in Range(t) <=> x \in Range(s) \cup {h}
  BY <1>1, <1>2, <1>3, <1>4, <1>5
<1>7. Range(t) = Range(s) \cup {h}
  BY <1>6
<1>8. ASSUME Distinct(s), h \notin Range(s), NEW j \in 1 .. n + 1, NEW k \in 1 .. n + 1,
             t[j] = t[k]
      PROVE  j = k
  <2>1. \A m \in 1 .. n : t[m] # h
    BY <1>1, <1>2, <1>8
  <2>2. CASE j \in 1 .. n /\ k \in 1 .. n
    BY <1>1, <1>8, <2>2 DEF Distinct, n
  <2>3. CASE ~(j \in 1 .. n /\ k \in 1 .. n)
    BY <1>1, <1>4, <1>8, <2>1, <2>3
  <2> QED BY <2>2, <2>3
<1> QED BY <1>1, <1>7, <1>8 DEF Distinct, t

LEMMA DropHead ==
  ASSUME NEW s \in Seq(Desc), s # <<>>, Distinct(s)
  PROVE  /\ Range(Tail(s)) = Range(s) \ {s[1]}
         /\ s[1] \in Range(s)
         /\ Distinct(Tail(s))
<1> DEFINE n == Len(s)
           t == Tail(s)
<1>1. /\ n \in Nat /\ n >= 1 /\ t \in Seq(Desc) /\ Len(t) = n - 1
      /\ \A k \in 1 .. n - 1 : t[k] = s[k + 1]
  BY HeadTailProperties, EmptySeq
<1>2. \A j, k \in 1 .. n : s[j] = s[k] => j = k
  BY DEF Distinct
<1> HIDE DEF t, n
<1>3. Range(s) = {s[k] : k \in 1 .. n}
  BY NamedHeads DEF n
<1>4. Range(t) = {t[k] : k \in 1 .. n - 1}
  BY <1>1, NamedHeads
<1>5. 1 \in 1 .. n /\ \A k \in 1 .. n - 1 : k + 1 \in 1 .. n /\ k + 1 # 1
  BY <1>1
<1>6. \A k \in 1 .. n : k # 1 => k - 1 \in 1 .. n - 1 /\ (k - 1) + 1 = k
  BY <1>1
<1>7. ASSUME NEW x \in Range(t) PROVE x \in Range(s) /\ x # s[1]
  <2>1. PICK k \in 1 .. n - 1 : t[k] = x
    BY <1>4
  <2>2. x = s[k + 1] /\ k + 1 \in 1 .. n /\ k + 1 # 1
    BY <1>1, <1>5, <2>1
  <2> QED BY <1>2, <1>3, <1>5, <2>2
<1>8. ASSUME NEW x \in Range(s), x # s[1] PROVE x \in Range(t)
  <2>1. PICK k \in 1 .. n : s[k] = x
    BY <1>3
  <2>2. k - 1 \in 1 .. n - 1 /\ (k - 1) + 1 = k
    BY <1>6, <1>8, <2>1
  <2>3. t[k - 1] = x
    BY <1>1, <2>1, <2>2
  <2> QED BY <1>4, <2>2, <2>3
<1>9. Range(t) = Range(s) \ {s[1]}
  BY <1>7, <1>8
<1>10. ASSUME NEW j \in 1 .. n - 1, NEW k \in 1 .. n - 1, t[j] = t[k] PROVE j = k
  <2>1. j + 1 = k + 1
    BY <1>1, <1>2, <1>5, <1>10
  <2> QED BY <1>1, <2>1
<1>11. Distinct(t)
  BY <1>1, <1>10 DEF Distinct
<1>12. s[1] \in Range(s)
  BY <1>3, <1>5
<1> QED BY <1>9, <1>11, <1>12 DEF t

\* Heads that are all different, and not the head of another chain or free
\* descriptor x, leave room in a ring.
LEMMA WindowFits ==
  ASSUME NEW s \in Seq(Desc), Distinct(s), NEW x \in Desc, x \notin Range(s)
  PROVE  Len(s) < Num
<1> DEFINE n == Len(s)
<1>1. n \in Nat /\ s \in [1 .. n -> Desc] /\ \A k \in 1 .. n : s[k] \in Desc \ {x}
  BY LenProperties, NamedHeads
<1>2. s \in [1 .. n -> Desc \ {x}]
  BY <1>1
<1>3. s \in Injection(1 .. n, Desc \ {x})
  BY <1>2 DEF Distinct, Injection, IsInjective
<1>4. IsFiniteSet(Desc) /\ Cardinality(Desc) = Num
  BY FS_Interval, RingType DEF Desc
<1>5. IsFiniteSet(Desc \ {x}) /\ Cardinality(Desc \ {x}) = Num - 1
  BY <1>4, FS_RemoveElement
<1>6. Cardinality(1 .. n) = n
  BY <1>1, FS_Interval
<1>7. n <= Num - 1
  BY <1>3, <1>5, <1>6, FS_Injection
<1> QED BY <1>1, <1>7, RingType

-----------------------------------------------------------------------------
(***************************************************************************)
(* The inductive invariant.                                                *)
(***************************************************************************)
\* Each head is in one place.
HeadsApart ==
  /\ Distinct(Added) /\ Distinct(Finished)
  /\ Range(Added) \cap held = {}
  /\ Range(Finished) \cap (Range(Added) \cup held) = {}
  /\ Filling \cap (Range(Added) \cup held \cup Range(Finished)) = {}

\* The heads in flight are those of the buffers lent.
Heads(chain, on_loan) == {chain[b][1] : b \in on_loan}

SharedOut ==
  \E free, chain : /\ Shape(desc, free_head, num_free, lent, free, chain)
                   /\ InFlight = Heads(chain, lent)

\* Memory is not ahead of the driver.
Behind == Apart(dev_idx, avail_idx) <= Apart(dev_idx, avail_idx_shadow)

\* The number of buffers added since the last kick is kept below the range of
\* the indices.
RoomToKick == pc # "kick" => num_added < IdxMod - 1

\* The heads the device has or can see, and that it reads of them in memory what
\* the driver has stored
Shown == {Added[k] : k \in 1 .. Apart(dev_idx, avail_idx)} \cup held
InMemory ==
  /\ \A k \in 1 .. Apart(dev_idx, avail_idx) :
       seen.ring[Slot(dev_idx + k - 1)] = Added[k]
  /\ \A h \in Shown : \A k \in DOMAIN Chain(h) :
       seen.desc[Chain(h)[k]] = desc[Chain(h)[k]]

IInv == TypeOK /\ RoomToKick /\ Behind /\ HeadsApart /\ SharedOut /\ InMemory

LEMMA RingFacts ==
  ASSUME TypeOK
  PROVE  /\ desc \in Descs /\ free_head \in Desc
         /\ num_free \in Nat /\ num_free <= Num
         /\ ring \in [Desc -> Desc] /\ used \in [Desc -> Desc]
         /\ avail_idx_shadow \in Idx /\ avail_idx \in Idx /\ last_used_idx \in Idx
         /\ used_idx \in Idx /\ dev_idx \in Idx /\ num_added \in Idx
         /\ held \subseteq Desc /\ lent \subseteq Buffers
         /\ Added \in Seq(Desc) /\ Len(Added) = Apart(dev_idx, avail_idx_shadow)
         /\ Finished \in Seq(Desc) /\ Len(Finished) = Apart(last_used_idx, used_idx)
         /\ Range(Added) \subseteq Desc /\ Range(Finished) \subseteq Desc
         /\ seen.desc \in Descs /\ seen.ring \in [Desc -> Desc]
<1>1. /\ desc \in Descs /\ free_head \in Desc
      /\ num_free \in Nat /\ num_free <= Num
      /\ ring \in [Desc -> Desc] /\ used \in [Desc -> Desc]
      /\ avail_idx_shadow \in Idx /\ avail_idx \in Idx /\ last_used_idx \in Idx
      /\ used_idx \in Idx /\ dev_idx \in Idx /\ num_added \in Idx
      /\ held \subseteq Desc /\ lent \subseteq Buffers
  BY RingType DEF TypeOK
<1>2. Apart(dev_idx, avail_idx_shadow) \in Nat /\ Apart(last_used_idx, used_idx) \in Nat
  BY <1>1, ApartValue
<1>3. /\ Added \in Seq(Desc) /\ Len(Added) = Apart(dev_idx, avail_idx_shadow)
      /\ Finished \in Seq(Desc) /\ Len(Finished) = Apart(last_used_idx, used_idx)
  BY <1>1, <1>2, NamedType DEF Added, Finished
<1>4. Range(Added) \subseteq Desc /\ Range(Finished) \subseteq Desc
  BY <1>3, NamedHeads
<1>5. seen.desc \in Descs /\ seen.ring \in [Desc -> Desc]
  BY DEF TypeOK
<1> QED BY <1>1, <1>3, <1>4, <1>5

LEMMA ApartInjective ==
  ASSUME NEW i \in Idx, NEW j \in Idx, NEW k \in Idx, Apart(i, j) = Apart(i, k)
  PROVE  j = k
<1>1. /\ i \in 0 .. IdxMod - 1 /\ j \in 0 .. IdxMod - 1 /\ k \in 0 .. IdxMod - 1
      /\ Apart(i, j) = IF i <= j THEN j - i ELSE j - i + IdxMod
      /\ Apart(i, k) = IF i <= k THEN k - i ELSE k - i + IdxMod
      /\ IdxMod \in Nat
  BY ApartValue, RingType DEF Idx
<1>2. (IF i <= j THEN j - i ELSE j - i + IdxMod) = (IF i <= k THEN k - i ELSE k - i + IdxMod)
  BY <1>1
<1>3. CASE i <= j /\ i <= k
  BY <1>1, <1>2, <1>3
<1>4. CASE i <= j /\ ~(i <= k)
  BY <1>1, <1>2, <1>4
<1>5. CASE ~(i <= j) /\ i <= k
  BY <1>1, <1>2, <1>5
<1>6. CASE ~(i <= j) /\ ~(i <= k)
  BY <1>1, <1>2, <1>6
<1> QED BY <1>3, <1>4, <1>5, <1>6

LEMMA InvInit == Init => IInv
<1> SUFFICES ASSUME Init PROVE IInv
  OBVIOUS
<1>1. 0 \in Idx /\ 0 \in Desc /\ IdxMod - 1 > 0
  BY RingType DEF Idx, Desc
<1>2. TypeOK
  <2>1. ASSUME NEW d \in Desc PROVE (IF d = Num - 1 THEN 0 ELSE d + 1) \in Desc
    BY RingType DEF Desc
  <2>2. desc \in Descs
    BY <2>1 DEF Init, Descs
  <2>3. Num \in 0 .. Num
    BY RingType
  <2>4. ring \in [Desc -> Desc] /\ used \in [Desc -> Desc]
    BY <1>1 DEF Init
  <2>5. seen = [desc |-> desc, ring |-> ring]
    BY DEF Init
  <2>6. seen \in [desc : Descs, ring : [Desc -> Desc]]
    BY <2>2, <2>4, <2>5
  <2>7. /\ free_head = 0 /\ num_free = Num /\ avail_idx_shadow = 0 /\ num_added = 0
        /\ last_used_idx = 0 /\ avail_idx = 0 /\ event \in BOOLEAN /\ pc = "ready"
        /\ lent = {} /\ used_idx = 0 /\ avail_event = 0 /\ no_notify = FALSE
        /\ dev_idx = 0 /\ held = {} /\ dev = "poll" /\ notified = FALSE /\ in_time = TRUE
    BY DEF Init
  <2> QED BY <1>1, <2>2, <2>3, <2>4, <2>6, <2>7 DEF TypeOK
<1>3. RoomToKick
  BY <1>1 DEF Init, RoomToKick
<1>4. Apart(0, 0) = 0
  BY <1>1, ApartAfter
<1>5. Behind
  BY <1>4 DEF Init, Behind
<1>6. Added = <<>> /\ Finished = <<>> /\ Range(Added) = {} /\ Range(Finished) = {}
  <2>1. Len(Added) = 0 /\ Len(Finished) = 0 /\ Added \in Seq(Desc) /\ Finished \in Seq(Desc)
    BY <1>2, <1>4, RingFacts DEF Init
  <2>2. Added = <<>> /\ Finished = <<>>
    BY <2>1, EmptySeq
  <2>3. Range(Added) = {} /\ Range(Finished) = {}
    BY <2>2 DEF Range
  <2> QED BY <2>2, <2>3
<1>7. HeadsApart
  BY <1>6 DEF Init, HeadsApart, Distinct, Filling
<1>8. SharedOut
  <2> DEFINE free == [k \in 1 .. Num |-> k - 1]
             chain == [b \in Buffers |-> <<>>]
  <2>1. free \in [1 .. Num -> Desc] /\ free[1] = 0
    BY RingType DEF Desc
  <2>2. ASSUME NEW k \in 1 .. Num - 1 PROVE desc[free[k]].next = free[k + 1]
    <3>1. k \in 1 .. Num /\ k + 1 \in 1 .. Num /\ k - 1 \in Desc /\ k - 1 # Num - 1
      BY RingType DEF Desc
    <3>2. desc[k - 1].next = (k - 1) + 1
      BY <3>1 DEF Init
    <3> QED BY <3>1, <3>2
  <2>3. \A d \in Desc : \E j \in 1 .. Num : d = free[j]
    <3> TAKE d \in Desc
    <3>1. d + 1 \in 1 .. Num /\ free[d + 1] = d
      BY RingType DEF Desc
    <3> QED BY <3>1
  <2>4. \A j, k \in 1 .. Num : free[j] = free[k] => j = k
    BY RingType
  <2>5. Shape(desc, 0, Num, {}, free, chain)
    <3> HIDE DEF free
    <3> QED BY <2>1, <2>2, <2>3, <2>4 DEF Shape, Linked
  <2>6. InFlight = Heads(chain, {})
    BY <1>6 DEF Init, InFlight, Filling, Heads
  <2> HIDE DEF free, chain
  <2> QED BY <2>5, <2>6 DEF Init, SharedOut
<1>9. InMemory
  BY <1>4 DEF Init, InMemory, Shown
<1> QED BY <1>2, <1>3, <1>5, <1>7, <1>8, <1>9 DEF IInv

\* The heads of the chains, as the descriptors name their buffers
LEMMA HeadFacts ==
  ASSUME TypeOK, NEW free, NEW chain,
         Shape(desc, free_head, num_free, lent, free, chain)
  PROVE  /\ \A b \in lent : chain[b][1] \in Desc /\ desc[chain[b][1]].addr = <<b, 1>>
         /\ num_free > 0 => free_head \notin Heads(chain, lent)
<1>1. ASSUME NEW b \in lent
      PROVE  /\ chain[b][1] \in Desc /\ desc[chain[b][1]].addr = <<b, 1>>
             /\ num_free > 0 => chain[b][1] # free_head
  <2>1. b \in Buffers
    BY RingFacts
  <2>2. 1 \in 1 .. Size[b]
    BY <2>1, SizeType
  <2>3. /\ chain[b] \in [1 .. Size[b] -> Desc]
        /\ \A k \in 1 .. Size[b] : desc[chain[b][k]].addr = <<b, k>>
        /\ \A k \in 1 .. Size[b], j \in 1 .. num_free : chain[b][k] # free[j]
    BY DEF Shape, Linked
  <2>4. num_free > 0 => 1 \in 1 .. num_free /\ free[1] = free_head
    BY RingFacts DEF Shape
  <2> QED BY <2>2, <2>3, <2>4
<1> QED BY <1>1 DEF Heads

\* Where a step leaves the lists and the rings as they are
LEMMA Undisturbed ==
  ASSUME HeadsApart, SharedOut, Filling' = Filling,
         UNCHANGED <<desc, free_head, num_free, lent, ring, avail_idx_shadow, dev_idx,
                     used, used_idx, last_used_idx, held>>
  PROVE  HeadsApart' /\ SharedOut' /\ Added' = Added /\ Finished' = Finished
<1>1. Added' = Added /\ Finished' = Finished
  BY DEF Added, Finished, Named, Apart, Slot
<1>2. HeadsApart'
  BY <1>1 DEF HeadsApart, Distinct
<1>3. InFlight' = InFlight
  BY <1>1 DEF InFlight
<1>4. SharedOut'
  BY <1>3 DEF SharedOut
<1> QED BY <1>1, <1>2, <1>4

\* The heads shown to the device are first among those added, and in flight.
LEMMA ShownInFlight ==
  ASSUME TypeOK, Behind
  PROVE  /\ Apart(dev_idx, avail_idx) \in Nat
         /\ 1 .. Apart(dev_idx, avail_idx) \subseteq 1 .. Len(Added)
         /\ \A k \in 1 .. Apart(dev_idx, avail_idx) :
              Added[k] \in Range(Added) /\ Added[k] = ring[Slot(dev_idx + k - 1)]
         /\ Shown \subseteq Range(Added) \cup held /\ Shown \subseteq InFlight
<1> DEFINE n == Apart(dev_idx, avail_idx)
           m == Apart(dev_idx, avail_idx_shadow)
<1>1. /\ dev_idx \in Idx /\ avail_idx \in Idx /\ avail_idx_shadow \in Idx
      /\ ring \in [Desc -> Desc] /\ Added \in Seq(Desc) /\ Len(Added) = m
  BY RingFacts
<1>2. n \in Nat /\ m \in Nat /\ n <= m
  BY <1>1, ApartValue DEF Behind
<1>3. \A k \in 1 .. m : Added[k] = ring[Slot(dev_idx + k - 1)]
  BY <1>1, <1>2, NamedType DEF Added
<1> HIDE DEF n, m
<1>4. 1 .. n \subseteq 1 .. m
  BY <1>2
<1>5. \A k \in 1 .. m : Added[k] \in Range(Added)
  BY <1>1, NamedHeads
<1>6. Shown \subseteq Range(Added) \cup held
  BY <1>4, <1>5 DEF Shown, n
<1>7. Shown \subseteq InFlight
  BY <1>6 DEF InFlight
<1> QED BY <1>1, <1>2, <1>3, <1>4, <1>5, <1>6, <1>7 DEF n

\* Where a step leaves memory, and what the driver stored for the device, alone
LEMMA MemoryKept ==
  ASSUME InMemory, UNCHANGED <<seen, dev_idx, avail_idx>>, held' \subseteq held,
         \A k \in 1 .. Apart(dev_idx, avail_idx) : Added'[k] = Added[k],
         \A h \in Shown :
           /\ ChainIn(desc', h) = Chain(h)
           /\ \A k \in DOMAIN Chain(h) : desc'[Chain(h)[k]] = desc[Chain(h)[k]]
  PROVE  InMemory'
<1>1. Apart(dev_idx, avail_idx)' = Apart(dev_idx, avail_idx)
  OBVIOUS
<1>2. Shown' \subseteq Shown
  BY <1>1 DEF Shown
<1>3. \A k \in 1 .. Apart(dev_idx, avail_idx)' :
        seen'.ring[Slot(dev_idx' + k - 1)] = Added'[k]
  BY <1>1 DEF InMemory
<1>4. ASSUME NEW h \in Shown', NEW k \in DOMAIN Chain(h)'
      PROVE  seen'.desc[Chain(h)'[k]] = desc'[Chain(h)'[k]]
  <2>1. h \in Shown /\ Chain(h)' = Chain(h) /\ k \in DOMAIN Chain(h)
    BY <1>2, <1>4, Threads
  <2>2. seen.desc[Chain(h)[k]] = desc[Chain(h)[k]]
    BY <2>1 DEF InMemory
  <2> QED BY <2>1, <2>2
<1>5. \A k \in 1 .. Apart(dev_idx, avail_idx)' :
        (seen.ring[Slot(dev_idx + k - 1)])' = (Added[k])'
  BY <1>3 DEF Slot
<1> QED BY <1>4, <1>5 DEF InMemory

LEMMA MemoryAlone ==
  ASSUME InMemory, UNCHANGED <<desc, seen, dev_idx, avail_idx>>, held' \subseteq held,
         \A k \in 1 .. Apart(dev_idx, avail_idx) : Added'[k] = Added[k]
  PROVE  InMemory'
<1>1. \A h : ChainIn(desc', h) = Chain(h)
  BY Threads
<1> QED BY <1>1, MemoryKept

\* ... and the chains the code walks from them
LEMMA HeadsFollowed ==
  ASSUME TypeOK, NEW free, NEW chain,
         Shape(desc, free_head, num_free, lent, free, chain), NEW b \in lent
  PROVE  /\ Ends(chain[b][1])
         /\ Chain(chain[b][1]) = chain[b]
         /\ chain[b] \in [1 .. Size[b] -> Desc]
         /\ Range(chain[b]) = {chain[b][k] : k \in 1 .. Size[b]}
<1>1. /\ desc \in Descs /\ free_head \in Desc /\ num_free \in Nat
      /\ lent \in SUBSET Buffers
  BY RingFacts
<1>2. EndsIn(desc, chain[b][1]) /\ ChainIn(desc, chain[b][1]) = chain[b]
  BY <1>1, ChainFound
<1>3. chain[b] \in [1 .. Size[b] -> Desc]
  BY DEF Shape, Linked
<1> QED BY <1>2, <1>3, Threads DEF Range

\* virtqueue_add(), its first part: the head was free, so that it is in no
\* ring, and there is a slot for it.
LEMMA FillStep ==
  ASSUME IInv, NEW b \in Buffers, Fill(b)
  PROVE  /\ IInv' /\ Added' = Added /\ Finished' = Finished
         /\ \A h \in InFlight : desc'[h].addr = desc[h].addr
<1> DEFINE j == avail_idx_shadow
<1>1. TypeOK /\ RoomToKick /\ Behind /\ HeadsApart /\ SharedOut /\ InMemory
  BY DEF IInv
<1>2. /\ pc = "ready" /\ b \notin lent /\ num_free >= Size[b]
      /\ free_head' = From(free_head)[Size[b]]
      /\ num_free' = num_free - Size[b]
      /\ ring' = [ring EXCEPT ![Slot(j)] = free_head]
      /\ lent' = lent \cup {b} /\ pc' = "filled"
      /\ UNCHANGED <<avail_idx_shadow, num_added, last_used_idx, event, avail_idx,
                     seen, used, used_idx, avail_event, no_notify, dev_idx, held, dev,
                     notified, in_time>>
  BY DEF Fill, memoryVars, deviceVars
<1>3. desc' = FilledIn(desc, free_head, b)
  BY DEF Fill, FilledIn, From, FromIn
<1>4. PICK free, chain : /\ Shape(desc, free_head, num_free, lent, free, chain)
                         /\ InFlight = Heads(chain, lent)
  BY <1>1 DEF SharedOut
<1>5. /\ desc \in Descs /\ free_head \in Desc /\ num_free \in Nat /\ num_free <= Num
      /\ ring \in [Desc -> Desc] /\ dev_idx \in Idx /\ j \in Idx /\ lent \subseteq Buffers
      /\ Added \in Seq(Desc) /\ Len(Added) = Apart(dev_idx, j)
      /\ Size[b] \in Nat /\ Size[b] >= 1
  BY <1>1, RingFacts, SizeType
<1>6. /\ desc' \in Descs /\ free_head' \in Desc
      /\ Reshaped(desc', free_head', num_free', lent, chain, b, free_head)
  <2>1. free_head' = FromIn(desc, free_head)[Size[b]]
    BY <1>2, Threads
  <2>2. b \in Buffers \ lent /\ Size[b] <= num_free /\ lent \in SUBSET Buffers
          /\ desc \in Descs /\ free_head \in Desc /\ num_free \in Nat
    BY <1>2, <1>5
  <2>3. /\ FilledIn(desc, free_head, b) \in Descs
        /\ FromIn(desc, free_head)[Size[b]] \in Desc
        /\ Reshaped(FilledIn(desc, free_head, b), FromIn(desc, free_head)[Size[b]],
                    num_free - Size[b], lent, chain, b, free_head)
    BY <1>4, <2>2, FillKeepsShape
  <2> QED BY <1>2, <1>3, <2>1, <2>3
<1>7. PICK free2, chain2 :
           /\ Shape(desc', free_head', num_free', lent', free2, chain2)
           /\ chain2[b][1] = free_head
           /\ \A c \in lent : chain2[c] = chain[c]
  BY <1>2, <1>6 DEF Reshaped
<1>8. free_head \notin InFlight
  BY <1>1, <1>2, <1>4, <1>5, HeadFacts
<1>9. /\ Range(Added) \subseteq InFlight /\ Range(Finished) \subseteq InFlight
      /\ held \subseteq InFlight /\ Filling = {}
  BY <1>2 DEF InFlight, Filling
<1>10. Apart(dev_idx, j) < Num
  <2>1. free_head \notin Range(Added) /\ Distinct(Added)
    BY <1>1, <1>8, <1>9 DEF HeadsApart
  <2> QED BY <1>5, <2>1, WindowFits
<1>11. /\ ring' \in [Desc -> Desc] /\ ring'[Slot(j)] = free_head
       /\ Named(ring', dev_idx, Apart(dev_idx, j)) = Named(ring, dev_idx, Apart(dev_idx, j))
  <2>1. Slot(j) \in Desc
    BY <1>5, SlotType DEF Idx
  <2>2. /\ ring' \in [Desc -> Desc] /\ ring'[Slot(j)] = free_head
        /\ \A d \in Desc : d # Slot(j) => ring'[d] = ring[d]
    BY <1>2, <1>5, <2>1
  <2> QED BY <1>5, <1>10, <2>2, WindowGrows
<1>12. Added' = Added
  BY <1>2, <1>11 DEF Added
<1>13. Finished' = Finished
  BY <1>2 DEF Finished
<1>14. Filling' = {free_head}
  BY <1>2, <1>11 DEF Filling
<1>15. TypeOK'
  <2>1. num_free' \in 0 .. Num
    BY <1>2, <1>5, RingType
  <2>2. lent' \subseteq Buffers
    BY <1>2, <1>5
  <2> QED BY <1>1, <1>2, <1>6, <1>11, <2>1, <2>2 DEF TypeOK
<1>16. RoomToKick' /\ Behind'
  BY <1>1, <1>2 DEF RoomToKick, Behind
<1>17. HeadsApart'
  <2>1. held' = held
    BY <1>2
  <2> QED BY <1>1, <1>8, <1>9, <1>12, <1>13, <1>14, <2>1 DEF HeadsApart, Distinct
<1>18. SharedOut'
  <2>1. InFlight' = InFlight \cup {free_head}
    <3>1. held' = held
      BY <1>2
    <3> QED BY <1>9, <1>12, <1>13, <1>14, <3>1 DEF InFlight
  <2>2. Heads(chain2, lent') = Heads(chain, lent) \cup {free_head}
    BY <1>2, <1>7 DEF Heads
  <2> QED BY <1>4, <1>7, <2>1, <2>2 DEF SharedOut
<1>19. ASSUME NEW h \in InFlight
       PROVE  /\ desc'[h].addr = desc[h].addr
              /\ ChainIn(desc', h) = Chain(h)
              /\ \A k \in DOMAIN Chain(h) : desc'[Chain(h)[k]] = desc[Chain(h)[k]]
  <2>1. PICK c \in lent : h = chain[c][1]
    BY <1>4 DEF Heads
  <2>2. c \in lent' /\ h = chain2[c][1] /\ 1 \in 1 .. Size[c]
    <3>1. c \in Buffers
      BY <1>5
    <3> QED BY <1>2, <1>7, <2>1, <3>1, SizeType
  <2>3. desc'[h].addr = <<c, 1>>
    BY <1>7, <2>2 DEF Shape
  <2>4. desc'[h].addr = desc[h].addr
    BY <1>1, <1>4, <2>1, <2>3, HeadFacts
  <2>5. Chain(h) = chain[c] /\ chain[c] \in [1 .. Size[c] -> Desc]
    BY <1>1, <1>4, <2>1, HeadsFollowed
  <2>6. /\ ChainIn(desc', h) = chain[c]
        /\ \A k \in 1 .. Size[c] : desc'[chain[c][k]] = desc[chain[c][k]]
    <3>1. lent' \in SUBSET Buffers /\ num_free' \in Nat
      BY <1>2, <1>5
    <3>2. \A d \in Desc : FilledIn(desc, free_head, b)[d].next = desc[d].next
      BY <1>5, FillLinks
    <3>3. \A d \in Desc : desc'[d].next = desc[d].next
      BY <1>3, <3>2
    <3>4. desc' \in Descs /\ free_head' \in Desc /\ desc \in Descs
      BY <1>5, <1>6
    <3>5. Shape(desc', free_head', num_free', lent', free2, chain2) /\ c \in lent'
      BY <1>7, <2>2
    <3>6. ChainIn(desc', chain2[c][1]) = chain2[c]
      BY <3>1, <3>4, <3>5, ChainFound
    <3>7. \A k \in 1 .. Size[c] : /\ desc'[chain2[c][k]].addr = <<c, k>>
                                  /\ desc'[chain2[c][k]].more <=> k < Size[c]
      BY <3>5, ShapeOfChain
    <3>8. /\ chain[c] \in [1 .. Size[c] -> Desc]
          /\ \A k \in 1 .. Size[c] : /\ desc[chain[c][k]].addr = <<c, k>>
                                     /\ desc[chain[c][k]].more <=> k < Size[c]
      BY <1>4, <2>1, ShapeOfChain
    <3>9. chain2[c] = chain[c]
      BY <1>7, <2>1
    <3>10. \A k \in 1 .. Size[c] : /\ desc'[chain[c][k]].addr = <<c, k>>
                                   /\ desc'[chain[c][k]].more <=> k < Size[c]
      BY <3>7, <3>9
    <3>11. \A k \in 1 .. Size[c] : desc'[chain[c][k]] = desc[chain[c][k]]
      <4> SUFFICES ASSUME NEW k \in 1 .. Size[c]
                   PROVE  desc'[chain[c][k]] = desc[chain[c][k]]
        OBVIOUS
      <4>1. PICK d \in Desc : d = chain[c][k]
        BY <3>8
      <4>2. /\ desc'[d].addr = desc[d].addr /\ desc'[d].next = desc[d].next
            /\ desc'[d].more <=> desc[d].more
        BY <3>3, <3>8, <3>10, <4>1
      <4>3. desc'[d] = desc[d]
        BY <3>4, <4>2, SameEntry
      <4> QED BY <4>1, <4>3
    <3> QED BY <2>1, <3>6, <3>9, <3>11
  <2>7. DOMAIN Chain(h) = 1 .. Size[c] /\ \A k : Chain(h)[k] = chain[c][k]
    BY <2>5
  <2>8. \A k \in DOMAIN Chain(h) : desc'[Chain(h)[k]] = desc[Chain(h)[k]]
    BY <2>6, <2>7
  <2>9. ChainIn(desc', h) = Chain(h)
    BY <2>5, <2>6
  <2> QED BY <2>4, <2>8, <2>9
<1>20. InMemory'
  <2>1. UNCHANGED <<seen, dev_idx, avail_idx>> /\ held' \subseteq held
    BY <1>2
  <2>2. \A k \in 1 .. Apart(dev_idx, avail_idx) : Added'[k] = Added[k]
    BY <1>12
  <2> QED BY <1>1, <1>19, <2>1, <2>2, ShownInFlight, MemoryKept
<1> QED BY <1>12, <1>13, <1>15, <1>16, <1>17, <1>18, <1>19, <1>20 DEF IInv

\* ... and its second part, with which the driver counts the buffer
LEMMA PublishStep ==
  ASSUME IInv, Publish
  PROVE  /\ IInv' /\ Finished' = Finished
         /\ \E h \in Filling : Added' = Append(Added, h)
<1> DEFINE j == avail_idx_shadow
           h == ring[Slot(j)]
<1>1. TypeOK /\ RoomToKick /\ Behind /\ HeadsApart /\ SharedOut /\ InMemory
  BY DEF IInv
<1>2. /\ pc = "filled" /\ avail_idx_shadow' = Plus(j, 1) /\ num_added' = num_added + 1
      /\ pc' = IF num_added' = IdxMod - 1 THEN "kick" ELSE "ready"
      /\ UNCHANGED <<desc, free_head, num_free, ring, last_used_idx, event, lent,
                     avail_idx, seen, used, used_idx, avail_event, no_notify, dev_idx,
                     held, dev, notified, in_time>>
  BY DEF Publish, memoryVars, deviceVars
<1>3. /\ ring \in [Desc -> Desc] /\ dev_idx \in Idx /\ j \in Idx /\ num_added \in Idx
      /\ avail_idx \in Idx
      /\ Added \in Seq(Desc) /\ Len(Added) = Apart(dev_idx, j)
  BY <1>1, RingFacts
<1>4. h \in Desc
  <2>1. Slot(j) \in Desc
    BY <1>3, SlotType DEF Idx
  <2> QED BY <1>3, <2>1
<1>5. Filling = {h} /\ Filling' = {}
  <2>1. pc' # "filled"
    BY <1>2
  <2> QED BY <1>2, <2>1 DEF Filling
<1>6. h \notin Range(Added) /\ h \notin held /\ h \notin Range(Finished)
        /\ Distinct(Added) /\ Distinct(Finished)
  BY <1>1, <1>5 DEF HeadsApart
<1>7. Apart(dev_idx, j) < Num
  BY <1>3, <1>4, <1>6, WindowFits
<1>8. ring[Slot(j)] = h
  OBVIOUS
<1> HIDE DEF h
<1>9. /\ Apart(dev_idx, Plus(j, 1)) = Apart(dev_idx, j) + 1
      /\ Named(ring, dev_idx, Apart(dev_idx, j) + 1)
           = Append(Named(ring, dev_idx, Apart(dev_idx, j)), h)
  BY <1>3, <1>4, <1>7, <1>8, WindowGrows
<1>10. Added' = Append(Added, h)
  BY <1>2, <1>9 DEF Added
<1>11. Finished' = Finished
  BY <1>2 DEF Finished
<1>12. Range(Added') = Range(Added) \cup {h} /\ Distinct(Added')
  BY <1>3, <1>4, <1>6, <1>10, AppendHead
<1>13. num_added' \in Idx /\ RoomToKick'
  BY <1>1, <1>2, <1>3, RingType DEF RoomToKick, Idx
<1>14. Behind'
  <2>1. Apart(dev_idx, avail_idx) \in Nat /\ Apart(dev_idx, j) \in Nat
          /\ Apart(dev_idx, avail_idx) <= Apart(dev_idx, j)
    BY <1>1, <1>3, ApartValue DEF Behind
  <2>2. Apart(dev_idx, avail_idx) <= Apart(dev_idx, Plus(j, 1))
    BY <1>9, <2>1
  <2> QED BY <1>2, <2>2 DEF Behind
<1>15. TypeOK'
  <2>1. avail_idx_shadow' \in Idx
    BY <1>2, <1>3, PlusValue
  <2>2. pc' \in {"ready", "filled", "kick"}
    BY <1>2
  <2> QED BY <1>1, <1>2, <1>13, <2>1, <2>2 DEF TypeOK
<1>16. HeadsApart'
  <2>1. held' = held
    BY <1>2
  <2>2. /\ Range(Added) \cap held = {}
        /\ Range(Finished) \cap (Range(Added) \cup held) = {}
    BY <1>1 DEF HeadsApart
  <2>3. Distinct(Finished')
    BY <1>6, <1>11
  <2> QED BY <1>5, <1>6, <1>11, <1>12, <2>1, <2>2, <2>3 DEF HeadsApart
<1>17. SharedOut'
  <2>1. InFlight' = InFlight
    <3>1. held' = held
      BY <1>2
    <3> QED BY <1>5, <1>11, <1>12, <3>1 DEF InFlight
  <2> QED BY <1>1, <1>2, <2>1 DEF SharedOut
<1>18. \E g \in Filling : Added' = Append(Added, g)
  BY <1>5, <1>10
<1>19. InMemory'
  <2>1. UNCHANGED <<desc, seen, dev_idx, avail_idx>> /\ held' \subseteq held
    BY <1>2
  <2>2. \A k \in 1 .. Len(Added) : Added'[k] = Added[k]
    BY <1>3, <1>4, <1>10
  <2>3. \A k \in 1 .. Apart(dev_idx, avail_idx) : Added'[k] = Added[k]
    BY <1>1, <2>2, ShownInFlight
  <2> QED BY <1>1, <2>1, <2>3, MemoryAlone
<1> QED BY <1>11, <1>13, <1>14, <1>15, <1>16, <1>17, <1>18, <1>19 DEF IInv

\* The stores that are in memory are those that are made.
LEMMA ArriveStep ==
  ASSUME IInv, Arrive
  PROVE  /\ IInv' /\ Added' = Added /\ Finished' = Finished
         /\ UNCHANGED <<desc, lent, held, dev_idx, avail_idx>>
<1>1. TypeOK /\ RoomToKick /\ Behind /\ HeadsApart /\ SharedOut /\ InMemory
  BY DEF IInv
<1>2. /\ seen' = [desc |-> desc, ring |-> ring]
      /\ UNCHANGED <<desc, free_head, num_free, ring, avail_idx_shadow, num_added,
                     last_used_idx, event, lent, avail_idx, pc, used, used_idx,
                     avail_event, no_notify, dev_idx, held, dev, notified, in_time>>
  BY DEF Arrive, driverVars, deviceVars
<1>3. Filling' = Filling
  BY <1>2 DEF Filling
<1>4. HeadsApart' /\ SharedOut' /\ Added' = Added /\ Finished' = Finished
  BY <1>1, <1>2, <1>3, Undisturbed
<1>5. TypeOK'
  <2>1. seen' \in [desc : Descs, ring : [Desc -> Desc]]
    BY <1>1, <1>2, RingFacts
  <2> QED BY <1>1, <1>2, <2>1 DEF TypeOK
<1>6. RoomToKick' /\ Behind'
  BY <1>1, <1>2 DEF RoomToKick, Behind
<1>7. InMemory'
  <2>1. \A k \in 1 .. Apart(dev_idx, avail_idx) : Added[k] = ring[Slot(dev_idx + k - 1)]
    BY <1>1, ShownInFlight
  <2>2. \A k \in 1 .. Apart(dev_idx, avail_idx)' :
          (seen.ring[Slot(dev_idx + k - 1)])' = Added'[k]
    BY <1>2, <1>4, <2>1 DEF Slot
  <2>3. seen'.desc = desc'
    BY <1>2
  <2>4. \A h \in Shown' : \A k \in DOMAIN Chain(h)' :
          seen'.desc[Chain(h)'[k]] = desc'[Chain(h)'[k]]
    BY <2>3
  <2> QED BY <2>2, <2>4 DEF InMemory
<1> QED BY <1>2, <1>4, <1>5, <1>6, <1>7 DEF IInv

\* A store that reaches memory brings it one buffer closer to the driver; what
\* the device sees with it is there already.
LEMMA DrainStep ==
  ASSUME KeepsOrder, IInv, Drain
  PROVE  /\ IInv' /\ Added' = Added /\ Finished' = Finished
         /\ Apart(dev_idx, avail_idx)' = Apart(dev_idx, avail_idx) + 1
         /\ Apart(dev_idx, avail_idx) < Len(Added)
<1>1. TypeOK /\ RoomToKick /\ Behind /\ HeadsApart /\ SharedOut /\ InMemory
  BY DEF IInv
<1>2. /\ avail_idx # avail_idx_shadow /\ avail_idx' = Plus(avail_idx, 1)
      /\ UNCHANGED <<desc, free_head, num_free, ring, avail_idx_shadow, num_added,
                     last_used_idx, event, lent, seen, pc, used, used_idx,
                     avail_event, no_notify, dev_idx, held, dev, notified, in_time>>
      /\ Arrived(Slot(avail_idx))
  BY DEF Drain, driverVars, deviceVars
<1>3. /\ avail_idx_shadow \in Idx /\ avail_idx \in Idx /\ dev_idx \in Idx
      /\ Len(Added) = Apart(dev_idx, avail_idx_shadow)
  BY <1>1, RingFacts
<1>4. Filling' = Filling
  BY <1>2 DEF Filling
<1>5. HeadsApart' /\ SharedOut' /\ Added' = Added /\ Finished' = Finished
  BY <1>1, <1>2, <1>4, Undisturbed
<1>6. /\ Apart(dev_idx, avail_idx) \in 0 .. IdxMod - 1
      /\ Apart(dev_idx, avail_idx_shadow) \in 0 .. IdxMod - 1
      /\ Apart(dev_idx, avail_idx) # Apart(dev_idx, avail_idx_shadow)
      /\ Apart(dev_idx, avail_idx) <= Apart(dev_idx, avail_idx_shadow)
  BY <1>1, <1>2, <1>3, ApartValue, ApartInjective DEF Behind
<1>7. /\ Apart(dev_idx, avail_idx) < Apart(dev_idx, avail_idx_shadow)
      /\ Apart(dev_idx, avail_idx) < IdxMod - 1
  BY <1>6, RingType
<1>8. Apart(dev_idx, Plus(avail_idx, 1)) = Apart(dev_idx, avail_idx) + 1
  BY <1>3, <1>7, ApartAfter
<1>9. Behind'
  <2>1. Apart(dev_idx, Plus(avail_idx, 1)) <= Apart(dev_idx, avail_idx_shadow)
    BY <1>6, <1>7, <1>8
  <2> QED BY <1>2, <2>1 DEF Behind
<1>10. TypeOK'
  <2>1. avail_idx' \in Idx
    BY <1>2, <1>3, PlusValue
  <2> QED BY <1>1, <1>2, <2>1 DEF TypeOK
<1>11. RoomToKick'
  BY <1>1, <1>2 DEF RoomToKick
<1>12. Apart(dev_idx, avail_idx)' = Apart(dev_idx, Plus(avail_idx, 1))
  BY <1>2
<1>13. InMemory'
  <2> DEFINE n == Apart(dev_idx, avail_idx)
  <2>1. n \in Nat /\ n + 1 \in 1 .. Apart(dev_idx, avail_idx_shadow)
    BY <1>3, <1>6, <1>7
  <2>2. Slot(dev_idx + (n + 1) - 1) = Slot(avail_idx)
    <3>1. dev_idx \in Nat /\ dev_idx + (n + 1) - 1 = dev_idx + n
      BY <1>3, <2>1 DEF Idx
    <3> QED BY <1>3, <3>1, SlotOfEnd
  <2>3. Added[n + 1] = ring[Slot(avail_idx)]
    <3>1. ring \in [Desc -> Desc] /\ Apart(dev_idx, avail_idx_shadow) \in Nat
      BY <1>1, <1>6, RingFacts
    <3>2. Added[n + 1] = ring[Slot(dev_idx + (n + 1) - 1)]
      BY <1>3, <2>1, <3>1, NamedType DEF Added
    <3> QED BY <2>2, <3>2
  <2>4. /\ seen.ring[Slot(avail_idx)] = Added[n + 1]
        /\ \A k \in DOMAIN Chain(Added[n + 1]) :
             seen.desc[Chain(Added[n + 1])[k]] = desc[Chain(Added[n + 1])[k]]
    BY <1>2, <2>3 DEF Arrived
  <2> HIDE DEF n
  <2>5. \A k \in 1 .. n + 1 : k = n + 1 \/ k \in 1 .. n
    BY <2>1
  <2>6. \A k \in 1 .. n + 1 : seen.ring[Slot(dev_idx + k - 1)] = Added[k]
    <3>1. \A k \in 1 .. n : seen.ring[Slot(dev_idx + k - 1)] = Added[k]
      BY <1>1 DEF InMemory, n
    <3> QED BY <2>2, <2>4, <2>5, <3>1
  <2>7. Apart(dev_idx, avail_idx)' = n + 1
    BY <1>8, <1>12 DEF n
  <2>8. \A k \in 1 .. Apart(dev_idx, avail_idx)' :
          (seen.ring[Slot(dev_idx + k - 1)])' = Added'[k]
    BY <1>2, <1>5, <2>6, <2>7 DEF Slot
  <2>9. ASSUME NEW h \in Shown' PROVE h \in Shown \/ h = Added[n + 1]
    <3>1. h \in held \/ \E k \in 1 .. n + 1 : h = Added[k]
      BY <1>2, <1>5, <2>7, <2>9 DEF Shown
    <3> QED BY <2>5, <3>1 DEF Shown, n
  <2>10. ASSUME NEW h \in Shown', NEW k \in DOMAIN Chain(h)'
         PROVE  seen'.desc[Chain(h)'[k]] = desc'[Chain(h)'[k]]
    <3>1. Chain(h)' = Chain(h) /\ desc' = desc /\ seen' = seen
      BY <1>2, Threads
    <3>2. seen.desc[Chain(h)[k]] = desc[Chain(h)[k]]
      BY <1>1, <2>4, <2>9, <2>10, <3>1 DEF InMemory
    <3> QED BY <3>1, <3>2
  <2> QED BY <2>8, <2>10 DEF InMemory
<1> QED BY <1>3, <1>5, <1>7, <1>8, <1>9, <1>10, <1>11, <1>12, <1>13 DEF IInv

\* What notifications do to the ring: nothing
LEMMA QuietStep ==
  ASSUME IInv,
         Kick \/ Ask \/ Recheck \/ Wake \/ \E b \in Buffers : NoSpace(b)
  PROVE  /\ IInv' /\ Added' = Added /\ Finished' = Finished
         /\ UNCHANGED <<desc, lent, held, seen, dev_idx, avail_idx>>
<1>1. TypeOK /\ RoomToKick /\ Behind /\ HeadsApart /\ SharedOut /\ InMemory
  BY DEF IInv
<1>2. /\ UNCHANGED <<desc, free_head, num_free, ring, avail_idx_shadow, avail_idx,
                     last_used_idx, event, lent, seen, used, used_idx, dev_idx, held>>
      /\ num_added' \in {num_added, 0}
      /\ pc' = pc \/ (pc \in {"ready", "kick"} /\ pc' = "ready" /\ num_added' = 0)
      /\ num_added' = 0 \/ pc' = pc
      /\ avail_event' \in {avail_event, dev_idx}
      /\ dev' \in {dev, "poll", "asked", "sleep"}
  <2>1. CASE Kick
    BY <2>1 DEF Kick, memoryVars, deviceVars
  <2>2. CASE Ask
    BY <2>2 DEF Ask, driverVars, memoryVars
  <2>3. CASE Recheck
    BY <2>3 DEF Recheck, driverVars, memoryVars
  <2>4. CASE Wake
    BY <2>4 DEF Wake, driverVars, memoryVars
  <2>5. CASE \E b \in Buffers : NoSpace(b)
    BY <2>5 DEF NoSpace, driverVars, memoryVars, deviceVars
  <2> QED BY <2>1, <2>2, <2>3, <2>4, <2>5
<1>3. no_notify' \in BOOLEAN /\ notified' \in BOOLEAN /\ in_time' \in BOOLEAN
  <2>1. no_notify \in BOOLEAN /\ notified \in BOOLEAN /\ event \in BOOLEAN /\ in_time \in BOOLEAN
    BY <1>1 DEF TypeOK
  <2>2. CASE Kick
    <3>1. no_notify' = no_notify
      BY <2>2 DEF Kick, deviceVars
    <3>2. notified' \in BOOLEAN /\ in_time' \in BOOLEAN
      BY <2>2 DEF Kick
    <3> QED BY <2>1, <3>1, <3>2
  <2>3. CASE Ask
    BY <2>1, <2>3 DEF Ask
  <2>4. CASE Recheck
    BY <2>1, <2>4 DEF Recheck
  <2>5. CASE Wake
    BY <2>1, <2>5 DEF Wake
  <2>6. CASE \E b \in Buffers : NoSpace(b)
    <3>1. no_notify' = no_notify
      BY <2>6 DEF NoSpace, deviceVars
    <3>2. notified' \in BOOLEAN /\ in_time' = in_time
      BY <2>6 DEF NoSpace
    <3> QED BY <2>1, <3>1, <3>2
  <2> QED BY <2>2, <2>3, <2>4, <2>5, <2>6
<1>4. Filling' = Filling
  BY <1>2 DEF Filling
<1>5. HeadsApart' /\ SharedOut' /\ Added' = Added /\ Finished' = Finished
  BY <1>1, <1>2, <1>4, Undisturbed
<1>6. TypeOK'
  <2>1. num_added' \in Idx
    BY <1>1, <1>2, RingType DEF TypeOK, Idx
  <2>2. pc' \in {"ready", "filled", "kick"} /\ dev' \in {"poll", "asked", "sleep"}
    BY <1>1, <1>2 DEF TypeOK
  <2>3. avail_event' \in Idx
    BY <1>1, <1>2 DEF TypeOK
  <2> QED BY <1>1, <1>2, <1>3, <2>1, <2>2, <2>3 DEF TypeOK
<1>7. RoomToKick'
  BY <1>1, <1>2, RingType DEF RoomToKick
<1>8. Behind'
  BY <1>1, <1>2 DEF Behind
<1>9. InMemory'
  <2>1. UNCHANGED <<desc, seen, dev_idx, avail_idx>> /\ held' \subseteq held
    BY <1>2
  <2> QED BY <1>1, <1>5, <2>1, MemoryAlone
<1> QED BY <1>2, <1>5, <1>6, <1>7, <1>8, <1>9 DEF IInv

\* virtqueue_get_buf(): the chain walked is the one of a buffer lent, which goes
\* back to the free list as a whole.
LEMMA GetBufStep ==
  ASSUME IInv, GetBuf
  PROVE  /\ IInv' /\ Added' = Added
         /\ Finished # <<>> /\ Finished' = Tail(Finished)
         /\ \E b \in lent : /\ desc[Finished[1]].addr = <<b, 1>>
                            /\ lent' = lent \ {b}
         /\ \A h \in Desc : desc'[h].addr = desc[h].addr
<1> DEFINE head == used[Slot(last_used_idx)]
<1>1. TypeOK /\ RoomToKick /\ Behind /\ HeadsApart /\ SharedOut /\ InMemory
  BY DEF IInv
<1>2. /\ pc = "ready" /\ last_used_idx # used_idx
      /\ last_used_idx' = Plus(last_used_idx, 1)
      /\ desc' = [desc EXCEPT ![Chain(head)[Len(Chain(head))]].next = free_head]
      /\ free_head' = head
      /\ num_free' = num_free + Len(Chain(head))
      /\ lent' = lent \ {desc[head].addr[1]}
      /\ UNCHANGED <<ring, avail_idx_shadow, num_added, event, avail_idx, seen, pc,
                     used, used_idx, avail_event, no_notify, dev_idx, held, dev,
                     notified, in_time>>
  BY DEF GetBuf, memoryVars, deviceVars
<1>3. PICK free, chain : /\ Shape(desc, free_head, num_free, lent, free, chain)
                         /\ InFlight = Heads(chain, lent)
  BY <1>1 DEF SharedOut
<1>4. /\ desc \in Descs /\ free_head \in Desc /\ num_free \in Nat
      /\ lent \in SUBSET Buffers
      /\ used \in [Desc -> Desc] /\ last_used_idx \in Idx /\ used_idx \in Idx
      /\ Finished \in Seq(Desc)
  BY <1>1, RingFacts
<1> HIDE DEF head
<1>5. /\ Finished # <<>> /\ Finished[1] = head /\ head \in Desc
      /\ Named(used, Plus(last_used_idx, 1), Apart(Plus(last_used_idx, 1), used_idx))
           = Tail(Finished)
  BY <1>2, <1>4, WindowShrinks DEF Finished, head
<1>6. Finished' = Tail(Finished)
  BY <1>2, <1>5 DEF Finished
<1>7. Added' = Added
  BY <1>2 DEF Added
<1>8. /\ Range(Tail(Finished)) = Range(Finished) \ {head}
      /\ head \in Range(Finished) /\ Distinct(Tail(Finished))
  BY <1>1, <1>4, <1>5, DropHead DEF HeadsApart
<1>9. PICK b \in lent : head = chain[b][1]
  BY <1>3, <1>8 DEF InFlight, Heads
<1>10. desc[head].addr = <<b, 1>>
  BY <1>1, <1>3, <1>9, HeadFacts
<1>11. lent' = lent \ {b}
  BY <1>2, <1>10
<1>12. Chain(head) = chain[b]
  BY <1>3, <1>4, <1>9, ChainFound, Threads
<1>13. Size[b] \in Nat /\ Size[b] >= 1 /\ num_free + Size[b] <= Num
  <2>1. b \in Buffers
    BY <1>4
  <2> QED BY <1>3, <1>4, <2>1, SizeType, ShapeFits
<1>14. Len(Chain(head)) = Size[b]
  <2>1. chain[b] \in [1 .. Size[b] -> Desc]
    BY <1>3 DEF Shape, Linked
  <2> QED BY <1>12, <1>13, <2>1
<1>15. desc' = DetachedIn(desc, chain[b][Size[b]], free_head)
  BY <1>2, <1>12, <1>14 DEF DetachedIn
<1>16. /\ desc' \in Descs
       /\ Freed(desc', head, num_free + Size[b], lent \ {b}, chain)
       /\ \A d \in Desc : desc'[d].addr = desc[d].addr
  <2>1. /\ DetachedIn(desc, chain[b][Size[b]], free_head) \in Descs
        /\ Freed(DetachedIn(desc, chain[b][Size[b]], free_head), chain[b][1],
                 num_free + Size[b], lent \ {b}, chain)
    BY <1>3, <1>4, <1>9, GetKeepsShape
  <2>2. \A d \in Desc :
          DetachedIn(desc, chain[b][Size[b]], free_head)[d].addr = desc[d].addr
    BY <1>4 DEF DetachedIn, Descs
  <2> QED BY <1>9, <1>15, <2>1, <2>2
<1>17. TypeOK'
  <2>1. last_used_idx' \in Idx
    BY <1>2, <1>4, PlusValue
  <2>2. num_free' \in 0 .. Num
    BY <1>2, <1>4, <1>13, <1>14, RingType
  <2>3. lent' \subseteq Buffers
    BY <1>4, <1>11
  <2> QED BY <1>1, <1>2, <1>5, <1>16, <2>1, <2>2, <2>3 DEF TypeOK
<1>18. RoomToKick' /\ Behind'
  BY <1>1, <1>2 DEF RoomToKick, Behind
<1>19. Filling = {} /\ Filling' = {}
  BY <1>2 DEF Filling
<1>20. HeadsApart'
  <2>1. held' = held
    BY <1>2
  <2>2. /\ Distinct(Added) /\ Range(Added) \cap held = {}
        /\ Range(Finished) \cap (Range(Added) \cup held) = {}
    BY <1>1 DEF HeadsApart
  <2>3. Distinct(Finished') /\ Range(Finished') \subseteq Range(Finished)
    BY <1>6, <1>8
  <2>4. Distinct(Added') /\ Range(Added') = Range(Added)
    BY <1>7, <2>2
  <2> QED BY <1>19, <2>1, <2>2, <2>3, <2>4 DEF HeadsApart
<1>21. SharedOut'
  <2>1. InFlight' = InFlight \ {head}
    <3>1. held' = held /\ head \notin Range(Added) /\ head \notin held
      BY <1>1, <1>2, <1>8 DEF HeadsApart
    <3> QED BY <1>6, <1>7, <1>8, <1>19, <3>1 DEF InFlight
  <2>2. ASSUME NEW c \in lent, c # b PROVE chain[c][1] # head
    <3>1. desc[chain[c][1]].addr = <<c, 1>>
      BY <1>1, <1>3, HeadFacts
    <3> QED BY <1>10, <2>2, <3>1
  <2>3. Heads(chain, lent \ {b}) = Heads(chain, lent) \ {head}
    BY <1>9, <2>2 DEF Heads
  <2>4. PICK free2 : Shape(desc', head, num_free + Size[b], lent \ {b}, free2, chain)
    BY <1>16 DEF Freed
  <2>5. Shape(desc', free_head', num_free', lent', free2, chain)
    BY <1>2, <1>11, <1>14, <2>4
  <2>6. InFlight' = Heads(chain, lent')
    BY <1>3, <1>11, <2>1, <2>3
  <2> QED BY <2>5, <2>6 DEF SharedOut
<1>22. \E a \in lent : desc[Finished[1]].addr = <<a, 1>> /\ lent' = lent \ {a}
  BY <1>5, <1>9, <1>10, <1>11
<1>23. ASSUME NEW h \in Shown
       PROVE  /\ ChainIn(desc', h) = Chain(h)
              /\ \A k \in DOMAIN Chain(h) : desc'[Chain(h)[k]] = desc[Chain(h)[k]]
  <2>1. h \in InFlight /\ h # head
    <3>1. Shown \subseteq Range(Added) \cup held /\ Shown \subseteq InFlight
      BY <1>1, ShownInFlight
    <3>2. Range(Finished) \cap (Range(Added) \cup held) = {}
      BY <1>1 DEF HeadsApart
    <3> QED BY <1>8, <3>1, <3>2
  <2>2. PICK c \in lent : h = chain[c][1]
    BY <1>3, <2>1 DEF Heads
  <2>3. c # b /\ c \in lent \ {b}
    BY <1>9, <2>1, <2>2
  <2>4. Chain(h) = chain[c] /\ chain[c] \in [1 .. Size[c] -> Desc]
    BY <1>1, <1>3, <2>2, HeadsFollowed
  <2>5. /\ ChainIn(desc', h) = chain[c]
        /\ \A k \in 1 .. Size[c] : desc'[chain[c][k]] = desc[chain[c][k]]
    <3> DEFINE D2 == DetachedIn(desc, chain[b][Size[b]], free_head)
    <3>1. /\ ChainIn(D2, chain[c][1]) = chain[c]
          /\ \A k \in 1 .. Size[c] : D2[chain[c][k]] = desc[chain[c][k]]
      BY <1>3, <1>4, <2>3, DetachLeaves
    <3> QED BY <1>15, <2>2, <3>1
  <2>6. DOMAIN Chain(h) = 1 .. Size[c] /\ \A k : Chain(h)[k] = chain[c][k]
    BY <2>4
  <2>7. \A k \in DOMAIN Chain(h) : desc'[Chain(h)[k]] = desc[Chain(h)[k]]
    BY <2>5, <2>6
  <2>8. ChainIn(desc', h) = Chain(h)
    BY <2>4, <2>5
  <2> QED BY <2>7, <2>8
<1>24. InMemory'
  <2>1. UNCHANGED <<seen, dev_idx, avail_idx>> /\ held' \subseteq held
    BY <1>2
  <2> QED BY <1>1, <1>7, <1>23, <2>1, MemoryKept
<1> QED BY <1>5, <1>6, <1>7, <1>16, <1>17, <1>18, <1>20, <1>21, <1>22, <1>24 DEF IInv

\* The device takes the head it meets first.
LEMMA TakeStep ==
  ASSUME IInv, Take
  PROVE  /\ IInv' /\ Finished' = Finished
         /\ Added # <<>> /\ Added' = Tail(Added)
         /\ held' = held \cup {Added[1]}
         /\ Apart(dev_idx, avail_idx) >= 1
         /\ Apart(dev_idx, avail_idx)' = Apart(dev_idx, avail_idx) - 1
         /\ UNCHANGED <<desc, lent>>
<1> DEFINE j == avail_idx_shadow
           head == seen.ring[Slot(dev_idx)]
<1>1. TypeOK /\ RoomToKick /\ Behind /\ HeadsApart /\ SharedOut /\ InMemory
  BY DEF IInv
<1>2. /\ dev_idx # avail_idx
      /\ held' = held \cup {head} /\ dev_idx' = Plus(dev_idx, 1)
      /\ UNCHANGED <<desc, free_head, num_free, ring, avail_idx_shadow, num_added,
                     last_used_idx, event, lent, avail_idx, seen, pc, used, used_idx,
                     avail_event, no_notify, dev, notified, in_time>>
  BY DEF Take, driverVars, memoryVars
<1>3. /\ ring \in [Desc -> Desc] /\ dev_idx \in Idx /\ j \in Idx /\ avail_idx \in Idx
      /\ Added \in Seq(Desc) /\ held \subseteq Desc
  BY <1>1, RingFacts
<1>4. /\ Apart(dev_idx, avail_idx) \in Nat /\ Apart(dev_idx, j) \in Nat
      /\ Apart(dev_idx, avail_idx) >= 1 /\ Apart(dev_idx, j) >= 1
      /\ dev_idx # j
  <2>1. /\ Apart(dev_idx, avail_idx) \in 0 .. IdxMod - 1
        /\ Apart(dev_idx, j) \in 0 .. IdxMod - 1
        /\ Apart(dev_idx, avail_idx) # 0
        /\ Apart(dev_idx, avail_idx) <= Apart(dev_idx, j)
        /\ Apart(dev_idx, j) = 0 <=> dev_idx = j
    BY <1>1, <1>2, <1>3, ApartValue, ApartAfter DEF Behind
  <2> QED BY <2>1, RingType
<1>0. head = ring[Slot(dev_idx)]
  <2>1. dev_idx + 1 - 1 = dev_idx /\ 1 \in 1 .. Apart(dev_idx, avail_idx)
    BY <1>3, <1>4 DEF Idx
  <2>2. seen.ring[Slot(dev_idx + 1 - 1)] = Added[1]
    BY <1>1, <2>1 DEF InMemory
  <2>3. Added[1] = ring[Slot(dev_idx + 1 - 1)]
    BY <1>1, <2>1, ShownInFlight
  <2> QED BY <2>1, <2>2, <2>3
<1> HIDE DEF head
<1>5. /\ Added # <<>> /\ Added[1] = head /\ head \in Desc
      /\ Apart(Plus(dev_idx, 1), j) = Apart(dev_idx, j) - 1
      /\ Named(ring, Plus(dev_idx, 1), Apart(Plus(dev_idx, 1), j)) = Tail(Added)
  BY <1>0, <1>3, <1>4, WindowShrinks DEF Added
<1>6. Apart(Plus(dev_idx, 1), avail_idx) = Apart(dev_idx, avail_idx) - 1
  BY <1>2, <1>3, ApartAfter
<1>7. Added' = Tail(Added)
  BY <1>2, <1>5 DEF Added
<1>8. Finished' = Finished
  BY <1>2 DEF Finished
<1>9. Filling' = Filling
  BY <1>2 DEF Filling
<1>10. /\ Range(Tail(Added)) = Range(Added) \ {head}
       /\ head \in Range(Added) /\ Distinct(Tail(Added))
  BY <1>1, <1>3, <1>5, DropHead DEF HeadsApart
<1>11. TypeOK'
  <2>1. dev_idx' \in Idx
    BY <1>2, <1>3, PlusValue
  <2>2. held' \subseteq Desc
    BY <1>2, <1>3, <1>5
  <2> QED BY <1>1, <1>2, <2>1, <2>2 DEF TypeOK
<1>12. RoomToKick'
  BY <1>1, <1>2 DEF RoomToKick
<1>13. Apart(dev_idx, avail_idx)' = Apart(dev_idx, avail_idx) - 1
  BY <1>2, <1>6
<1>14. Behind'
  <2>1. Apart(Plus(dev_idx, 1), avail_idx) <= Apart(Plus(dev_idx, 1), j)
    BY <1>1, <1>4, <1>5, <1>6 DEF Behind
  <2> QED BY <1>2, <2>1 DEF Behind
<1>15. HeadsApart'
  <2>1. /\ Range(Added) \cap held = {}
        /\ Range(Finished) \cap (Range(Added) \cup held) = {}
        /\ Filling \cap (Range(Added) \cup held \cup Range(Finished)) = {}
        /\ Distinct(Finished)
    BY <1>1 DEF HeadsApart
  <2>2. /\ Range(Added') \cup held' = Range(Added) \cup held
        /\ Range(Added') \cap held' = {}
        /\ Distinct(Added')
    BY <1>2, <1>7, <1>10, <2>1
  <2>3. Distinct(Finished') /\ Range(Finished') = Range(Finished)
    BY <1>8, <2>1
  <2>4. /\ Range(Finished') \cap (Range(Added') \cup held') = {}
        /\ Filling' \cap (Range(Added') \cup held' \cup Range(Finished')) = {}
    BY <1>9, <2>1, <2>2, <2>3
  <2> QED BY <2>2, <2>3, <2>4 DEF HeadsApart
<1>16. SharedOut'
  <2>1. InFlight' = InFlight
    BY <1>2, <1>7, <1>8, <1>9, <1>10 DEF InFlight
  <2> QED BY <1>1, <1>2, <2>1 DEF SharedOut
<1>17. InMemory'
  <2> DEFINE n == Apart(dev_idx, avail_idx)
  <2>1. /\ n \in Nat /\ n >= 1 /\ 1 \in 1 .. n
        /\ \A k \in 1 .. n - 1 : k \in Nat /\ k + 1 \in 1 .. n /\ k - 1 \in Nat
    BY <1>4
  <2>2. \A k \in 1 .. n - 1 : Tail(Added)[k] = Added[k + 1]
    <3>1. /\ \A k \in 1 .. Len(Added) - 1 : Tail(Added)[k] = Added[k + 1]
          /\ Len(Added) \in Nat
      BY <1>3, <1>5, HeadTailProperties
    <3>2. n <= Len(Added)
      BY <1>1, RingFacts DEF Behind
    <3> QED BY <2>1, <3>1, <3>2
  <2>3. ASSUME NEW k \in 1 .. n - 1
        PROVE  seen.ring[Slot(Plus(dev_idx, 1) + k - 1)] = Added[k + 1]
    <3>1. dev_idx \in Nat /\ Plus(dev_idx, 1) \in Nat /\ k \in Nat
      BY <1>3, <2>1, PlusValue DEF Idx
    <3>2. /\ Plus(dev_idx, 1) + k - 1 = Plus(dev_idx, 1) + (k - 1)
          /\ dev_idx + 1 + (k - 1) = dev_idx + (k + 1) - 1
      BY <3>1
    <3>3. Slot(Plus(dev_idx, 1) + (k - 1)) = Slot(dev_idx + 1 + (k - 1))
      BY <1>3, <2>1, SlotShift
    <3>4. seen.ring[Slot(dev_idx + (k + 1) - 1)] = Added[k + 1]
      BY <1>1, <2>1 DEF InMemory
    <3> QED BY <3>2, <3>3, <3>4
  <2>4. Apart(dev_idx, avail_idx)' = n - 1
    BY <1>13
  <2>5. \A k \in 1 .. Apart(dev_idx, avail_idx)' :
          (seen.ring[Slot(dev_idx + k - 1)])' = Added'[k]
    BY <1>2, <1>7, <2>2, <2>3, <2>4 DEF Slot
  <2>6. ASSUME NEW h \in Shown' PROVE h \in Shown
    <3>1. h \in held \/ h = Added[1] \/ \E k \in 1 .. n - 1 : h = Tail(Added)[k]
      BY <1>2, <1>5, <1>7, <2>4, <2>6 DEF Shown
    <3> QED BY <2>1, <2>2, <3>1 DEF Shown
  <2>7. ASSUME NEW h \in Shown', NEW k \in DOMAIN Chain(h)'
        PROVE  seen'.desc[Chain(h)'[k]] = desc'[Chain(h)'[k]]
    <3>1. Chain(h)' = Chain(h) /\ desc' = desc /\ seen' = seen
      BY <1>2, Threads
    <3>2. seen.desc[Chain(h)[k]] = desc[Chain(h)[k]]
      BY <1>1, <2>6, <2>7, <3>1 DEF InMemory
    <3> QED BY <3>1, <3>2
  <2> QED BY <2>5, <2>7 DEF InMemory
<1> QED BY <1>2, <1>4, <1>5, <1>7, <1>8, <1>11, <1>12, <1>13, <1>14, <1>15, <1>16, <1>17
        DEF IInv

\* It names any of those it holds in the used ring, which has room: that head
\* is not among those named there.
LEMMA UseStep ==
  ASSUME IInv, Use
  PROVE  /\ IInv' /\ Added' = Added
         /\ \E h \in held : /\ held' = held \ {h}
                            /\ Finished' = Append(Finished, h)
         /\ UNCHANGED <<desc, lent, seen, dev_idx, avail_idx>>
<1> DEFINE i == last_used_idx
           j == used_idx
<1>1. TypeOK /\ RoomToKick /\ Behind /\ HeadsApart /\ SharedOut /\ InMemory
  BY DEF IInv
<1>2. PICK head \in held : /\ used' = [used EXCEPT ![Slot(j)] = head]
                           /\ held' = held \ {head}
  BY DEF Use
<1>3. /\ used_idx' = Plus(j, 1)
      /\ UNCHANGED <<desc, free_head, num_free, ring, avail_idx_shadow, num_added,
                     last_used_idx, event, lent, avail_idx, seen, pc, avail_event,
                     no_notify, dev_idx, dev, notified, in_time>>
  BY DEF Use, driverVars, memoryVars
<1>4. /\ used \in [Desc -> Desc] /\ i \in Idx /\ j \in Idx /\ head \in Desc
      /\ Finished \in Seq(Desc) /\ Len(Finished) = Apart(i, j)
  BY <1>1, <1>2, RingFacts
<1>5. /\ Distinct(Finished) /\ Distinct(Added) /\ head \notin Range(Finished)
      /\ Range(Added) \cap held = {}
      /\ Range(Finished) \cap (Range(Added) \cup held) = {}
      /\ Filling \cap (Range(Added) \cup held \cup Range(Finished)) = {}
  BY <1>1, <1>2 DEF HeadsApart
<1>6. Apart(i, j) < Num
  BY <1>4, <1>5, WindowFits
<1>7. /\ used' \in [Desc -> Desc] /\ used'[Slot(j)] = head
      /\ \A d \in Desc : d # Slot(j) => used'[d] = used[d]
  <2>1. Slot(j) \in Desc
    BY <1>4, SlotType DEF Idx
  <2> QED BY <1>2, <1>4, <2>1
<1>8. /\ Apart(i, Plus(j, 1)) = Apart(i, j) + 1
      /\ Named(used', i, Apart(i, j) + 1) = Append(Named(used, i, Apart(i, j)), head)
  BY <1>4, <1>6, <1>7, WindowGrows
<1>9. Finished' = Append(Finished, head)
  BY <1>3, <1>8 DEF Finished
<1>10. Added' = Added
  BY <1>3 DEF Added
<1>11. Filling' = Filling
  BY <1>3 DEF Filling
<1>12. Range(Finished') = Range(Finished) \cup {head} /\ Distinct(Finished')
  BY <1>4, <1>5, <1>9, AppendHead
<1>13. TypeOK'
  <2>1. used_idx' \in Idx
    BY <1>3, <1>4, PlusValue
  <2>2. held' \subseteq Desc
    BY <1>1, <1>2, RingFacts
  <2> QED BY <1>1, <1>3, <1>7, <2>1, <2>2 DEF TypeOK
<1>14. RoomToKick' /\ Behind'
  BY <1>1, <1>3 DEF RoomToKick, Behind
<1>15. HeadsApart'
  <2>1. Distinct(Added') /\ Range(Added') = Range(Added)
    BY <1>5, <1>10
  <2>2. /\ Range(Added') \cap held' = {}
        /\ Range(Finished') \cap (Range(Added') \cup held') = {}
        /\ Filling' \cap (Range(Added') \cup held' \cup Range(Finished')) = {}
    BY <1>2, <1>5, <1>11, <1>12, <2>1
  <2> QED BY <1>12, <2>1, <2>2 DEF HeadsApart
<1>16. SharedOut'
  <2>1. InFlight' = InFlight
    BY <1>2, <1>10, <1>11, <1>12 DEF InFlight
  <2> QED BY <1>1, <1>3, <2>1 DEF SharedOut
<1>17. \E h \in held : held' = held \ {h} /\ Finished' = Append(Finished, h)
  BY <1>2, <1>9
<1>18. InMemory'
  <2>1. UNCHANGED <<desc, seen, dev_idx, avail_idx>> /\ held' \subseteq held
    BY <1>2, <1>3
  <2> QED BY <1>1, <1>10, <2>1, MemoryAlone
<1> QED BY <1>3, <1>10, <1>13, <1>14, <1>15, <1>16, <1>17, <1>18 DEF IInv

LEMMA StutterStep ==
  ASSUME IInv, UNCHANGED vars
  PROVE  /\ IInv' /\ Added' = Added /\ Finished' = Finished
         /\ UNCHANGED <<desc, lent, held, seen, dev_idx, avail_idx>>
<1>1. TypeOK /\ RoomToKick /\ Behind /\ HeadsApart /\ SharedOut /\ InMemory
  BY DEF IInv
<1>2. /\ UNCHANGED <<desc, free_head, num_free, ring, avail_idx_shadow, num_added,
                     last_used_idx, event, lent, avail_idx, seen, pc, used, used_idx,
                     avail_event, no_notify, dev_idx, held>>
      /\ UNCHANGED <<dev, notified, in_time>>
  BY DEF vars, driverVars, memoryVars, deviceVars
<1>3. Filling' = Filling
  BY <1>2 DEF Filling
<1>4. HeadsApart' /\ SharedOut' /\ Added' = Added /\ Finished' = Finished
  BY <1>1, <1>2, <1>3, Undisturbed
<1>5. TypeOK'
  BY <1>1, <1>2 DEF TypeOK
<1>6. RoomToKick' /\ Behind'
  BY <1>1, <1>2 DEF RoomToKick, Behind
<1>7. InMemory'
  <2>1. UNCHANGED <<desc, seen, dev_idx, avail_idx>> /\ held' \subseteq held
    BY <1>2
  <2> QED BY <1>1, <1>4, <2>1, MemoryAlone
<1> QED BY <1>2, <1>4, <1>5, <1>6, <1>7 DEF IInv

LEMMA InvStep == KeepsOrder /\ IInv /\ [Next]_vars => IInv'
<1> SUFFICES ASSUME KeepsOrder, IInv, [Next]_vars PROVE IInv'
  OBVIOUS
<1>1. ASSUME NEW b \in Buffers, Fill(b) PROVE IInv'
  BY <1>1, FillStep
<1>2. CASE Publish
  BY <1>2, PublishStep
<1>3. CASE Drain
  BY <1>3, DrainStep
<1>4. CASE GetBuf
  BY <1>4, GetBufStep
<1>5. CASE Take
  BY <1>5, TakeStep
<1>6. CASE Use
  BY <1>6, UseStep
<1>7. CASE Kick \/ Ask \/ Recheck \/ Wake \/ \E b \in Buffers : NoSpace(b)
  BY <1>7, QuietStep
<1>8. CASE UNCHANGED vars
  BY <1>8, StutterStep
<1>9. CASE Arrive
  BY <1>9, ArriveStep
<1> QED BY <1>1, <1>2, <1>3, <1>4, <1>5, <1>6, <1>7, <1>8, <1>9 DEF Next

LEMMA Invariance ==
  ASSUME KeepsOrder
  PROVE  Spec => []IInv
<1>1. IInv /\ [Next]_vars => IInv'
  BY InvStep
<1> QED BY <1>1, InvInit, PTL DEF Spec

-----------------------------------------------------------------------------
(***************************************************************************)
(* The descriptors are shared out.                                         *)
(***************************************************************************)
\* The descriptors walked from free_head are those of the list.
LEMMA FreeListFound ==
  ASSUME TypeOK, NEW free, NEW chain,
         Shape(desc, free_head, num_free, lent, free, chain)
  PROVE  FreeList = {free[k] : k \in 1 .. num_free}
<1> DEFINE n == num_free
           at == From(free_head)
<1>1. n \in Nat /\ n <= Num /\ desc \in Descs /\ free_head \in Desc /\ Num \in Nat
  BY RingFacts, RingType
<1>2. Linked(desc, n, free) /\ (n > 0 => free[1] = free_head)
  BY DEF Shape
<1> HIDE DEF n, at
<1>3. ASSUME NEW k \in 0 .. n - 1 PROVE at[k] = free[k + 1]
  <2>1. n \in 1 .. Num /\ n > 0
    BY <1>1
  <2>2. \A m \in 0 .. n - 1 : FromIn(desc, free[1])[m] = free[m + 1]
    BY <1>1, <1>2, <2>1, WalkOfList
  <2>3. at = FromIn(desc, free_head) /\ free_head = free[1]
    BY <1>2, <2>1, Threads DEF at
  <2> QED BY <2>2, <2>3
<1>4. FreeList = {at[k] : k \in 0 .. n - 1}
  BY DEF FreeList, at, n
<1>5. ASSUME NEW k \in 0 .. n - 1 PROVE \E j \in 1 .. n : at[k] = free[j]
  <2>1. k + 1 \in 1 .. n
    BY <1>1
  <2> QED BY <1>3, <2>1
<1>6. ASSUME NEW j \in 1 .. n PROVE \E k \in 0 .. n - 1 : at[k] = free[j]
  <2>1. j - 1 \in 0 .. n - 1 /\ (j - 1) + 1 = j
    BY <1>1
  <2> QED BY <1>3, <2>1
<1>7. {at[k] : k \in 0 .. n - 1} = {free[j] : j \in 1 .. n}
  BY <1>5, <1>6
<1> QED BY <1>4, <1>7 DEF n

LEMMA InvSound == IInv => RingSound
<1> SUFFICES ASSUME IInv PROVE Partition
  BY DEF IInv, RingSound
<1>1. TypeOK /\ SharedOut
  BY DEF IInv
<1>2. PICK free, chain : /\ Shape(desc, free_head, num_free, lent, free, chain)
                         /\ InFlight = Heads(chain, lent)
  BY <1>1 DEF SharedOut
<1>3. /\ desc \in Descs /\ free_head \in Desc /\ num_free \in Nat
      /\ lent \in SUBSET Buffers
  BY <1>1, RingFacts
<1>4. FreeList = {free[k] : k \in 1 .. num_free}
  BY <1>1, <1>2, FreeListFound
<1>5. ASSUME NEW b \in lent
      PROVE  /\ Ends(chain[b][1])
             /\ Range(Chain(chain[b][1])) = {chain[b][k] : k \in 1 .. Size[b]}
  BY <1>1, <1>2, HeadsFollowed
<1>6. \A h \in InFlight : Ends(h)
  BY <1>2, <1>5 DEF Heads
<1>7. Cardinality(FreeList) = num_free
  <2>1. free \in [1 .. num_free -> Desc]
          /\ \A j, k \in 1 .. num_free : free[j] = free[k] => j = k
    BY <1>2 DEF Shape, Linked
  <2>2. free \in [1 .. num_free -> FreeList]
    BY <1>4, <2>1
  <2>3. free \in Bijection(1 .. num_free, FreeList)
    BY <1>4, <2>1, <2>2 DEF Bijection, Injection, IsInjective, Surjection
  <2>4. ExistsBijection(1 .. num_free, FreeList)
    BY <2>3 DEF ExistsBijection
  <2> QED BY <1>3, <2>4, FS_CountingElements
<1>8. ASSUME NEW h \in InFlight PROVE Range(Chain(h)) \cap FreeList = {}
  <2>1. PICK b \in lent : h = chain[b][1]
    BY <1>2 DEF Heads
  <2>2. Range(Chain(h)) = {chain[b][k] : k \in 1 .. Size[b]}
    BY <1>5, <2>1
  <2>3. \A k \in 1 .. Size[b], j \in 1 .. num_free : chain[b][k] # free[j]
    BY <1>2 DEF Shape
  <2> QED BY <1>4, <2>2, <2>3
<1>9. ASSUME NEW g \in InFlight, NEW h \in InFlight, g # h
      PROVE  Range(Chain(g)) \cap Range(Chain(h)) = {}
  <2>1. PICK a \in lent : g = chain[a][1]
    BY <1>2 DEF Heads
  <2>2. PICK b \in lent : h = chain[b][1]
    BY <1>2 DEF Heads
  <2>3. a # b
    BY <1>9, <2>1, <2>2
  <2>4. ASSUME NEW j \in 1 .. Size[a], NEW k \in 1 .. Size[b],
               chain[a][j] = chain[b][k]
        PROVE  FALSE
    BY <1>2, <1>3, <2>3, <2>4, ChainsDisjoint
  <2>5. /\ Range(Chain(g)) = {chain[a][k] : k \in 1 .. Size[a]}
        /\ Range(Chain(h)) = {chain[b][k] : k \in 1 .. Size[b]}
    BY <1>5, <2>1, <2>2
  <2> QED BY <2>4, <2>5
<1>10. FreeList \cup UNION {Range(Chain(h)) : h \in InFlight} = Desc
  <2>1. ASSUME NEW d \in Desc
        PROVE  d \in FreeList \cup UNION {Range(Chain(h)) : h \in InFlight}
    <3>1. \/ \E j \in 1 .. num_free : d = free[j]
          \/ \E b \in lent : \E k \in 1 .. Size[b] : d = chain[b][k]
      BY <1>2 DEF Shape
    <3>2. CASE \E j \in 1 .. num_free : d = free[j]
      BY <1>4, <3>2
    <3>3. ASSUME NEW b \in lent, NEW k \in 1 .. Size[b], d = chain[b][k]
          PROVE  d \in UNION {Range(Chain(h)) : h \in InFlight}
      <4>1. d \in Range(Chain(chain[b][1])) /\ chain[b][1] \in InFlight
        BY <1>2, <1>5, <3>3 DEF Heads
      <4> QED BY <4>1
    <3> QED BY <3>1, <3>2, <3>3
  <2>2. FreeList \subseteq Desc
    <3>1. free \in [1 .. num_free -> Desc]
      BY <1>2 DEF Shape, Linked
    <3> QED BY <1>4, <3>1
  <2>3. ASSUME NEW h \in InFlight PROVE Range(Chain(h)) \subseteq Desc
    <3>1. PICK b \in lent : h = chain[b][1]
      BY <1>2 DEF Heads
    <3>2. chain[b] \in [1 .. Size[b] -> Desc]
      BY <1>2 DEF Shape, Linked
    <3>3. Range(Chain(h)) = {chain[b][k] : k \in 1 .. Size[b]}
      BY <1>5, <3>1
    <3>4. ASSUME NEW k \in 1 .. Size[b] PROVE chain[b][k] \in Desc
      BY <3>2
    <3> QED BY <3>3, <3>4
  <2> QED BY <2>1, <2>2, <2>3
<1> QED BY <1>6, <1>7, <1>8, <1>9, <1>10 DEF Partition

\* The free list and the chains in flight share out the descriptors: none is
\* lost, none is in two chains, or in one and free, whatever the size of the
\* ring and the order in which the device finishes, where stores reach memory in
\* the order of the program.
THEOREM RingAlwaysSound ==
  ASSUME KeepsOrder
  PROVE  Spec => []RingSound
BY Invariance, InvSound, PTL

-----------------------------------------------------------------------------
(***************************************************************************)
(* The ring implements BufQueue.                                           *)
(***************************************************************************)
\* The buffer whose head h is, by the address in that descriptor, and the
\* buffers of several heads
OfIn(D, h) == Whole(D[h].addr[1])
BroughtIn(D, s) == [k \in DOMAIN s |-> OfIn(D, s[k])]
GatheredIn(D, S) == {OfIn(D, h) : h \in S}
Wholes(S) == {Whole(b) : b \in S}

LEMMA WholeInjective ==
  ASSUME NEW a \in Buffers, NEW b \in Buffers, Whole(a) = Whole(b)
  PROVE  a = b
<1>1. 1 \in 1 .. Size[a] /\ 1 \in 1 .. Size[b]
  BY SizeType
<1>2. Whole(a)[1] = <<a, 1>> /\ Whole(b)[1] = <<b, 1>>
  BY <1>1 DEF Whole
<1>3. <<a, 1>> = <<b, 1>>
  BY <1>2
<1> QED BY <1>3

\* Different heads in flight are of different buffers, which are lent.
LEMMA HeadOfBuffer ==
  ASSUME TypeOK, SharedOut
  PROVE  /\ \A h \in InFlight : \E b \in lent : /\ desc[h].addr = <<b, 1>>
                                                /\ OfIn(desc, h) = Whole(b)
         /\ \A g, h \in InFlight : OfIn(desc, g) = OfIn(desc, h) => g = h
<1>1. PICK free, chain : /\ Shape(desc, free_head, num_free, lent, free, chain)
                         /\ InFlight = Heads(chain, lent)
  BY DEF SharedOut
<1>2. lent \subseteq Buffers
  BY RingFacts
<1>3. ASSUME NEW h \in InFlight
      PROVE  \E b \in lent : /\ h = chain[b][1] /\ desc[h].addr = <<b, 1>>
                             /\ OfIn(desc, h) = Whole(b)
  <2>1. PICK b \in lent : h = chain[b][1]
    BY <1>1 DEF Heads
  <2>2. desc[h].addr = <<b, 1>>
    BY <1>1, <2>1, HeadFacts
  <2>3. desc[h].addr[1] = b
    BY <2>2
  <2> QED BY <2>1, <2>2, <2>3 DEF OfIn
<1>4. ASSUME NEW g \in InFlight, NEW h \in InFlight, OfIn(desc, g) = OfIn(desc, h)
      PROVE  g = h
  <2>1. PICK a \in lent : g = chain[a][1] /\ OfIn(desc, g) = Whole(a)
    BY <1>3
  <2>2. PICK b \in lent : h = chain[b][1] /\ OfIn(desc, h) = Whole(b)
    BY <1>3
  <2>3. a = b
    BY <1>2, <1>4, <2>1, <2>2, WholeInjective
  <2> QED BY <2>1, <2>2, <2>3
<1> QED BY <1>3, <1>4

\* What the device and the driver read from the descriptors of a chain in
\* flight is the buffer as it was added.
Told ==
  /\ Content(seen.desc, Waiting) = BroughtIn(desc, Waiting)
  /\ Content(desc, Finished) = BroughtIn(desc, Finished)
  /\ {Content(seen.desc, <<h>>)[1] : h \in held} = GatheredIn(desc, held)

\* The buffers the device may see are the first of those added.
WaitingFirst ==
  /\ Waiting \in Seq(Desc)
  /\ Len(Waiting) = Apart(dev_idx, avail_idx) /\ Len(Waiting) <= Len(Added)
  /\ \A k \in 1 .. Len(Waiting) : Waiting[k] = Added[k]
  /\ Range(Waiting) \subseteq Range(Added)

LEMMA InvWaiting == IInv => WaitingFirst
<1> SUFFICES ASSUME IInv PROVE WaitingFirst
  OBVIOUS
<1> DEFINE n == Apart(dev_idx, avail_idx)
           m == Apart(dev_idx, avail_idx_shadow)
<1>1. TypeOK /\ n <= m /\ InMemory
  BY DEF IInv, Behind
<1>2. /\ ring \in [Desc -> Desc] /\ seen.ring \in [Desc -> Desc] /\ dev_idx \in Idx
      /\ avail_idx \in Idx /\ avail_idx_shadow \in Idx
  BY <1>1, RingFacts
<1>3. n \in Nat /\ m \in Nat
  BY <1>2, ApartValue
<1> HIDE DEF n, m
<1>4. /\ Waiting \in Seq(Desc) /\ Len(Waiting) = n
      /\ \A k \in 1 .. n : Waiting[k] = seen.ring[Slot(dev_idx + k - 1)]
  BY <1>2, <1>3, NamedType DEF Waiting, n
<1>5. /\ Added \in Seq(Desc) /\ Len(Added) = m
      /\ \A k \in 1 .. m : Added[k] = ring[Slot(dev_idx + k - 1)]
  BY <1>2, <1>3, NamedType DEF Added, m
<1>6. ASSUME NEW k \in 1 .. n PROVE Waiting[k] = Added[k] /\ k \in 1 .. m
  <2>1. k \in 1 .. m
    BY <1>1, <1>3 DEF n, m
  <2>2. seen.ring[Slot(dev_idx + k - 1)] = Added[k]
    BY <1>1 DEF InMemory, n
  <2> QED BY <1>4, <2>1, <2>2
<1>7. Range(Waiting) \subseteq Range(Added)
  <2>1. Range(Waiting) = {Waiting[k] : k \in 1 .. n}
    BY <1>4, NamedHeads
  <2>2. Range(Added) = {Added[k] : k \in 1 .. m}
    BY <1>5, NamedHeads
  <2> QED BY <1>6, <2>1, <2>2
<1> QED BY <1>1, <1>4, <1>5, <1>6, <1>7 DEF WaitingFirst, n, m

\* The table D has the z descriptors f of buffer b ...
Carries(D, z, f, b) ==
  /\ Linked(D, z, f)
  /\ \A k \in 1 .. z : D[f[k]].addr = <<b, k>> /\ (D[f[k]].more <=> k < z)

\* ... and is read accordingly.
LEMMA CarriedIsRead ==
  ASSUME NEW D \in Descs, NEW z \in 1 .. Num, NEW f, NEW b, Carries(D, z, f, b)
  PROVE  /\ ChainIn(D, f[1]) = f
         /\ [k \in DOMAIN f |-> D[f[k]].addr] = [k \in 1 .. z |-> <<b, k>>]
<1>1. f \in [1 .. z -> Desc]
  BY DEF Carries, Linked
<1>2. Linked(D, z, f) /\ \A k \in 1 .. z : D[f[k]].more <=> k < z
  BY DEF Carries
<1>3. ChainIn(D, f[1]) = f
  BY <1>2, ListWalked
<1>4. \A k \in 1 .. z : D[f[k]].addr = <<b, k>>
  BY DEF Carries
<1> QED BY <1>1, <1>3, <1>4

LEMMA InvTold == IInv => Told
<1> SUFFICES ASSUME IInv PROVE Told
  OBVIOUS
<1> DEFINE Read(D, h) == [j \in DOMAIN ChainIn(D, h) |-> D[ChainIn(D, h)[j]].addr]
<1>1. TypeOK /\ SharedOut /\ InMemory /\ Behind
  BY DEF IInv
<1>2. PICK free, chain : /\ Shape(desc, free_head, num_free, lent, free, chain)
                         /\ InFlight = Heads(chain, lent)
  BY <1>1 DEF SharedOut
<1>3. ASSUME NEW h \in InFlight
      PROVE  /\ Read(desc, h) = OfIn(desc, h)
             /\ h \in Shown => Read(seen.desc, h) = OfIn(desc, h)
  <2>1. PICK b \in lent : h = chain[b][1]
    BY <1>2 DEF Heads
  <2>2. Chain(h) = chain[b] /\ chain[b] \in [1 .. Size[b] -> Desc]
    BY <1>1, <1>2, <2>1, HeadsFollowed
  <2>3. desc[h].addr = <<b, 1>>
    BY <1>1, <1>2, <2>1, HeadFacts
  <2>4. OfIn(desc, h) = [k \in 1 .. Size[b] |-> <<b, k>>]
    BY <2>3 DEF OfIn, Whole
  <2>5. /\ desc \in Descs /\ seen.desc \in Descs /\ free_head \in Desc
        /\ num_free \in Nat /\ lent \in SUBSET Buffers /\ Size[b] \in 1 .. Num
    <3>1. /\ desc \in Descs /\ seen.desc \in Descs /\ free_head \in Desc
          /\ num_free \in Nat /\ lent \in SUBSET Buffers
      BY <1>1, RingFacts
    <3>2. num_free + Size[b] <= Num
      BY <1>2, <3>1, ShapeFits
    <3> QED BY <3>1, <3>2, SizeType, RingType
  <2>6. PICK z, f : z = Size[b] /\ f = chain[b]
    OBVIOUS
  <2>7. /\ Linked(desc, z, f) /\ z \in 1 .. Num
        /\ \A k \in 1 .. z : desc[f[k]].addr = <<b, k>> /\ (desc[f[k]].more <=> k < z)
    BY <1>2, <2>5, <2>6 DEF Shape
  <2>8. ASSUME NEW M \in Descs, \A k \in 1 .. z : M[f[k]] = desc[f[k]]
        PROVE  Read(M, h) = OfIn(desc, h)
    <3>1. /\ ChainIn(M, f[1]) = f
          /\ [k \in DOMAIN f |-> M[f[k]].addr] = [k \in 1 .. z |-> <<b, k>>]
      <4>1. Linked(M, z, f)
        <5>1. z \in Nat
          BY <2>7, RingType
        <5>2. ASSUME NEW k \in 1 .. z - 1 PROVE M[f[k]].next = f[k + 1]
          <6>1. k \in 1 .. z
            BY <5>1
          <6>2. desc[f[k]].next = f[k + 1]
            BY <2>7 DEF Linked
          <6> QED BY <2>8, <6>1, <6>2
        <5> QED BY <2>7, <5>2 DEF Linked
      <4>2. Carries(M, z, f, b)
        BY <2>7, <2>8, <4>1 DEF Carries
      <4> QED BY <2>7, <4>2, CarriedIsRead
    <3>2. h = f[1]
      BY <2>1, <2>6
    <3> QED BY <2>4, <2>6, <3>1, <3>2
  <2>9. ASSUME h \in Shown PROVE \A k \in 1 .. z : seen.desc[f[k]] = desc[f[k]]
    <3>1. \A k \in DOMAIN Chain(h) : seen.desc[Chain(h)[k]] = desc[Chain(h)[k]]
      BY <1>1, <2>9 DEF InMemory
    <3>2. Chain(h) = f /\ DOMAIN f = 1 .. z
      BY <2>2, <2>6
    <3> QED BY <3>1, <3>2
  <2> HIDE DEF Read
  <2> QED BY <2>5, <2>8, <2>9
<1>4. \A D, heads : Content(D, heads) = [k \in DOMAIN heads |-> Read(D, heads[k])]
  BY DEF Content
<1> HIDE DEF Read
<1>5. Range(Finished) \subseteq InFlight /\ held \subseteq InFlight
        /\ held \subseteq Shown /\ Shown \subseteq InFlight
  BY <1>1, ShownInFlight DEF InFlight, Shown
<1>6. /\ Waiting \in Seq(Desc) /\ Finished \in Seq(Desc)
      /\ \A k \in DOMAIN Waiting : Waiting[k] \in Shown
  <2>1. /\ Waiting \in Seq(Desc) /\ Len(Waiting) = Apart(dev_idx, avail_idx)
        /\ \A k \in 1 .. Len(Waiting) : Waiting[k] = Added[k]
    BY InvWaiting DEF WaitingFirst
  <2>2. DOMAIN Waiting = 1 .. Apart(dev_idx, avail_idx)
    BY <2>1
  <2>3. \A k \in DOMAIN Waiting : Waiting[k] \in Shown
    BY <2>1, <2>2 DEF Shown
  <2> QED BY <1>1, <2>1, <2>3, RingFacts
<1>7. ASSUME NEW k \in DOMAIN Waiting
      PROVE  Read(seen.desc, Waiting[k]) = OfIn(desc, Waiting[k])
  BY <1>3, <1>5, <1>6
<1>8. ASSUME NEW k \in DOMAIN Finished
      PROVE  Read(desc, Finished[k]) = OfIn(desc, Finished[k])
  <2>1. Finished[k] \in Range(Finished)
    BY DEF Range
  <2> QED BY <1>3, <1>5, <2>1
<1>9. ASSUME NEW h \in held PROVE Content(seen.desc, <<h>>)[1] = OfIn(desc, h)
  <2>1. Content(seen.desc, <<h>>) = [k \in 1 .. 1 |-> Read(seen.desc, <<h>>[k])]
    BY <1>4
  <2>2. Content(seen.desc, <<h>>)[1] = Read(seen.desc, h)
    BY <2>1
  <2> QED BY <1>3, <1>5, <2>2
<1>10. Content(seen.desc, Waiting) = BroughtIn(desc, Waiting)
  BY <1>4, <1>7 DEF BroughtIn
<1>11. Content(desc, Finished) = BroughtIn(desc, Finished)
  BY <1>4, <1>8 DEF BroughtIn
<1>12. {Content(seen.desc, <<h>>)[1] : h \in held} = GatheredIn(desc, held)
  BY <1>9 DEF GatheredIn
<1> QED BY <1>10, <1>11, <1>12 DEF Told

LEMMA ToldAfter == IInv' => Told' /\ WaitingFirst'
BY InvTold, InvWaiting, PTL

LEMMA BroughtSeq ==
  ASSUME NEW D, NEW s \in Seq(Desc)
  PROVE  /\ BroughtIn(D, s) \in Seq(GatheredIn(D, Desc))
         /\ Len(BroughtIn(D, s)) = Len(s)
         /\ \A k \in 1 .. Len(s) : BroughtIn(D, s)[k] = OfIn(D, s[k])
<1> DEFINE n == Len(s)
           t == BroughtIn(D, s)
<1>1. n \in Nat /\ DOMAIN s = 1 .. n /\ \A k \in 1 .. n : s[k] \in Desc
  OBVIOUS
<1>2. t = [k \in 1 .. n |-> OfIn(D, s[k])]
  BY <1>1 DEF BroughtIn
<1> HIDE DEF t, n
<1>3. t \in [1 .. n -> GatheredIn(D, Desc)]
  BY <1>1, <1>2 DEF GatheredIn
<1>4. t \in Seq(GatheredIn(D, Desc)) /\ Len(t) = n
  BY <1>1, <1>2, <1>3
<1> QED BY <1>2, <1>4 DEF t, n

LEMMA BroughtAppend ==
  ASSUME NEW D, NEW s \in Seq(Desc), NEW h \in Desc
  PROVE  BroughtIn(D, Append(s, h)) = Append(BroughtIn(D, s), OfIn(D, h))
<1> DEFINE n == Len(s)
           a == Append(s, h)
           t == BroughtIn(D, s)
           u == BroughtIn(D, a)
           Of == GatheredIn(D, Desc)
<1>1. /\ n \in Nat /\ a \in Seq(Desc) /\ Len(a) = n + 1
      /\ \A k \in 1 .. n : a[k] = s[k]
      /\ a[n + 1] = h
  OBVIOUS
<1>2. OfIn(D, h) \in Of
  BY DEF GatheredIn
<1> HIDE DEF n, a, Of
<1>3. /\ t \in Seq(Of) /\ Len(t) = n /\ \A k \in 1 .. n : t[k] = OfIn(D, s[k])
      /\ u \in Seq(Of) /\ Len(u) = n + 1
      /\ \A k \in 1 .. n + 1 : u[k] = OfIn(D, a[k])
  BY <1>1, BroughtSeq DEF n, Of
<1> DEFINE v == Append(t, OfIn(D, h))
<1> HIDE DEF t, u
<1>4. /\ v \in Seq(Of) /\ Len(v) = n + 1
      /\ \A k \in 1 .. n : v[k] = t[k]
      /\ v[n + 1] = OfIn(D, h)
  BY <1>2, <1>3
<1> HIDE DEF v
<1>5. ASSUME NEW k \in 1 .. n + 1 PROVE u[k] = v[k]
  <2>1. CASE k = n + 1
    BY <1>1, <1>3, <1>4, <2>1
  <2>2. CASE k # n + 1
    <3>1. k \in 1 .. n
      BY <1>1, <2>2
    <3> QED BY <1>1, <1>3, <1>4, <3>1
  <2> QED BY <2>1, <2>2
<1>6. u = v
  BY <1>3, <1>4, <1>5, SeqEqual
<1> QED BY <1>6 DEF u, v, t, a

LEMMA BroughtTail ==
  ASSUME NEW D, NEW s \in Seq(Desc), s # <<>>
  PROVE  /\ BroughtIn(D, s) # <<>>
         /\ Head(BroughtIn(D, s)) = OfIn(D, s[1])
         /\ BroughtIn(D, Tail(s)) = Tail(BroughtIn(D, s))
<1> DEFINE n == Len(s)
           a == Tail(s)
           t == BroughtIn(D, s)
           u == BroughtIn(D, a)
           Of == GatheredIn(D, Desc)
<1>1. /\ n \in Nat /\ n >= 1 /\ a \in Seq(Desc) /\ Len(a) = n - 1
      /\ \A k \in 1 .. n - 1 : a[k] = s[k + 1]
  BY HeadTailProperties, EmptySeq
<1> HIDE DEF n, a, Of
<1>2. /\ t \in Seq(Of) /\ Len(t) = n /\ \A k \in 1 .. n : t[k] = OfIn(D, s[k])
      /\ u \in Seq(Of) /\ Len(u) = n - 1
      /\ \A k \in 1 .. n - 1 : u[k] = OfIn(D, a[k])
  BY <1>1, BroughtSeq DEF n, Of
<1> HIDE DEF t, u
<1>3. t # <<>> /\ Head(t) = t[1] /\ 1 \in 1 .. n
  BY <1>1, <1>2
<1>4. /\ Tail(t) \in Seq(Of) /\ Len(Tail(t)) = n - 1
      /\ \A k \in 1 .. n - 1 : Tail(t)[k] = t[k + 1]
  BY <1>2, <1>3, HeadTailProperties
<1>5. ASSUME NEW k \in 1 .. n - 1 PROVE u[k] = Tail(t)[k]
  <2>1. k + 1 \in 1 .. n
    BY <1>1
  <2> QED BY <1>1, <1>2, <1>4, <2>1
<1>6. u = Tail(t)
  BY <1>2, <1>4, <1>5, SeqEqual
<1> QED BY <1>2, <1>3, <1>6 DEF u, t, a

\* Sequences of heads whose descriptors keep their addresses
LEMMA BroughtSame ==
  ASSUME NEW D, NEW D2, NEW s \in Seq(Desc),
         \A h \in Range(s) : D2[h].addr = D[h].addr
  PROVE  BroughtIn(D2, s) = BroughtIn(D, s)
<1>1. ASSUME NEW k \in DOMAIN s PROVE OfIn(D2, s[k]) = OfIn(D, s[k])
  <2>1. s[k] \in Range(s)
    BY DEF Range
  <2> QED BY <2>1 DEF OfIn
<1> QED BY <1>1 DEF BroughtIn

\* The state of BufQueue, once what is read is replaced by the buffers
LEMMA QueueState ==
  ASSUME IInv
  PROVE  /\ Added \in Seq(Desc) /\ Finished \in Seq(Desc) /\ Waiting \in Seq(Desc)
         /\ Range(Waiting) \subseteq InFlight /\ Range(Finished) \subseteq InFlight
         /\ Range(Added) \subseteq InFlight /\ held \subseteq InFlight
         /\ held \subseteq Desc /\ lent \subseteq Buffers
<1>1. TypeOK /\ WaitingFirst
  BY InvWaiting DEF IInv
<1> QED BY <1>1, RingFacts DEF WaitingFirst, InFlight

LEMMA StartMaps == Init => Queue!Init
<1> SUFFICES ASSUME Init PROVE Queue!Init
  OBVIOUS
<1>1. IInv /\ Told /\ WaitingFirst
  BY InvInit, InvTold, InvWaiting
<1>2. Apart(dev_idx, avail_idx) = 0 /\ Apart(last_used_idx, used_idx) = 0
  <2>1. 0 \in Idx
    BY RingType DEF Idx
  <2> QED BY <2>1, ApartAfter DEF Init
<1>3. Waiting = <<>> /\ Finished = <<>>
  <2>1. Waiting \in Seq(Desc) /\ Finished \in Seq(Desc)
    BY <1>1, QueueState
  <2>2. Len(Waiting) = 0 /\ Len(Finished) = 0
    BY <1>1, <1>2, RingFacts DEF WaitingFirst, IInv
  <2> QED BY <2>1, <2>2, EmptySeq
<1>4. BroughtIn(desc, <<>>) = <<>>
  BY DEF BroughtIn
<1> QED BY <1>1, <1>3, <1>4 DEF Init, Told, GatheredIn, Queue!Init

\* The window the device may see, when the heads added and its ends are the same
LEMMA SameWaiting ==
  ASSUME IInv, IInv', Added' = Added,
         Apart(dev_idx, avail_idx)' = Apart(dev_idx, avail_idx)
  PROVE  Waiting' = Waiting
<1>1. WaitingFirst /\ WaitingFirst'
  BY InvWaiting, ToldAfter
<1>2. /\ Waiting \in Seq(Desc) /\ Waiting' \in Seq(Desc) /\ Len(Waiting') = Len(Waiting)
      /\ \A k \in 1 .. Len(Waiting) : Waiting[k] = Added[k]
      /\ \A k \in 1 .. Len(Waiting') : Waiting'[k] = Added'[k]
  BY <1>1 DEF WaitingFirst
<1>3. \A k \in 1 .. Len(Waiting') : Waiting'[k] = Waiting[k]
  BY <1>2
<1> QED BY <1>2, <1>3, SeqEqual

\* virtqueue_add() lends a buffer the driver had.
LEMMA FillLends ==
  ASSUME IInv, IInv', NEW b \in Buffers, Fill(b)
  PROVE  Queue!Lend
<1>1. /\ Added' = Added /\ Finished' = Finished
      /\ \A h \in InFlight : desc'[h].addr = desc[h].addr
  BY FillStep
<1>2. b \notin lent /\ lent' = lent \cup {b} /\ UNCHANGED <<dev_idx, avail_idx, held>>
  BY DEF Fill, memoryVars, deviceVars
<1>3. Told /\ Told'
  BY InvTold, ToldAfter
<1>4. Waiting' = Waiting
  BY <1>1, <1>2, SameWaiting
<1>5. BroughtIn(desc', Waiting) = BroughtIn(desc, Waiting)
  BY <1>1, QueueState, BroughtSame
<1>6. BroughtIn(desc', Finished) = BroughtIn(desc, Finished)
  BY <1>1, QueueState, BroughtSame
<1>7. GatheredIn(desc', held) = GatheredIn(desc, held)
  <2>1. \A h \in held : OfIn(desc', h) = OfIn(desc, h)
    BY <1>1, QueueState DEF OfIn
  <2> QED BY <2>1 DEF GatheredIn
<1>8. /\ Content(seen.desc, Waiting)' = Content(seen.desc, Waiting)
      /\ Content(desc, Finished)' = Content(desc, Finished)
      /\ {Content(seen.desc, <<h>>)[1] : h \in held}'
           = {Content(seen.desc, <<h>>)[1] : h \in held}
  BY <1>1, <1>2, <1>3, <1>4, <1>5, <1>6, <1>7 DEF Told
<1>9. Whole(b) \in Wholes(Buffers) \ Wholes(lent)
  BY <1>2, QueueState, WholeInjective DEF Wholes
<1>10. Wholes(lent') = Wholes(lent) \cup {Whole(b)}
  BY <1>2 DEF Wholes
<1> QED BY <1>8, <1>9, <1>10 DEF Queue!Lend, Wholes

\* The store of avail->idx shows the device the next of the buffers added.
LEMMA DrainAdds ==
  ASSUME KeepsOrder, IInv, IInv', Drain
  PROVE  Queue!Add
<1> DEFINE n == Len(Waiting)
           h == Added[n + 1]
<1>1. /\ Added' = Added /\ Finished' = Finished
      /\ Apart(dev_idx, avail_idx)' = Apart(dev_idx, avail_idx) + 1
      /\ Apart(dev_idx, avail_idx) < Len(Added)
      /\ UNCHANGED <<desc, lent, held>>
  BY DrainStep DEF Drain, driverVars, deviceVars
<1>2. Told /\ Told' /\ WaitingFirst /\ WaitingFirst' /\ TypeOK /\ SharedOut /\ HeadsApart
  BY InvTold, InvWaiting, ToldAfter DEF IInv
<1>3. /\ Added \in Seq(Desc) /\ Waiting \in Seq(Desc) /\ Waiting' \in Seq(Desc)
      /\ n \in Nat /\ Len(Waiting') = n + 1 /\ n + 1 \in 1 .. Len(Added)
      /\ \A k \in 1 .. n : Waiting[k] = Added[k]
      /\ \A k \in 1 .. n + 1 : Waiting'[k] = Added[k]
  BY <1>1, <1>2, QueueState DEF WaitingFirst
<1>4. h \in Desc /\ h \in Range(Added)
  <2>1. h \in {Added[k] : k \in 1 .. Len(Added)}
    BY <1>3
  <2> QED BY <1>3, <2>1, NamedHeads
<1>5. h \notin Range(Waiting)
  <2>1. SUFFICES ASSUME h \in Range(Waiting) PROVE FALSE
    OBVIOUS
  <2>2. PICK k \in 1 .. n : Waiting[k] = h
    BY <1>3, <2>1, NamedHeads
  <2>3. Added[k] = Added[n + 1] /\ k \in 1 .. Len(Added)
    BY <1>3, <2>2
  <2>4. k = n + 1
    BY <1>2, <1>3, <2>3 DEF HeadsApart, Distinct
  <2> QED BY <1>3, <2>4
<1>6. h \notin held /\ h \notin Range(Finished)
  BY <1>2, <1>4 DEF HeadsApart
<1> DEFINE a == Append(Waiting, h)
<1>7. Added[n + 1] = h
  OBVIOUS
<1> HIDE DEF n, h
<1>8. Waiting' = a
  <2>1. /\ a \in Seq(Desc) /\ Len(a) = n + 1
        /\ \A k \in 1 .. n : a[k] = Waiting[k]
        /\ a[n + 1] = h
    BY <1>3, <1>4 DEF n
  <2> HIDE DEF a
  <2>2. ASSUME NEW k \in 1 .. n + 1 PROVE Waiting'[k] = a[k]
    <3>1. CASE k = n + 1
      BY <1>3, <1>7, <2>1, <3>1
    <3>2. CASE k # n + 1
      <4>1. k \in 1 .. n
        BY <1>3, <3>2
      <4> QED BY <1>3, <2>1, <4>1
    <3> QED BY <3>1, <3>2
  <2> QED BY <1>3, <2>1, <2>2, SeqEqual
<1>9. BroughtIn(desc, a) = Append(BroughtIn(desc, Waiting), OfIn(desc, h))
  BY <1>3, <1>4, BroughtAppend
<1>10. Content(seen.desc, Waiting)' = Append(Content(seen.desc, Waiting), OfIn(desc, h))
  BY <1>1, <1>2, <1>8, <1>9 DEF Told
<1>11. /\ Content(desc, Finished)' = Content(desc, Finished)
       /\ {Content(seen.desc, <<g>>)[1] : g \in held}'
            = {Content(seen.desc, <<g>>)[1] : g \in held}
       /\ {Whole(b) : b \in lent}' = {Whole(b) : b \in lent}
  BY <1>1, <1>2 DEF Told
<1>12. OfIn(desc, h) \in {Whole(b) : b \in lent}
  <2>1. h \in InFlight
    BY <1>4, QueueState
  <2>2. PICK b \in lent : OfIn(desc, h) = Whole(b)
    BY <1>2, <2>1, HeadOfBuffer
  <2> QED BY <2>2
<1>13. ASSUME NEW g \in InFlight, g # h PROVE OfIn(desc, g) # OfIn(desc, h)
  <2>1. h \in InFlight
    BY <1>4, QueueState
  <2> QED BY <1>2, <1>13, <2>1, HeadOfBuffer
<1>14. ASSUME NEW k \in DOMAIN Content(seen.desc, Waiting)
       PROVE  Content(seen.desc, Waiting)[k] # OfIn(desc, h)
  <2>1. k \in DOMAIN Waiting /\ Content(seen.desc, Waiting)[k] = OfIn(desc, Waiting[k])
    BY <1>2, <1>14 DEF Told, BroughtIn
  <2>2. Waiting[k] \in Range(Waiting)
    BY <2>1 DEF Range
  <2> QED BY <1>5, <1>13, <2>1, <2>2, QueueState
<1>15. ASSUME NEW k \in DOMAIN Content(desc, Finished)
       PROVE  Content(desc, Finished)[k] # OfIn(desc, h)
  <2>1. k \in DOMAIN Finished /\ Content(desc, Finished)[k] = OfIn(desc, Finished[k])
    BY <1>2, <1>15 DEF Told, BroughtIn
  <2>2. Finished[k] \in Range(Finished)
    BY <2>1 DEF Range
  <2> QED BY <1>6, <1>13, <2>1, <2>2, QueueState
<1>16. OfIn(desc, h) \notin {Content(seen.desc, <<g>>)[1] : g \in held}
  <2>1. {Content(seen.desc, <<g>>)[1] : g \in held} = GatheredIn(desc, held)
    BY <1>2 DEF Told
  <2>2. OfIn(desc, h) \notin GatheredIn(desc, held)
    BY <1>6, <1>13, QueueState DEF GatheredIn
  <2> QED BY <2>1, <2>2
<1>17. OfIn(desc, h) \notin Queue!Queued
  BY <1>14, <1>15, <1>16 DEF Queue!Queued
<1> QED BY <1>10, <1>11, <1>12, <1>17 DEF Queue!Add

LEMMA TakeTakes ==
  ASSUME IInv, IInv', Take
  PROVE  Queue!Take
<1> DEFINE n == Len(Waiting)
<1>1. /\ Finished' = Finished /\ Added # <<>> /\ Added' = Tail(Added)
      /\ held' = held \cup {Added[1]}
      /\ Apart(dev_idx, avail_idx) >= 1
      /\ Apart(dev_idx, avail_idx)' = Apart(dev_idx, avail_idx) - 1
      /\ UNCHANGED <<desc, lent>>
  BY TakeStep
<1>2. Told /\ Told' /\ WaitingFirst /\ WaitingFirst'
  BY InvTold, InvWaiting, ToldAfter
<1>3. /\ Added \in Seq(Desc) /\ Waiting \in Seq(Desc) /\ Waiting' \in Seq(Desc)
      /\ n \in Nat /\ n >= 1 /\ Len(Waiting') = n - 1 /\ n <= Len(Added)
      /\ \A k \in 1 .. n : Waiting[k] = Added[k]
      /\ \A k \in 1 .. n - 1 : Waiting'[k] = Tail(Added)[k]
      /\ Len(Added) \in Nat
  BY <1>1, <1>2, QueueState DEF WaitingFirst
<1>4. \A k \in 1 .. Len(Added) - 1 : Tail(Added)[k] = Added[k + 1]
  BY <1>1, <1>3, HeadTailProperties
<1>5. Waiting # <<>> /\ Waiting[1] = Added[1]
  BY <1>3
<1>6. /\ Tail(Waiting) \in Seq(Desc) /\ Len(Tail(Waiting)) = n - 1
      /\ \A k \in 1 .. n - 1 : Tail(Waiting)[k] = Waiting[k + 1]
  BY <1>3, <1>5, HeadTailProperties
<1> HIDE DEF n
<1>7. Waiting' = Tail(Waiting)
  <2>1. ASSUME NEW k \in 1 .. n - 1 PROVE Waiting'[k] = Tail(Waiting)[k]
    <3>1. k \in 1 .. Len(Added) - 1 /\ k + 1 \in 1 .. n
      BY <1>3
    <3> QED BY <1>3, <1>4, <1>6, <3>1
  <2> QED BY <1>3, <1>6, <2>1, SeqEqual
<1>8. /\ BroughtIn(desc, Waiting) # <<>>
      /\ Head(BroughtIn(desc, Waiting)) = OfIn(desc, Added[1])
      /\ BroughtIn(desc, Tail(Waiting)) = Tail(BroughtIn(desc, Waiting))
  BY <1>3, <1>5, BroughtTail
<1>9. /\ Content(seen.desc, Waiting) # <<>>
      /\ Content(seen.desc, Waiting)' = Tail(Content(seen.desc, Waiting))
      /\ Head(Content(seen.desc, Waiting)) = OfIn(desc, Added[1])
  BY <1>1, <1>2, <1>7, <1>8 DEF Told
<1>10. /\ Content(desc, Finished)' = Content(desc, Finished)
       /\ {Whole(b) : b \in lent}' = {Whole(b) : b \in lent}
  BY <1>1, <1>2 DEF Told
<1>11. GatheredIn(desc, held \cup {Added[1]})
         = GatheredIn(desc, held) \cup {OfIn(desc, Added[1])}
  BY DEF GatheredIn
<1>12. {Content(seen.desc, <<g>>)[1] : g \in held}'
         = {Content(seen.desc, <<g>>)[1] : g \in held} \cup {Head(Content(seen.desc, Waiting))}
  BY <1>1, <1>2, <1>9, <1>11 DEF Told
<1> QED BY <1>9, <1>10, <1>12 DEF Queue!Take

LEMMA UseUses ==
  ASSUME IInv, IInv', Use
  PROVE  Queue!Use
<1>1. PICK h \in held : held' = held \ {h} /\ Finished' = Append(Finished, h)
  BY UseStep
<1>2. Added' = Added /\ UNCHANGED <<desc, lent, seen, dev_idx, avail_idx>>
  BY UseStep
<1>3. Told /\ Told' /\ TypeOK /\ SharedOut
  BY InvTold, ToldAfter DEF IInv
<1>4. Waiting' = Waiting
  BY <1>2 DEF Waiting
<1>5. h \in Desc /\ Finished \in Seq(Desc) /\ held \subseteq InFlight
  BY <1>1, QueueState
<1>6. BroughtIn(desc, Append(Finished, h))
        = Append(BroughtIn(desc, Finished), OfIn(desc, h))
  BY <1>5, BroughtAppend
<1>7. Content(desc, Finished)' = Append(Content(desc, Finished), OfIn(desc, h))
  BY <1>1, <1>2, <1>3, <1>6 DEF Told
<1>8. /\ Content(seen.desc, Waiting)' = Content(seen.desc, Waiting)
      /\ {Whole(b) : b \in lent}' = {Whole(b) : b \in lent}
  BY <1>2, <1>3, <1>4 DEF Told
<1>9. ASSUME NEW g \in held, g # h PROVE OfIn(desc, g) # OfIn(desc, h)
  BY <1>3, <1>5, <1>9, HeadOfBuffer
<1>10. GatheredIn(desc, held \ {h}) = GatheredIn(desc, held) \ {OfIn(desc, h)}
  BY <1>9 DEF GatheredIn
<1>11. {Content(seen.desc, <<g>>)[1] : g \in held}'
         = {Content(seen.desc, <<g>>)[1] : g \in held} \ {OfIn(desc, h)}
  BY <1>1, <1>2, <1>3, <1>10 DEF Told
<1>12. OfIn(desc, h) \in {Content(seen.desc, <<g>>)[1] : g \in held}
  BY <1>3 DEF Told, GatheredIn
<1> QED BY <1>7, <1>8, <1>11, <1>12 DEF Queue!Use

LEMMA GetBufGets ==
  ASSUME IInv, IInv', GetBuf
  PROVE  Queue!Get
<1>1. /\ Added' = Added /\ Finished # <<>> /\ Finished' = Tail(Finished)
      /\ \A h \in Desc : desc'[h].addr = desc[h].addr
      /\ UNCHANGED <<seen, held, dev_idx, avail_idx>>
  BY GetBufStep DEF GetBuf, memoryVars, deviceVars
<1>2. PICK b \in lent : desc[Finished[1]].addr = <<b, 1>> /\ lent' = lent \ {b}
  BY GetBufStep
<1>3. Told /\ Told'
  BY InvTold, ToldAfter
<1>4. Waiting' = Waiting
  BY <1>1 DEF Waiting
<1>5. /\ Waiting \in Seq(Desc) /\ Finished \in Seq(Desc) /\ held \subseteq Desc
      /\ Tail(Finished) \in Seq(Desc) /\ lent \subseteq Buffers
  BY <1>1, QueueState, HeadTailProperties
<1>6. ASSUME NEW s \in Seq(Desc) PROVE BroughtIn(desc', s) = BroughtIn(desc, s)
  <2>1. \A h \in Range(s) : desc'[h].addr = desc[h].addr
    BY <1>1, NamedHeads
  <2> QED BY <2>1, BroughtSame
<1>7. GatheredIn(desc', held) = GatheredIn(desc, held)
  <2>1. \A h \in held : OfIn(desc', h) = OfIn(desc, h)
    BY <1>1, <1>5 DEF OfIn
  <2> QED BY <2>1 DEF GatheredIn
<1>8. OfIn(desc, Finished[1]) = Whole(b)
  BY <1>2 DEF OfIn
<1>9. /\ BroughtIn(desc, Finished) # <<>>
      /\ Head(BroughtIn(desc, Finished)) = Whole(b)
      /\ BroughtIn(desc, Tail(Finished)) = Tail(BroughtIn(desc, Finished))
  BY <1>1, <1>5, <1>8, BroughtTail
<1>10. /\ Content(desc, Finished) # <<>> /\ Content(desc, Finished)' = Tail(Content(desc, Finished))
       /\ Head(Content(desc, Finished)) = Whole(b)
  BY <1>1, <1>3, <1>5, <1>6, <1>9 DEF Told
<1>11. /\ Content(seen.desc, Waiting)' = Content(seen.desc, Waiting)
       /\ {Content(seen.desc, <<g>>)[1] : g \in held}'
            = {Content(seen.desc, <<g>>)[1] : g \in held}
  BY <1>1, <1>3, <1>4, <1>5, <1>6, <1>7 DEF Told
<1>12. Wholes(lent') = Wholes(lent) \ {Whole(b)}
  BY <1>2, <1>5, WholeInjective DEF Wholes
<1> QED BY <1>10, <1>11, <1>12 DEF Queue!Get, Wholes

\* Every other step stutters.
LEMMA OthersStutter ==
  ASSUME IInv, IInv', Waiting' = Waiting, Finished' = Finished,
         UNCHANGED <<desc, lent, held>>
  PROVE  UNCHANGED Queue!vars
<1>1. Told /\ Told'
  BY InvTold, ToldAfter
<1>2. /\ Content(seen.desc, Waiting)' = Content(seen.desc, Waiting)
      /\ Content(desc, Finished)' = Content(desc, Finished)
      /\ {Content(seen.desc, <<g>>)[1] : g \in held}'
           = {Content(seen.desc, <<g>>)[1] : g \in held}
  BY <1>1 DEF Told
<1> QED BY <1>2 DEF Queue!vars

LEMMA StepMaps == KeepsOrder /\ IInv /\ IInv' /\ [Next]_vars => [Queue!Next]_(Queue!vars)
<1> SUFFICES ASSUME KeepsOrder, IInv, IInv', [Next]_vars
             PROVE  [Queue!Next]_(Queue!vars)
  OBVIOUS
<1>1. ASSUME NEW b \in Buffers, Fill(b) PROVE Queue!Next
  BY <1>1, FillLends DEF Queue!Next
<1>2. CASE Drain
  BY <1>2, DrainAdds DEF Queue!Next
<1>3. CASE Take
  BY <1>3, TakeTakes DEF Queue!Next
<1>4. CASE Use
  BY <1>4, UseUses DEF Queue!Next
<1>5. CASE GetBuf
  BY <1>5, GetBufGets DEF Queue!Next
<1>6. CASE Publish
  <2>1. /\ Finished' = Finished
        /\ UNCHANGED <<desc, lent, held, seen, dev_idx, avail_idx>>
    BY <1>6, PublishStep DEF Publish, memoryVars, deviceVars
  <2>2. Waiting' = Waiting
    BY <2>1 DEF Waiting
  <2> QED BY <2>1, <2>2, OthersStutter
<1>7. CASE Kick \/ Ask \/ Recheck \/ Wake \/ \E b \in Buffers : NoSpace(b)
  <2>1. /\ Finished' = Finished
        /\ UNCHANGED <<desc, lent, held, seen, dev_idx, avail_idx>>
    BY <1>7, QuietStep
  <2>2. Waiting' = Waiting
    BY <2>1 DEF Waiting
  <2> QED BY <2>1, <2>2, OthersStutter
<1>8. CASE UNCHANGED vars
  <2>1. /\ Finished' = Finished
        /\ UNCHANGED <<desc, lent, held, seen, dev_idx, avail_idx>>
    BY <1>8, StutterStep
  <2>2. Waiting' = Waiting
    BY <2>1 DEF Waiting
  <2> QED BY <2>1, <2>2, OthersStutter
<1>9. CASE Arrive
  <2>1. /\ Added' = Added /\ Finished' = Finished
        /\ UNCHANGED <<desc, lent, held, dev_idx, avail_idx>>
    BY <1>9, ArriveStep
  <2>2. Waiting' = Waiting
    BY <2>1, SameWaiting
  <2> QED BY <2>1, <2>2, OthersStutter
<1> QED BY <1>1, <1>2, <1>3, <1>4, <1>5, <1>6, <1>7, <1>8, <1>9 DEF Next

\* The ring implements BufQueue where stores reach memory in the order of the
\* program: the device meets the buffers in the order they were added and reads
\* from memory what was added, and each comes back once, for every size of the
\* ring.  It says nothing of a machine that does not keep the order, and where
\* it does not, it fails: virtio_wmb() is empty.
THEOREM QueueImplemented ==
  ASSUME KeepsOrder
  PROVE  Spec => QueueSpec
<1>1. IInv /\ IInv' /\ [Next]_vars => [Queue!Next]_(Queue!vars)
  BY StepMaps
<1> QED BY <1>1, Invariance, StartMaps, PTL DEF Spec, QueueSpec, Queue!Spec

-----------------------------------------------------------------------------
(***************************************************************************)
(* Kicks are heard.  This needs the indices only, and no order of stores.  *)
(***************************************************************************)
KickTypes ==
  /\ avail_idx_shadow \in Idx /\ avail_idx \in Idx /\ dev_idx \in Idx
  /\ avail_event \in Idx /\ num_added \in Idx
  /\ event \in BOOLEAN /\ no_notify \in BOOLEAN
  /\ notified \in BOOLEAN /\ in_time \in BOOLEAN
  /\ dev \in {"poll", "asked", "sleep"}

\* What memory lacks was added since the last kick.
AddedSinceKick == in_time => Apart(avail_idx, avail_idx_shadow) <= num_added

\* A device that is not polling asks to be told of the next buffer.
AsksForNext == dev # "poll" => IF event THEN avail_event = dev_idx ELSE ~no_notify

\* One that sleeps and was not notified lacks what was added since the last
\* kick at most.
NoneMissed ==
  (in_time /\ dev = "sleep" /\ ~notified) =>
    Apart(dev_idx, avail_idx_shadow) <= num_added

KickInv ==
  KickTypes /\ RoomToKick /\ AddedSinceKick /\ AsksForNext /\ NoneMissed

\* vring_need_event() answers yes when the entry asked for is one of those added
\* since the last kick.
LEMMA EventIsNeeded ==
  ASSUME NEW s \in Idx, NEW e \in Idx, NEW n \in Idx,
         Apart(e, s) # 0, Apart(e, s) <= n
  PROVE  NeedEvent(e, s, (s - n) % IdxMod)
<1> DEFINE old == (s - n) % IdxMod
<1>1. s \in 0 .. IdxMod - 1 /\ e \in 0 .. IdxMod - 1 /\ n \in 0 .. IdxMod - 1
  BY DEF Idx
<1>2. old = Apart(n, s)
  BY DEF Apart
<1>3. old \in Idx /\ old = IF n <= s THEN s - n ELSE s - n + IdxMod
  BY <1>2, ApartValue DEF Idx
<1>4. (s - old) % IdxMod = n
  <2>1. (s - old) % IdxMod = Apart(old, s)
    BY DEF Apart
  <2>2. Apart(old, s) = IF old <= s THEN s - old ELSE s - old + IdxMod
    BY <1>3, ApartValue
  <2> QED BY <1>1, <1>3, <2>1, <2>2, RingType
<1>5. Apart(e, s) = IF e <= s THEN s - e ELSE s - e + IdxMod
  BY ApartValue
<1>6. (s - e - 1) % IdxMod = Apart(e, s) - 1
  <2>1. CASE e <= s
    <3>1. s - e - 1 \in 0 .. IdxMod - 1
      BY <1>1, <1>5, <2>1, RingType
    <3>2. (s - e - 1) % IdxMod = s - e - 1
      BY <3>1, RingType
    <3> QED BY <1>1, <1>5, <2>1, <3>2
  <2>2. CASE ~(e <= s)
    <3>1. s - e - 1 \in -IdxMod .. -1
      BY <1>1, <2>2, RingType
    <3>2. (s - e - 1) % IdxMod = s - e - 1 + IdxMod
      BY <3>1, RingType
    <3> QED BY <1>1, <1>5, <2>2, <3>2, RingType
  <2> QED BY <2>1, <2>2
<1>7. Apart(e, s) - 1 < n
  BY <1>1, <1>5, RingType
<1> QED BY <1>4, <1>6, <1>7 DEF NeedEvent

LEMMA KickInit == Init => KickInv
<1> SUFFICES ASSUME Init PROVE KickInv
  OBVIOUS
<1>1. 0 \in Idx /\ IdxMod - 1 > 0
  BY RingType DEF Idx
<1>2. Apart(avail_idx, avail_idx_shadow) = 0
  BY <1>1, ApartAfter DEF Init
<1>3. KickTypes
  BY <1>1 DEF Init, KickTypes
<1>4. AddedSinceKick
  BY <1>2 DEF Init, AddedSinceKick
<1> QED BY <1>1, <1>3, <1>4
        DEF Init, KickInv, RoomToKick, AsksForNext, NoneMissed

\* A step that leaves the indices, the driver's count and the device alone and
\* takes away no notification
LEMMA KickKept ==
  ASSUME KickInv,
         UNCHANGED <<avail_idx_shadow, avail_idx, dev_idx, avail_event,
                     num_added, event, no_notify, in_time, dev>>,
         notified' \in BOOLEAN, notified => notified',
         pc' = pc \/ (pc # "kick" /\ pc' # "kick")
  PROVE  KickInv'
<1>1. KickTypes' /\ RoomToKick'
  BY DEF KickInv, KickTypes, RoomToKick
<1>2. AddedSinceKick'
  BY DEF KickInv, AddedSinceKick, Apart
<1>3. AsksForNext' /\ NoneMissed'
  BY DEF KickInv, AsksForNext, NoneMissed, Apart
<1> QED BY <1>1, <1>2, <1>3 DEF KickInv

LEMMA KickPublish ==
  ASSUME KickInv, Publish
  PROVE  KickInv'
<1>1. /\ avail_idx_shadow' = Plus(avail_idx_shadow, 1)
      /\ num_added' = num_added + 1
      /\ pc' = IF num_added' = IdxMod - 1 THEN "kick" ELSE "ready"
      /\ UNCHANGED <<avail_idx, dev_idx, avail_event, event, no_notify,
                     notified, in_time, dev>>
      /\ num_added < IdxMod - 1
  BY DEF Publish, memoryVars, deviceVars, KickInv, RoomToKick
<1>2. /\ avail_idx_shadow \in Idx /\ avail_idx \in Idx /\ dev_idx \in Idx
      /\ num_added \in 0 .. IdxMod - 1
  BY DEF KickInv, KickTypes, Idx
<1>3. avail_idx_shadow' \in Idx /\ num_added' \in Idx
  BY <1>1, <1>2, PlusValue, RingType DEF Idx
<1>4. KickTypes' /\ RoomToKick' /\ AsksForNext'
  <2>1. KickTypes'
    BY <1>1, <1>3 DEF KickInv, KickTypes
  <2>2. RoomToKick'
    BY <1>1, <1>2, RingType DEF RoomToKick
  <2> QED BY <1>1, <2>1, <2>2 DEF KickInv, AsksForNext
<1>5. ASSUME NEW i \in Idx, Apart(i, avail_idx_shadow) <= num_added
      PROVE  Apart(i, avail_idx_shadow') <= num_added'
  <2>1. Apart(i, avail_idx_shadow) \in 0 .. IdxMod - 1
    BY <1>2, ApartValue
  <2>2. Apart(i, avail_idx_shadow) < IdxMod - 1
    BY <1>1, <1>2, <1>5, <2>1, RingType
  <2>3. Apart(i, avail_idx_shadow') = Apart(i, avail_idx_shadow) + 1
    BY <1>1, <1>2, <2>2, ApartAfter
  <2> QED BY <1>1, <1>2, <1>5, <2>1, <2>3
<1>6. AddedSinceKick'
  BY <1>1, <1>2, <1>5 DEF KickInv, AddedSinceKick
<1>7. NoneMissed'
  BY <1>1, <1>2, <1>5 DEF KickInv, NoneMissed
<1> QED BY <1>4, <1>6, <1>7 DEF KickInv

LEMMA KickDrain ==
  ASSUME KickInv, Drain
  PROVE  KickInv'
<1>1. /\ avail_idx # avail_idx_shadow /\ avail_idx' = Plus(avail_idx, 1)
      /\ UNCHANGED <<avail_idx_shadow, num_added, dev_idx, avail_event, event,
                     no_notify, notified, in_time, dev, pc>>
  BY DEF Drain, driverVars, deviceVars
<1>2. /\ avail_idx_shadow \in Idx /\ avail_idx \in Idx
      /\ num_added \in 0 .. IdxMod - 1
  BY DEF KickInv, KickTypes, Idx
<1>3. avail_idx' \in Idx
  BY <1>1, <1>2, PlusValue
<1>4. KickTypes' /\ RoomToKick' /\ AsksForNext' /\ NoneMissed'
  BY <1>1, <1>3
  DEF KickInv, KickTypes, RoomToKick, AsksForNext, NoneMissed, Apart
<1>5. AddedSinceKick'
  <2>1. Apart(avail_idx, avail_idx_shadow) \in 0 .. IdxMod - 1
    BY <1>2, ApartValue
  <2>2. Apart(avail_idx', avail_idx_shadow') =
          Apart(avail_idx, avail_idx_shadow) - 1
    BY <1>1, <1>2, ApartAfter
  <2> QED BY <1>1, <1>2, <2>1, <2>2, RingType DEF KickInv, AddedSinceKick
<1> QED BY <1>4, <1>5 DEF KickInv

\* virtqueue_kick(): a device that sleeps and lacks a buffer asked for one that
\* was added since the last kick, and is notified.
LEMMA KickTells ==
  ASSUME KickInv, Kick
  PROVE  KickInv'
<1> DEFINE old == (avail_idx_shadow - num_added) % IdxMod
           needs == IF event THEN NeedEvent(avail_event, avail_idx_shadow, old)
                    ELSE ~no_notify
<1>1. /\ notified' = (notified \/ needs)
      /\ in_time' = (in_time /\ avail_idx = avail_idx_shadow)
      /\ num_added' = 0 /\ pc' = "ready"
      /\ UNCHANGED <<avail_idx_shadow, avail_idx, dev_idx, avail_event, event,
                     no_notify, dev>>
  BY DEF Kick, memoryVars, deviceVars
<1>2. /\ avail_idx_shadow \in Idx /\ avail_idx \in Idx /\ dev_idx \in Idx
      /\ avail_event \in Idx /\ num_added \in Idx /\ 0 \in Idx
      /\ IdxMod - 1 > 0
  BY RingType DEF KickInv, KickTypes, Idx
<1>3. KickTypes' /\ RoomToKick' /\ AsksForNext'
  BY <1>1, <1>2 DEF KickInv, KickTypes, RoomToKick, AsksForNext
<1>4. AddedSinceKick'
  <2> SUFFICES ASSUME in_time'
               PROVE  Apart(avail_idx, avail_idx_shadow)' <= num_added'
    BY DEF AddedSinceKick
  <2>1. avail_idx = avail_idx_shadow
    BY <1>1
  <2>2. Apart(avail_idx, avail_idx_shadow) = 0
    BY <1>2, <2>1, ApartAfter
  <2>3. Apart(avail_idx, avail_idx_shadow)' = 0
    BY <1>1, <2>2 DEF Apart
  <2> QED BY <1>1, <2>3
<1>5. NoneMissed'
  <2> SUFFICES ASSUME in_time', dev' = "sleep", ~notified'
               PROVE  Apart(dev_idx, avail_idx_shadow)' <= num_added'
    BY DEF NoneMissed
  <2>1. in_time /\ dev = "sleep" /\ ~notified /\ ~needs
    BY <1>1
  <2>2. Apart(dev_idx, avail_idx_shadow) <= num_added
    BY <2>1 DEF KickInv, NoneMissed
  <2>3. event /\ avail_event = dev_idx
    BY <2>1 DEF KickInv, AsksForNext
  <2>4. Apart(dev_idx, avail_idx_shadow) = 0
    <3>1. ~NeedEvent(dev_idx, avail_idx_shadow, old)
      BY <2>1, <2>3
    <3> QED BY <1>2, <2>2, <3>1, EventIsNeeded
  <2>5. Apart(dev_idx, avail_idx_shadow)' = 0
    BY <1>1, <2>4 DEF Apart
  <2> QED BY <1>1, <2>5
<1> QED BY <1>3, <1>4, <1>5 DEF KickInv

\* The device goes on, goes to sleep, or wakes.
LEMMA KickDevice ==
  ASSUME KickInv, Take \/ Ask \/ Recheck \/ Wake
  PROVE  KickInv'
<1>1. /\ UNCHANGED <<avail_idx_shadow, avail_idx, num_added, event, in_time,
                     pc>>
      /\ dev_idx' \in {dev_idx, Plus(dev_idx, 1)}
      /\ avail_event' \in {avail_event, dev_idx}
      /\ no_notify' \in BOOLEAN /\ notified' \in BOOLEAN
      /\ dev' \in {"poll", "asked", "sleep"}
  BY DEF KickInv, KickTypes, Take, Ask, Recheck, Wake, driverVars, memoryVars
<1>2. dev_idx \in Idx /\ avail_event \in Idx /\ Plus(dev_idx, 1) \in Idx
  BY PlusValue DEF KickInv, KickTypes
<1>3. KickTypes' /\ RoomToKick' /\ AddedSinceKick'
  BY <1>1, <1>2 DEF KickInv, KickTypes, RoomToKick, AddedSinceKick, Apart
<1>4. CASE Take \/ Wake
  <2>1. dev' = "poll"
    BY <1>4 DEF Take, Wake
  <2> QED BY <1>3, <2>1 DEF KickInv, AsksForNext, NoneMissed
<1>5. CASE Ask
  <2>1. /\ dev' = "asked" /\ dev_idx' = dev_idx /\ no_notify' = FALSE
        /\ event => avail_event' = dev_idx
    BY <1>5 DEF Ask
  <2> QED BY <1>1, <1>3, <2>1 DEF KickInv, AsksForNext, NoneMissed
<1>6. CASE Recheck
  <2>1. /\ dev' = IF dev_idx = avail_idx THEN "sleep" ELSE "poll"
        /\ no_notify' = (dev_idx # avail_idx /\ ~event)
        /\ UNCHANGED <<avail_event, dev_idx>> /\ dev = "asked"
    BY <1>6 DEF Recheck
  <2>2. AsksForNext'
    BY <1>1, <2>1 DEF KickInv, AsksForNext
  <2>3. NoneMissed'
    BY <1>1, <2>1 DEF KickInv, AddedSinceKick, NoneMissed, Apart
  <2> QED BY <1>3, <2>2, <2>3 DEF KickInv
<1> QED BY <1>4, <1>5, <1>6

LEMMA KickNext == KickInv /\ [Next]_vars => KickInv'
<1> SUFFICES ASSUME KickInv, [Next]_vars PROVE KickInv'
  OBVIOUS
<1>1. notified \in BOOLEAN
  BY DEF KickInv, KickTypes
<1>2. ASSUME NEW b \in Buffers, Fill(b) \/ NoSpace(b) PROVE KickInv'
  <2>1. /\ UNCHANGED <<avail_idx_shadow, avail_idx, dev_idx, avail_event,
                       num_added, event, no_notify, in_time, dev>>
        /\ notified' \in BOOLEAN /\ (notified => notified')
        /\ pc # "kick" /\ pc' # "kick"
    BY <1>1, <1>2 DEF Fill, NoSpace, driverVars, memoryVars, deviceVars
  <2> QED BY <2>1, KickKept
<1>3. CASE Arrive \/ GetBuf \/ Use \/ UNCHANGED vars
  <2>1. UNCHANGED <<avail_idx_shadow, avail_idx, dev_idx, avail_event,
                    num_added, event, no_notify, in_time, dev, notified, pc>>
    BY <1>3
    DEF Arrive, GetBuf, Use, vars, driverVars, memoryVars, deviceVars
  <2> QED BY <1>1, <2>1, KickKept
<1> QED
  BY <1>2, <1>3, KickPublish, KickDrain, KickTells, KickDevice DEF Next

LEMMA KickHeard == KickInv => KickIsHeard
<1> SUFFICES ASSUME KickInv, in_time, dev = "sleep",
                    NEW b \in Buffers, Kicked(b), ~notified
             PROVE  FALSE
  BY DEF KickIsHeard
<1>1. avail_idx_shadow \in Idx /\ dev_idx \in Idx /\ num_added \in Nat
  BY DEF KickInv, KickTypes, Idx
<1>2. Apart(dev_idx, avail_idx_shadow) \in Nat
  BY <1>1, ApartValue
<1>3. Len(Added) = Apart(dev_idx, avail_idx_shadow)
  BY <1>2 DEF Added, Named
<1>4. Len(Added) <= num_added
  BY <1>3 DEF KickInv, NoneMissed
<1> QED BY <1>1, <1>2, <1>3, <1>4 DEF Kicked

\* A device does not sleep over a buffer the driver has kicked for, on any
\* machine on which every kick came after its index had reached memory, for
\* every size of the ring and range of the indices.
THEOREM KickAlwaysHeard == Spec => []KickIsHeard
BY KickInit, KickNext, KickHeard, PTL DEF Spec
=============================================================================
