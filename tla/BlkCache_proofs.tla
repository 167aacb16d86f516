-------------------------- MODULE BlkCache_proofs --------------------------
(***************************************************************************)
(* What BlkCache guarantees for any devices, block sizes, limits and       *)
(* lengths of the list: the list, its count and its buffers stay sound,    *)
(* and no outdated node survives a write.  The lemmas of the first part    *)
(* say what the three ways to change a list, moving a node to its head,    *)
(* dropping its tail and filtering it, do to it.                           *)
(***************************************************************************)
EXTENDS BlkCache, SequenceTheorems, WellFoundedInduction, TLAPS

\* A non-empty set of natural numbers has a least member: induction, in the
\* form in which it is used below.
LEMMA LeastNatural ==
  ASSUME NEW T \in SUBSET Nat, T # {}
  PROVE  \E n \in T : \A m \in T : n <= m
<1> DEFINE R == OpToRel(<, Nat)
<1>1. IsWellFoundedOn(R, Nat)
  BY NatLessThanWellFounded
<1>2. \A m, n \in Nat : m < n => <<m, n>> \in R
  BY DEF OpToRel
<1> HIDE DEF R
<1>3. PICK n \in T : \A m \in T : ~ (<<m, n>> \in R)
  BY <1>1, WFMin
<1>4. ASSUME NEW m \in T PROVE n <= m
  <2>1. m \in Nat /\ n \in Nat
    OBVIOUS
  <2>2. ~ (<<m, n>> \in R)
    BY <1>3
  <2>3. ~ (m < n)
    BY <1>2, <2>1, <2>2
  <2> QED BY <2>1, <2>3
<1> QED BY <1>4

\* The list "to" has only nodes of the list "of", in the order they had there.
Sublist(to, of) ==
  /\ \A i \in 1 .. Len(to) : \E a \in 1 .. Len(of) : to[i] = of[a]
  /\ \A i, j \in 1 .. Len(to) : i < j =>
       \E a, b \in 1 .. Len(of) : a < b /\ to[i] = of[a] /\ to[j] = of[b]

-----------------------------------------------------------------------------
\* A node moved to the head of a list: the list is as long as before, and the
\* others keep their order (list_move).
LEMMA MoveToHead ==
  ASSUME NEW S, NEW s \in Seq(S), NEW k \in 1 .. Len(s)
  PROVE  LET t == <<s[k]>> \o RemoveAt(s, k)
         IN /\ t \in Seq(S) /\ Len(t) = Len(s)
            /\ t[1] = s[k]
            /\ \A i \in 2 .. Len(s) :
                 t[i] = IF i <= k THEN s[i - 1] ELSE s[i]
<1> DEFINE before == SubSeq(s, 1, k - 1)
           after == SubSeq(s, k + 1, Len(s))
           t == <<s[k]>> \o RemoveAt(s, k)
<1>1. /\ Len(s) \in Nat /\ k \in Nat /\ k >= 1 /\ k <= Len(s)
      /\ \A i \in 1 .. Len(s) : s[i] \in S
  BY LenProperties, ElementOfSeq
<1>2. /\ before \in Seq(S) /\ Len(before) = k - 1
      /\ \A i \in 1 .. k - 1 : before[i] = s[i]
  <2>1. \A i \in 1 .. k - 1 : s[i] \in S
    BY <1>1
  <2>2. /\ before \in Seq(S)
        /\ Len(before) = IF 1 <= k - 1 THEN k - 1 - 1 + 1 ELSE 0
        /\ \A i \in 1 .. k - 1 - 1 + 1 : before[i] = s[1 + i - 1]
    BY <1>1, <2>1, SubSeqProperties
  <2> HIDE DEF before
  <2> QED BY <1>1, <2>2
<1>3. /\ after \in Seq(S) /\ Len(after) = Len(s) - k
      /\ \A i \in 1 .. Len(s) - k : after[i] = s[k + i]
  <2>1. \A i \in k + 1 .. Len(s) : s[i] \in S
    BY <1>1
  <2>2. /\ after \in Seq(S)
        /\ Len(after) = IF k + 1 <= Len(s) THEN Len(s) - (k + 1) + 1 ELSE 0
        /\ \A i \in 1 .. Len(s) - (k + 1) + 1 : after[i] = s[k + 1 + i - 1]
    BY <1>1, <2>1, SubSeqProperties
  <2> HIDE DEF after
  <2> QED BY <1>1, <2>2
<1> DEFINE rest == before \o after
<1>4. t = <<s[k]>> \o rest
  BY DEF RemoveAt
<1> HIDE DEF before, after
<1>5. /\ rest \in Seq(S) /\ Len(rest) = Len(s) - 1
      /\ \A i \in 1 .. Len(s) - 1 : rest[i] = IF i < k THEN s[i] ELSE s[i + 1]
  <2>1. /\ rest \in Seq(S)
        /\ Len(rest) = Len(before) + Len(after)
        /\ \A i \in 1 .. Len(before) + Len(after) :
             rest[i] = IF i <= Len(before) THEN before[i] ELSE after[i - Len(before)]
    BY <1>2, <1>3, ConcatProperties
  <2> HIDE DEF rest
  <2>2. ASSUME NEW i \in 1 .. Len(s) - 1
        PROVE  rest[i] = IF i < k THEN s[i] ELSE s[i + 1]
    <3>1. CASE i < k
      <4>1. i \in 1 .. Len(before) + Len(after) /\ i <= Len(before)
              /\ i \in 1 .. k - 1
        BY <1>1, <1>2, <1>3, <3>1
      <4>2. rest[i] = before[i] /\ before[i] = s[i]
        BY <1>2, <2>1, <4>1
      <4> QED BY <3>1, <4>2
    <3>2. CASE i >= k
      <4>1. i - (k - 1) \in 1 .. Len(s) - k /\ k + (i - (k - 1)) = i + 1
        BY <1>1, <3>2
      <4>2. after[i - (k - 1)] = s[i + 1]
        BY <1>3, <4>1
      <4>3. rest[i] = after[i - (k - 1)]
        <5>1. i \in 1 .. Len(before) + Len(after) /\ ~(i <= Len(before))
          BY <1>1, <1>2, <1>3, <3>2
        <5> QED BY <1>2, <2>1, <5>1
      <4> QED BY <1>1, <3>2, <4>2, <4>3
    <3> QED BY <1>1, <3>1, <3>2
  <2> QED BY <1>1, <1>2, <1>3, <2>1, <2>2
<1> HIDE DEF rest, t
<1>6. /\ t \in Seq(S) /\ Len(t) = 1 + Len(rest)
      /\ \A i \in 1 .. 1 + Len(rest) :
           t[i] = IF i <= 1 THEN s[k] ELSE rest[i - 1]
  <2> DEFINE first == <<s[k]>>
  <2>1. first \in Seq(S) /\ Len(first) = 1 /\ first[1] = s[k]
    BY <1>1
  <2> HIDE DEF first
  <2>2. /\ first \o rest \in Seq(S)
        /\ Len(first \o rest) = Len(first) + Len(rest)
        /\ \A i \in 1 .. Len(first) + Len(rest) : (first \o rest)[i] =
             IF i <= Len(first) THEN first[i] ELSE rest[i - Len(first)]
    BY <1>5, <2>1, ConcatProperties
  <2>3. t = first \o rest
    BY <1>4 DEF first
  <2>4. /\ t \in Seq(S)
        /\ Len(t) = Len(first) + Len(rest)
        /\ \A i \in 1 .. Len(first) + Len(rest) : t[i] =
             IF i <= Len(first) THEN first[i] ELSE rest[i - Len(first)]
    BY <2>2, <2>3
  <2> QED BY <1>1, <1>5, <2>1, <2>4
<1>7. t[1] = s[k]
  BY <1>1, <1>5, <1>6
<1>8. ASSUME NEW i \in 2 .. Len(s)
      PROVE  t[i] = IF i <= k THEN s[i - 1] ELSE s[i]
  <2>1. i - 1 \in 1 .. Len(s) - 1 /\ i \in 1 .. 1 + Len(rest) /\ (i - 1) + 1 = i
    BY <1>1, <1>5
  <2>2. t[i] = rest[i - 1]
    BY <1>1, <1>6, <2>1
  <2>3. rest[i - 1] = IF i - 1 < k THEN s[i - 1] ELSE s[i]
    BY <1>1, <1>5, <2>1
  <2> QED BY <1>1, <2>2, <2>3
<1>9. t \in Seq(S) /\ Len(t) = Len(s)
  BY <1>1, <1>5, <1>6
<1> QED BY <1>7, <1>8, <1>9 DEF t

\* A node added at the head of a list (list_add).
LEMMA AddAtHead ==
  ASSUME NEW S, NEW e \in S, NEW s \in Seq(S)
  PROVE  LET t == <<e>> \o s
         IN /\ t \in Seq(S) /\ Len(t) = Len(s) + 1
            /\ t[1] = e
            /\ \A i \in 2 .. Len(t) : t[i] = s[i - 1]
<1>1. <<e>> \in Seq(S) /\ Len(<<e>>) = 1 /\ <<e>>[1] = e /\ Len(s) \in Nat
  BY LenProperties
<1>2. /\ <<e>> \o s \in Seq(S)
      /\ Len(<<e>> \o s) = Len(<<e>>) + Len(s)
      /\ \A i \in 1 .. Len(<<e>>) + Len(s) : (<<e>> \o s)[i] =
           IF i <= Len(<<e>>) THEN <<e>>[i] ELSE s[i - Len(<<e>>)]
  BY <1>1, ConcatProperties
<1> QED BY <1>1, <1>2

\* The last node dropped (list_del of block_cache.prev).
LEMMA DropLast ==
  ASSUME NEW S, NEW s \in Seq(S), Len(s) > 0
  PROVE  /\ Front(s) \in Seq(S) /\ Len(Front(s)) = Len(s) - 1
         /\ \A i \in 1 .. Len(s) - 1 : Front(s)[i] = s[i]
<1> DEFINE f == SubSeq(s, 1, Len(s) - 1)
<1>1. Len(s) \in Nat /\ \A i \in 1 .. Len(s) - 1 : s[i] \in S
  <2>1. Len(s) \in Nat
    BY LenProperties
  <2> QED BY <2>1, ElementOfSeq
<1>2. /\ f \in Seq(S)
      /\ Len(f) = IF 1 <= Len(s) - 1 THEN Len(s) - 1 - 1 + 1 ELSE 0
      /\ \A i \in 1 .. Len(s) - 1 - 1 + 1 : f[i] = s[1 + i - 1]
  BY <1>1, SubSeqProperties
<1>3. Front(s) = f
  BY DEF Front
<1> HIDE DEF f
<1>4. Len(f) = Len(s) - 1 /\ \A i \in 1 .. Len(s) - 1 : f[i] = s[i]
  <2>2. ASSUME NEW i \in 1 .. Len(s) - 1
        PROVE  f[i] = s[i]
    <3>1. i \in 1 .. Len(s) - 1 - 1 + 1 /\ 1 + i - 1 = i
      BY <1>1
    <3>2. f[i] = s[1 + i - 1]
      BY <1>2, <3>1
    <3> QED BY <3>1, <3>2
  <2>3. Len(f) = Len(s) - 1
    <3>1. Len(f) = IF 1 <= Len(s) - 1 THEN Len(s) - 1 - 1 + 1 ELSE 0
      BY <1>2
    <3>2. Len(s) \in Nat /\ Len(s) > 0
      BY <1>1
    <3> DEFINE n == Len(s)
               k == Len(f)
    <3>3. n \in Nat /\ n > 0 /\ k = IF 1 <= n - 1 THEN n - 1 - 1 + 1 ELSE 0
      BY <3>1, <3>2
    <3> HIDE DEF n, k
    <3>4. k = n - 1
      BY <3>3
    <3> QED BY <3>4 DEF n, k
  <2> QED BY <2>2, <2>3
<1> DEFINE g == Front(s)
<1>5. g = f
  BY <1>3
<1> HIDE DEF g
<1>6. g \in Seq(S) /\ Len(g) = Len(s) - 1 /\ \A i \in 1 .. Len(s) - 1 : g[i] = s[i]
  BY <1>2, <1>4, <1>5
<1> QED BY <1>6 DEF g

\* Prefix by prefix, the filter keeps the nodes of other devices in order: the
\* equation that defines it has a solution, and what it yields is a sublist.
LEMMA WithoutIsSublist ==
  ASSUME NEW S, NEW nodes \in Seq(S), NEW d
  PROVE  LET w == Without(nodes, d)
         IN /\ w \in Seq(S) /\ Len(w) <= Len(nodes)
            /\ Sublist(w, nodes)
            /\ \A i \in 1 .. Len(w) : w[i].dev # d
<1> DEFINE L == Len(nodes)
           Go(before, n) == IF nodes[n].dev = d THEN before
                            ELSE Append(before, nodes[n])
           Solves(g, m) == g = [n \in 0 .. m |-> IF n = 0 THEN <<>>
                                                 ELSE Go(g[n - 1], n)]
           kept == CHOOSE g : Solves(g, L)
<1>1. L \in Nat /\ \A i \in 1 .. L : nodes[i] \in S
  BY LenProperties, ElementOfSeq
<1>2. Without(nodes, d) = kept[L]
  BY DEF Without
<1> HIDE DEF Go, L
<1>3. \A m \in Nat : \E g : Solves(g, m)
  <2> DEFINE T == {m \in Nat : ~ \E g : Solves(g, m)}
  <2> SUFFICES ASSUME T # {} PROVE FALSE
    OBVIOUS
  <2>1. PICK m \in T : \A k \in T : m <= k
    BY LeastNatural
  <2>2. m \in Nat /\ ~ \E g : Solves(g, m)
    OBVIOUS
  <2>3. CASE m = 0
    <3> DEFINE g == [n \in 0 .. 0 |-> <<>>]
    <3>1. Solves(g, 0)
      OBVIOUS
    <3> QED BY <2>2, <2>3, <3>1
  <2>4. CASE m # 0
    <3>1. m - 1 \in Nat /\ ~(m <= m - 1)
      BY <2>2, <2>4
    <3>2. m - 1 \notin T
      BY <2>1, <3>1
    <3>3. PICK g : Solves(g, m - 1)
      BY <3>1, <3>2
    <3> DEFINE h == [n \in 0 .. m |-> IF n = m THEN Go(g[m - 1], m) ELSE g[n]]
    <3>4. ASSUME NEW n \in 0 .. m
          PROVE  h[n] = IF n = 0 THEN <<>> ELSE Go(h[n - 1], n)
      <4>1. n \in Int /\ (n # m => n \in 0 .. m - 1)
              /\ (n # 0 => n - 1 \in 0 .. m /\ n - 1 # m)
        BY <2>2
      <4>2. n # m => g[n] = IF n = 0 THEN <<>> ELSE Go(g[n - 1], n)
        BY <3>3, <4>1
      <4>3. n # 0 => h[n - 1] = g[n - 1]
        BY <4>1
      <4> QED BY <2>2, <2>4, <4>1, <4>2, <4>3
    <3>5. Solves(h, m)
      BY <3>4
    <3> QED BY <2>2, <3>5
  <2> QED BY <2>3, <2>4
<1>4. Solves(kept, L)
  BY <1>1, <1>3
<1> HIDE DEF kept
<1>5. \A n \in 0 .. L : kept[n] = IF n = 0 THEN <<>> ELSE Go(kept[n - 1], n)
  BY <1>4
<1> HIDE DEF Solves
<1> DEFINE Prefix(n) ==
      /\ kept[n] \in Seq(S) /\ Len(kept[n]) <= n
      /\ \A i \in 1 .. Len(kept[n]) :
           /\ kept[n][i].dev # d
           /\ \E a \in 1 .. n : kept[n][i] = nodes[a]
      /\ \A i, j \in 1 .. Len(kept[n]) : i < j =>
           \E a, b \in 1 .. n : a < b /\ kept[n][i] = nodes[a]
                                      /\ kept[n][j] = nodes[b]
<1>6. Prefix(0)
  <2>1. kept[0] = <<>>
    BY <1>1, <1>5
  <2> QED BY <2>1
<1>7. ASSUME NEW n \in Nat, n + 1 \in 0 .. L, Prefix(n)
      PROVE  Prefix(n + 1)
  <2> DEFINE s == kept[n]
             t == kept[n + 1]
             node == nodes[n + 1]
  <2>1. t = IF node.dev = d THEN s ELSE Append(s, node)
    BY <1>5, <1>7 DEF Go
  <2>2. node \in S
    BY <1>1, <1>7
  <2>3. /\ s \in Seq(S) /\ Len(s) \in Nat /\ Len(s) <= n
        /\ \A i \in 1 .. Len(s) :
             s[i].dev # d /\ \E a \in 1 .. n : s[i] = nodes[a]
        /\ \A i, j \in 1 .. Len(s) : i < j =>
             \E a, b \in 1 .. n : a < b /\ s[i] = nodes[a] /\ s[j] = nodes[b]
    BY <1>7, LenProperties
  <2>4. SUFFICES /\ t \in Seq(S) /\ Len(t) <= n + 1
                 /\ \A i \in 1 .. Len(t) :
                      t[i].dev # d /\ \E a \in 1 .. n + 1 : t[i] = nodes[a]
                 /\ \A i, j \in 1 .. Len(t) : i < j =>
                      \E a, b \in 1 .. n + 1 :
                        a < b /\ t[i] = nodes[a] /\ t[j] = nodes[b]
    OBVIOUS
  <2> HIDE DEF s, t
  <2>5. 1 .. n \subseteq 1 .. n + 1
    OBVIOUS
  <2>6. CASE node.dev = d
    <3>1. t = s
      BY <2>1, <2>6
    <3>2. Len(s) <= n + 1
      BY <2>3
    <3>3. ASSUME NEW i \in 1 .. Len(s)
          PROVE  s[i].dev # d /\ \E a \in 1 .. n + 1 : s[i] = nodes[a]
      BY <2>3, <2>5
    <3>4. ASSUME NEW i \in 1 .. Len(s), NEW j \in 1 .. Len(s), i < j
          PROVE  \E a, b \in 1 .. n + 1 :
                   a < b /\ s[i] = nodes[a] /\ s[j] = nodes[b]
      BY <2>3, <2>5, <3>4
    <3> QED BY <2>3, <3>1, <3>2, <3>3, <3>4
  <2>7. CASE node.dev # d
    <3>1. t = Append(s, node)
      BY <2>1, <2>7
    <3>2. /\ t \in Seq(S) /\ Len(t) = Len(s) + 1
          /\ \A i \in 1 .. Len(s) : t[i] = s[i]
          /\ t[Len(s) + 1] = node
      BY <2>2, <2>3, <3>1
    <3>3. node = nodes[n + 1] /\ n + 1 \in 1 .. n + 1
      OBVIOUS
    <3> HIDE DEF node
    <3>4. ASSUME NEW i \in 1 .. Len(t)
          PROVE  t[i].dev # d /\ \E a \in 1 .. n + 1 : t[i] = nodes[a]
      <4>1. CASE i = Len(s) + 1
        BY <2>7, <3>2, <3>3, <4>1
      <4>2. CASE i # Len(s) + 1
        <5>1. i \in 1 .. Len(s)
          BY <2>3, <3>2, <4>2
        <5>2. t[i] = s[i] /\ s[i].dev # d
          BY <2>3, <3>2, <5>1
        <5>3. PICK a \in 1 .. n : s[i] = nodes[a]
          BY <2>3, <5>1
        <5> QED BY <2>5, <5>2, <5>3
      <4> QED BY <4>1, <4>2
    <3>5. ASSUME NEW i \in 1 .. Len(t), NEW j \in 1 .. Len(t), i < j
          PROVE  \E a, b \in 1 .. n + 1 :
                   a < b /\ t[i] = nodes[a] /\ t[j] = nodes[b]
      <4>1. i \in 1 .. Len(s) /\ t[i] = s[i]
        BY <2>3, <3>2, <3>5
      <4>2. CASE j = Len(s) + 1
        <5>1. PICK a \in 1 .. n : s[i] = nodes[a]
          BY <2>3, <4>1
        <5>2. a \in 1 .. n + 1 /\ a < n + 1
          BY <2>5
        <5> QED BY <3>2, <3>3, <4>1, <4>2, <5>1, <5>2
      <4>3. CASE j # Len(s) + 1
        <5>1. j \in 1 .. Len(s) /\ t[j] = s[j]
          BY <2>3, <3>2, <4>3
        <5>2. PICK a \in 1 .. n, b \in 1 .. n :
                a < b /\ s[i] = nodes[a] /\ s[j] = nodes[b]
          BY <2>3, <3>5, <4>1, <5>1
        <5> QED BY <2>5, <4>1, <5>1, <5>2
      <4> QED BY <4>2, <4>3
    <3>6. Len(t) <= n + 1
      BY <2>3, <3>2
    <3> QED BY <3>2, <3>4, <3>5, <3>6
  <2> QED BY <2>6, <2>7
<1> HIDE DEF Prefix
<1>8. \A n \in 0 .. L : Prefix(n)
  <2> DEFINE T == {n \in Nat : n <= L /\ ~Prefix(n)}
  <2> SUFFICES ASSUME T # {} PROVE FALSE
    BY <1>1
  <2>1. PICK m \in T : \A k \in T : m <= k
    BY LeastNatural
  <2>2. m \in 0 .. L /\ m \in Nat /\ ~Prefix(m)
    BY <1>1
  <2>3. m # 0
    BY <1>6, <2>2
  <2>4. m - 1 \in Nat /\ m - 1 \in 0 .. L /\ ~(m <= m - 1) /\ (m - 1) + 1 = m
    BY <1>1, <2>2, <2>3
  <2>5. Prefix(m - 1)
    BY <2>1, <2>4
  <2>6. Prefix((m - 1) + 1)
    BY <1>7, <2>2, <2>4, <2>5
  <2> QED BY <2>2, <2>4, <2>6
<1>9. Prefix(L)
  BY <1>1, <1>8
<1> DEFINE w == Without(nodes, d)
<1>10. w = kept[L]
  BY <1>2
<1> HIDE DEF w
<1>11. /\ w \in Seq(S) /\ Len(w) <= L
       /\ \A i \in 1 .. Len(w) : w[i].dev # d /\ \E a \in 1 .. L : w[i] = nodes[a]
       /\ \A i, j \in 1 .. Len(w) : i < j =>
            \E a, b \in 1 .. L : a < b /\ w[i] = nodes[a] /\ w[j] = nodes[b]
  BY <1>9, <1>10 DEF Prefix
<1>12. Len(w) <= Len(nodes) /\ Sublist(w, nodes)
  BY <1>11 DEF Sublist, L
<1>13. w \in Seq(S) /\ \A i \in 1 .. Len(w) : w[i].dev # d
  BY <1>11
<1> QED BY <1>12, <1>13 DEF w

-----------------------------------------------------------------------------
Nodes == [dev : Devs, start : Nat, blkcnt : Nat, data : Contents,
          room : Nat, from : HwParts]

\* A run of blocks of a device, in a buffer that holds it
Whole(node) ==
  /\ <<node.start, node.blkcnt>> \in Runs
  /\ node.blkcnt * Blksz[node.dev] <= node.room

\* The node does not make one further down the list useless.
Spares(node, later) ==
  node.dev = later.dev =>
    \/ node.start < later.start
    \/ node.start + node.blkcnt > later.start + later.blkcnt

Sound(nodes) ==
  /\ nodes \in Seq(Nodes)
  /\ \A i \in 1 .. Len(nodes) : Whole(nodes[i])
  /\ \A i, j \in 1 .. Len(nodes) : i < j => Spares(nodes[i], nodes[j])

\* The nodes hold what c says is on the devices.
Current(nodes, c) ==
  \A i \in 1 .. Len(nodes) : nodes[i].data = c[nodes[i].dev][nodes[i].from]

\* The inductive invariant.  ListSound says nothing of where the list comes
\* from and is all but inductive: what it needs besides is that the list is
\* one, of nodes, for the count to be its length.
IInv ==
  /\ content \in [Devs -> [HwParts -> Contents]]
  /\ hwpart \in [Devs -> HwParts]
  /\ max_entries \in Limits
  /\ max_blocks_per_entry \in Limits
  /\ Sound(cache)
  /\ Current(cache, content)
  /\ CountMatches

\* Leaving nodes out of a list disturbs none of the others.
LEMMA SublistSound ==
  ASSUME NEW to \in Seq(Nodes), NEW of, Sound(of), Sublist(to, of)
  PROVE  Sound(to)
<1>1. ASSUME NEW i \in 1 .. Len(to) PROVE Whole(to[i])
  BY <1>1 DEF Sublist, Sound
<1>2. ASSUME NEW i \in 1 .. Len(to), NEW j \in 1 .. Len(to), i < j
      PROVE  Spares(to[i], to[j])
  <2>1. PICK a \in 1 .. Len(of), b \in 1 .. Len(of) :
          a < b /\ to[i] = of[a] /\ to[j] = of[b]
    BY <1>2 DEF Sublist
  <2>2. Spares(of[a], of[b])
    BY <2>1 DEF Sound
  <2> QED BY <2>1, <2>2
<1> QED BY <1>1, <1>2 DEF Sound

\* A sublist holds what the list held.
LEMMA SublistCurrent ==
  ASSUME NEW to, NEW of, NEW c, Current(of, c), Sublist(to, of)
  PROVE  Current(to, c)
BY DEF Current, Sublist

\* The first node that covers a run moves to the head: none of those it
\* passes covers the run, so it spares them all (cache_find).
LEMMA HitSound ==
  ASSUME Sound(cache), NEW d \in Devs, NEW r \in Runs, Hit(d, r)
  PROVE  /\ Sound(cache') /\ Len(cache') = Len(cache)
         /\ \A c : Current(cache, c) => Current(cache', c)
<1>1. cache \in Seq(Nodes) /\ Len(cache) \in Nat /\ DOMAIN cache = 1 .. Len(cache)
  BY LenProperties DEF Sound
<1>2. PICK k \in 1 .. Len(cache) :
        /\ Covers(cache[k], d, r)
        /\ \A j \in 1 .. Len(cache) : Covers(cache[j], d, r) => k <= j
        /\ cache' = <<cache[k]>> \o RemoveAt(cache, k)
  BY <1>1 DEF Hit, Hits
<1> DEFINE t == cache'
<1>3. /\ t \in Seq(Nodes) /\ Len(t) = Len(cache)
      /\ t[1] = cache[k]
      /\ \A i \in 2 .. Len(cache) :
           t[i] = IF i <= k THEN cache[i - 1] ELSE cache[i]
  BY <1>1, <1>2, MoveToHead
<1> HIDE DEF t
<1>4. ASSUME NEW i \in 1 .. Len(t)
      PROVE  \E a \in 1 .. Len(cache) :
               /\ t[i] = cache[a]
               /\ i = 1 => a = k
               /\ i # 1 => a = IF i <= k THEN i - 1 ELSE i
  <2>1. CASE i = 1
    BY <1>3, <2>1
  <2>2. CASE i # 1 /\ i <= k
    <3>1. i \in 2 .. Len(cache) /\ i - 1 \in 1 .. Len(cache)
      BY <1>1, <1>3, <2>2
    <3> QED BY <1>3, <2>2, <3>1
  <2>3. CASE i # 1 /\ ~(i <= k)
    <3>1. i \in 2 .. Len(cache) /\ i \in 1 .. Len(cache)
      BY <1>1, <1>3, <2>3
    <3> QED BY <1>3, <2>3, <3>1
  <2> QED BY <2>1, <2>2, <2>3
<1>5. \A i \in 1 .. Len(t) : Whole(t[i])
  BY <1>4 DEF Sound
<1>6. ASSUME NEW i \in 1 .. Len(t), NEW j \in 1 .. Len(t), i < j
      PROVE  Spares(t[i], t[j])
  <2>1. PICK a \in 1 .. Len(cache) :
          /\ t[i] = cache[a]
          /\ i = 1 => a = k
          /\ i # 1 => a = IF i <= k THEN i - 1 ELSE i
    BY <1>4
  <2>2. PICK b \in 1 .. Len(cache) :
          t[j] = cache[b] /\ b = IF j <= k THEN j - 1 ELSE j
    <3>1. j # 1
      BY <1>3, <1>6
    <3> QED BY <1>4, <3>1
  <2>3. CASE i # 1 \/ k < b
    <3>1. a < b
      BY <1>3, <1>6, <2>1, <2>2, <2>3
    <3> QED BY <2>1, <2>2, <3>1 DEF Sound
  <2>4. CASE i = 1 /\ ~(k < b)
    <3>1. j <= k /\ b < k
      BY <1>3, <1>6, <2>2, <2>4
    <3>2. ~Covers(cache[b], d, r)
      BY <1>2, <3>1
    <3>3. /\ cache[k] \in Nodes /\ cache[b] \in Nodes
          /\ r[1] \in Int /\ r[2] \in Int
      BY <1>1, ElementOfSeq DEF Runs
    <3> DEFINE n == cache[k]
               m == cache[b]
    <3>4. /\ n.start \in Int /\ n.blkcnt \in Int
          /\ m.start \in Int /\ m.blkcnt \in Int
      <4>1. \A e \in Nodes : e.start \in Int /\ e.blkcnt \in Int
        BY DEF Nodes
      <4> QED BY <3>3, <4>1
    <3>5. /\ n.dev = d /\ n.start <= r[1]
          /\ n.start + n.blkcnt >= r[1] + r[2]
      BY <1>2 DEF Covers
    <3>6. ~Covers(m, d, r)
      BY <3>2
    <3> HIDE DEF n, m
    <3>7. r[1] \in Int /\ r[2] \in Int
      BY <3>3
    <3>8. m.dev = d => r[1] < m.start \/ m.start + m.blkcnt < r[1] + r[2]
      <4> DEFINE y == m.start + m.blkcnt
                 z == r[1] + r[2]
      <4>1. y \in Int
        BY <3>4
      <4>2. z \in Int
        BY <3>7
      <4>3. ~(m.dev = d /\ m.start <= r[1] /\ y >= z)
        BY <3>6 DEF Covers
      <4> HIDE DEF y, z
      <4>4. m.dev = d => r[1] < m.start \/ y < z
        BY <3>4, <3>7, <4>1, <4>2, <4>3
      <4> QED BY <4>4 DEF y, z
    <3>9. m.dev = d => \/ n.start < m.start
                       \/ n.start + n.blkcnt > m.start + m.blkcnt
      <4>1. ASSUME r[1] < m.start PROVE n.start < m.start
        BY <3>4, <3>5, <3>7, <4>1
      <4>2. ASSUME m.start + m.blkcnt < r[1] + r[2]
            PROVE  n.start + n.blkcnt > m.start + m.blkcnt
        <5> DEFINE x == n.start + n.blkcnt
                   y == m.start + m.blkcnt
                   z == r[1] + r[2]
        <5>1. x \in Int /\ y \in Int /\ z \in Int
          <6>1. x \in Int
            BY <3>4
          <6>2. y \in Int
            BY <3>4
          <6>3. z \in Int
            BY <3>7
          <6> QED BY <6>1, <6>2, <6>3
        <5>2. x >= z /\ y < z
          BY <3>5, <4>2
        <5> HIDE DEF x, y, z
        <5>3. x > y
          BY <5>1, <5>2
        <5> QED BY <5>3 DEF x, y
      <4> QED BY <3>8, <4>1, <4>2
    <3>10. Spares(n, m)
      BY <3>5, <3>9 DEF Spares
    <3>11. t[i] = n /\ t[j] = m
      BY <2>1, <2>2, <2>4 DEF n, m
    <3> QED BY <3>10, <3>11
  <2> QED BY <2>3, <2>4
<1>7. ASSUME NEW c, Current(cache, c) PROVE Current(t, c)
  BY <1>4, <1>7 DEF Current
<1> QED BY <1>3, <1>5, <1>6, <1>7 DEF t, Sound

\* A node added before a list none of whose nodes covers its run (list_add).
LEMMA AddedSound ==
  ASSUME NEW nodes, Sound(nodes), NEW d \in Devs, NEW r \in Runs,
         \A j \in 1 .. Len(nodes) : ~Covers(nodes[j], d, r),
         NEW node \in Nodes, Whole(node),
         node.dev = d, node.start = r[1], node.blkcnt = r[2],
         NEW c, Current(nodes, c), node.data = c[node.dev][node.from]
  PROVE  LET t == <<node>> \o nodes
         IN Sound(t) /\ Current(t, c) /\ Len(t) = Len(nodes) + 1
<1> DEFINE t == <<node>> \o nodes
<1>1. nodes \in Seq(Nodes) /\ Len(nodes) \in Nat
  BY LenProperties DEF Sound
<1>2. /\ t \in Seq(Nodes) /\ Len(t) = Len(nodes) + 1
      /\ t[1] = node
      /\ \A i \in 2 .. Len(t) : t[i] = nodes[i - 1]
  BY <1>1, AddAtHead
<1> HIDE DEF t
<1>3. \A i \in 1 .. Len(t) : i # 1 => i \in 2 .. Len(t) /\ i - 1 \in 1 .. Len(nodes)
  BY <1>1, <1>2
<1>4. ASSUME NEW i \in 1 .. Len(t)
      PROVE  Whole(t[i]) /\ t[i].data = c[t[i].dev][t[i].from]
  BY <1>2, <1>3 DEF Sound, Current
<1>5. ASSUME NEW i \in 1 .. Len(t), NEW j \in 1 .. Len(t), i < j
      PROVE  Spares(t[i], t[j])
  <2>1. j # 1 /\ t[j] = nodes[j - 1] /\ j - 1 \in 1 .. Len(nodes)
    BY <1>2, <1>3, <1>5
  <2>2. CASE i = 1
    <3> DEFINE m == nodes[j - 1]
    <3>1. /\ m \in Nodes /\ ~Covers(m, d, r)
          /\ r[1] \in Int /\ r[2] \in Int
      BY <1>1, <2>1, ElementOfSeq DEF Runs
    <3>2. t[j] = m /\ t[i] = node
      BY <1>2, <2>1, <2>2
    <3> HIDE DEF m
    <3>3. m.start \in Int /\ m.blkcnt \in Int
      BY <3>1 DEF Nodes
    <3>4. m.dev = d => r[1] < m.start \/ m.start + m.blkcnt < r[1] + r[2]
      BY <3>1, <3>3 DEF Covers
    <3> QED BY <3>1, <3>2, <3>3, <3>4 DEF Spares
  <2>3. CASE i # 1
    <3>1. t[i] = nodes[i - 1] /\ i - 1 \in 1 .. Len(nodes) /\ i - 1 < j - 1
      BY <1>2, <1>3, <1>5, <2>3
    <3> QED BY <2>1, <3>1 DEF Sound
  <2> QED BY <2>2, <2>3
<1> QED BY <1>2, <1>4, <1>5 DEF t, Sound, Current

\* The list without its last node
LEMMA FrontSublist ==
  ASSUME NEW nodes \in Seq(Nodes), Len(nodes) > 0
  PROVE  /\ Front(nodes) \in Seq(Nodes) /\ Len(Front(nodes)) = Len(nodes) - 1
         /\ Sublist(Front(nodes), nodes)
<1> DEFINE f == Front(nodes)
<1>1. Len(nodes) \in Nat
  BY LenProperties
<1>2. /\ f \in Seq(Nodes) /\ Len(f) = Len(nodes) - 1
      /\ \A i \in 1 .. Len(nodes) - 1 : f[i] = nodes[i]
  BY DropLast
<1> HIDE DEF f
<1>3. \A i \in 1 .. Len(f) : i \in 1 .. Len(nodes) /\ f[i] = nodes[i]
  BY <1>1, <1>2
<1>4. Sublist(f, nodes)
  BY <1>3 DEF Sublist
<1> QED BY <1>2, <1>4 DEF f

\* What a write or erase leaves of the list (blkcache_invalidate).
LEMMA InvalidateSound ==
  ASSUME IInv, NEW d \in Devs, Invalidate(d)
  PROVE  /\ Sound(cache') /\ Current(cache', content)
         /\ \A i \in 1 .. Len(cache') : cache'[i].dev # d
         /\ entries' = Len(cache') /\ entries' <= entries
<1> DEFINE w == Without(cache, d)
<1>1. cache' = w /\ entries' = entries - (Len(cache) - Len(w))
  BY DEF Invalidate
<1>2. cache \in Seq(Nodes) /\ Len(cache) \in Nat /\ entries = Len(cache)
  BY LenProperties DEF IInv, Sound, CountMatches
<1>3. /\ w \in Seq(Nodes) /\ Len(w) <= Len(cache)
      /\ Sublist(w, cache)
      /\ \A i \in 1 .. Len(w) : w[i].dev # d
  BY <1>2, WithoutIsSublist
<1> HIDE DEF w
<1>4. Sound(w) /\ Current(w, content) /\ Len(w) \in Nat
  BY <1>3, SublistSound, SublistCurrent, LenProperties DEF IInv
<1> QED BY <1>1, <1>2, <1>3, <1>4

-----------------------------------------------------------------------------
\* An empty list is sound.
LEMMA InitIInv == Init => IInv
<1> SUFFICES ASSUME Init PROVE IInv
  OBVIOUS
<1>1. Sound(cache) /\ Current(cache, content)
  BY DEF Init, Sound, Current
<1>2. CountMatches
  BY BlkAssumption DEF Init, CountMatches
<1>3. hwpart \in [Devs -> HwParts]
  BY BlkAssumption DEF Init
<1> QED BY <1>1, <1>2, <1>3 DEF Init, IInv

\* After a miss: whether the list is full or not, the last node's buffer handed
\* on or not, and the allocation failing or not (blkcache_fill).
LEMMA FillIInv ==
  ASSUME IInv, NEW d \in Devs, NEW r \in Runs, Hits(d, r) = {}, Fill(d, r),
         UNCHANGED <<content, hwpart, limits>>
  PROVE  IInv'
<1> DEFINE bytes == Blksz[d] * r[2]
           full == max_entries <= entries
           kept == IF full THEN Front(cache) ELSE cache
           reused == full /\ Reusable(Last(cache), bytes)
           room == IF reused THEN Last(cache).room ELSE bytes
           node == Node(d, r, room)
<1>1. /\ cache \in Seq(Nodes) /\ Len(cache) \in Nat /\ entries = Len(cache)
      /\ DOMAIN cache = 1 .. Len(cache)
      /\ max_entries \in Nat /\ entries <= max_entries
  BY LenProperties, BlkAssumption DEF IInv, Sound, CountMatches
<1>2. CASE r[2] > max_blocks_per_entry \/ max_entries = 0
  <2>1. cache' = cache /\ entries' = entries
    BY <1>2 DEF Fill
  <2> QED BY <2>1 DEF IInv, CountMatches, limits
<1>3. CASE ~(r[2] > max_blocks_per_entry \/ max_entries = 0)
  <2>1. full => Len(cache) > 0 /\ entries = max_entries
    BY <1>1, <1>3
  <2>2. /\ kept \in Seq(Nodes) /\ Sublist(kept, cache)
        /\ Len(kept) = IF full THEN Len(cache) - 1 ELSE Len(cache)
    <3>1. CASE full
      BY <1>1, <2>1, <3>1, FrontSublist
    <3>2. CASE ~full
      BY <1>1, <3>2 DEF Sublist
    <3> QED BY <3>1, <3>2
  <2>3. Sound(kept) /\ Current(kept, content)
    BY <2>2, SublistSound, SublistCurrent DEF IInv
  <2>4. \A j \in 1 .. Len(kept) : ~Covers(kept[j], d, r)
    BY <1>1, <2>2 DEF Hits, Sublist
  <2>5. /\ Blksz[d] \in Nat /\ r[1] \in Nat /\ r[2] \in Nat
        /\ r = <<r[1], r[2]>> /\ bytes \in Nat /\ r[2] * Blksz[d] = bytes
    BY BlkAssumption DEF Runs
  <2>6. room \in Nat /\ bytes <= room
    <3>1. CASE reused
      <4> DEFINE last == cache[Len(cache)]
      <4>1. full /\ Last(cache) = last /\ Reusable(last, bytes)
        BY <3>1 DEF Last
      <4>2. last \in Nodes /\ Whole(last)
        BY <1>1, <2>1, <4>1, ElementOfSeq DEF IInv, Sound
      <4> DEFINE held == last.blkcnt * Blksz[last.dev]
      <4>3. held \in Nat /\ last.room \in Nat
        BY <4>2, BlkAssumption DEF Nodes
      <4>4. held <= last.room /\ held >= bytes
        BY <4>1, <4>2 DEF Whole, Reusable
      <4>5. room = last.room
        BY <3>1, <4>1
      <4> HIDE DEF held, room, bytes, last
      <4> QED BY <2>5, <4>3, <4>4, <4>5
    <3>2. CASE ~reused
      BY <2>5, <3>2
    <3> QED BY <3>1, <3>2
  <2>7. UNCHANGED <<content, hwpart, max_entries, max_blocks_per_entry>>
    BY DEF limits
  <2>8. CASE /\ cache' = <<node>> \o kept
             /\ entries' = IF full THEN entries ELSE entries + 1
    <3> HIDE DEF kept, room
    <3>1. content[d] \in [HwParts -> Contents] /\ hwpart[d] \in HwParts
      BY DEF IInv
    <3>2. /\ node \in Nodes /\ node.dev = d /\ node.start = r[1]
          /\ node.blkcnt = r[2] /\ node.room = room
          /\ node.data = content[node.dev][node.from]
      BY <2>5, <2>6, <3>1 DEF Node, Nodes, Device
    <3> HIDE DEF node
    <3>3. Whole(node)
      BY <2>5, <2>6, <3>2 DEF Whole
    <3>4. /\ Sound(cache') /\ Current(cache', content)
          /\ Len(cache') = Len(kept) + 1
      BY <2>3, <2>4, <2>8, <3>2, <3>3, AddedSound
    <3>5. CountMatches'
      BY <1>1, <2>1, <2>2, <2>7, <2>8, <3>4 DEF CountMatches
    <3> QED BY <2>7, <3>4, <3>5 DEF IInv
  <2>9. CASE /\ cache' = kept
             /\ entries' = IF full THEN entries - 1 ELSE entries
    <3> HIDE DEF kept
    <3>1. CountMatches'
      BY <1>1, <2>1, <2>2, <2>7, <2>9 DEF CountMatches
    <3> QED BY <2>3, <2>7, <2>9, <3>1 DEF IInv
  <2> QED BY <1>3, <2>8, <2>9 DEF Fill
<1> QED BY <1>2, <1>3

\* Every operation of the cache and of the devices keeps the invariant.
LEMMA NextIInv == IInv /\ [Next]_vars => IInv'
<1> SUFFICES ASSUME IInv, [Next]_vars PROVE IInv'
  OBVIOUS
<1>1. ASSUME NEW d \in Devs, NEW r \in Runs, Read(d, r) PROVE IInv'
  <2>1. CASE Hits(d, r) # {} /\ Hit(d, r)
    <3>1. UNCHANGED <<content, hwpart, entries, max_entries, max_blocks_per_entry>>
      BY <2>1 DEF Hit, limits
    <3>2. /\ Sound(cache') /\ Len(cache') = Len(cache)
          /\ Current(cache', content)
      BY <2>1, HitSound DEF IInv
    <3> QED BY <3>1, <3>2 DEF IInv, CountMatches
  <2>2. CASE Hits(d, r) = {} /\ Fill(d, r) /\ UNCHANGED <<content, hwpart, limits>>
    BY <2>2, FillIInv
  <2> QED BY <1>1, <2>1, <2>2 DEF Read
<1>2. ASSUME NEW d \in Devs, Write(d) PROVE IInv'
  <2>1. PICK v \in Contents : content' = [content EXCEPT ![d][hwpart[d]] = v]
    BY <1>2 DEF Write
  <2>2. UNCHANGED <<hwpart, max_entries, max_blocks_per_entry>>
    BY <1>2 DEF Write, limits
  <2>3. /\ Sound(cache') /\ Current(cache', content)
        /\ \A i \in 1 .. Len(cache') : cache'[i].dev # d
        /\ entries' = Len(cache') /\ entries' <= entries
    BY <1>2, InvalidateSound DEF Write
  <2>4. content' \in [Devs -> [HwParts -> Contents]]
    BY <2>1 DEF IInv
  <2>5. \A e \in Devs : e # d => content'[e] = content[e]
    BY <2>1 DEF IInv
  <2>6. Current(cache', content')
    <3>1. ASSUME NEW i \in 1 .. Len(cache')
          PROVE  cache'[i].dev \in Devs
      <4>1. cache' \in Seq(Nodes)
        BY <2>3 DEF Sound
      <4>2. cache'[i] \in Nodes
        BY <4>1, ElementOfSeq
      <4> QED BY <4>2 DEF Nodes
    <3> QED BY <2>3, <2>5, <3>1 DEF Current
  <2>7. CountMatches'
    <3>1. entries' \in Nat /\ entries \in Nat /\ max_entries \in Nat
            /\ entries <= max_entries
      BY <2>3, LenProperties, BlkAssumption DEF IInv, Sound, CountMatches
    <3> QED BY <2>2, <2>3, <3>1 DEF CountMatches
  <2> QED BY <2>2, <2>3, <2>4, <2>6, <2>7 DEF IInv
<1>3. ASSUME NEW d \in Devs, NEW p \in HwParts, Select(d, p) PROVE IInv'
  <2>1. /\ hwpart' = [hwpart EXCEPT ![d] = p]
        /\ UNCHANGED <<content, cache, entries, max_entries, max_blocks_per_entry>>
    BY <1>3 DEF Select, limits
  <2> QED BY <2>1 DEF IInv, CountMatches
<1>4. ASSUME NEW d \in Devs, NEW p \in HwParts, SelectAndInit(d, p) PROVE IInv'
  <2>1. /\ hwpart' = [hwpart EXCEPT ![d] = p]
        /\ UNCHANGED <<content, max_entries, max_blocks_per_entry>>
    BY <1>4 DEF SelectAndInit, limits
  <2>2. /\ Sound(cache') /\ Current(cache', content)
        /\ entries' = Len(cache') /\ entries' <= entries
    BY <1>4, InvalidateSound DEF SelectAndInit
  <2>3. CountMatches'
    <3>1. entries' \in Nat /\ entries \in Nat /\ max_entries \in Nat
            /\ entries <= max_entries
      BY <2>2, LenProperties, BlkAssumption DEF IInv, Sound, CountMatches
    <3> QED BY <2>1, <2>2, <3>1 DEF CountMatches
  <2> QED BY <2>1, <2>2, <2>3 DEF IInv
<1>5. ASSUME NEW blocks \in Limits, NEW number \in Limits,
             Configure(blocks, number)
      PROVE  IInv'
  <2>1. /\ max_blocks_per_entry' = blocks /\ max_entries' = number
        /\ UNCHANGED <<content, hwpart>>
    BY <1>5 DEF Configure
  <2>2. CASE blocks # max_blocks_per_entry \/ number # max_entries
    <3>1. cache' = <<>> /\ entries' = 0
      BY <1>5, <2>2 DEF Configure
    <3>2. Sound(cache') /\ Current(cache', content)
      BY <3>1 DEF Sound, Current
    <3>3. CountMatches'
      BY <2>1, <3>1, BlkAssumption DEF CountMatches
    <3> QED BY <2>1, <3>2, <3>3 DEF IInv
  <2>3. CASE ~(blocks # max_blocks_per_entry \/ number # max_entries)
    <3>1. UNCHANGED <<cache, entries, max_entries>>
      BY <1>5, <2>1, <2>3 DEF Configure
    <3> QED BY <2>1, <3>1 DEF IInv, CountMatches
  <2> QED BY <2>2, <2>3
<1>6. CASE UNCHANGED vars
  BY <1>6 DEF vars, limits, IInv, CountMatches
<1> QED BY <1>1, <1>2, <1>3, <1>4, <1>5, <1>6 DEF Next

\* The inductive invariant holds in every reachable state.
THEOREM Invariance == Spec => []IInv
BY InitIInv, NextIInv, PTL DEF Spec

\* However reads, writes, erases, failed allocations, selections and changes
\* of limits follow each other: the count of blkcache_fill() is the length of
\* the list, so that it never drops the last node of an empty one; every
\* buffer holds its blocks, whichever device it served before; and no node is
\* made useless by one before it.
THEOREM ListAlwaysSound == Spec => []ListSound
<1>1. IInv => ListSound
  <2> SUFFICES ASSUME IInv PROVE ListSound
    OBVIOUS
  <2>1. /\ cache \in Seq(Nodes) /\ DOMAIN cache = 1 .. Len(cache)
        /\ entries = Len(cache) /\ Len(cache) \in Nat
    BY LenProperties DEF IInv, Sound, CountMatches
  <2>2. \A i \in 1 .. Len(cache) : cache[i] \in Nodes /\ Whole(cache[i])
    BY <2>1, ElementOfSeq DEF IInv, Sound
  <2>3. TypeOK
    <3>1. /\ content \in [Devs -> [HwParts -> Contents]]
          /\ hwpart \in [Devs -> HwParts] /\ entries \in Nat
          /\ max_entries \in Limits /\ max_blocks_per_entry \in Limits
      BY <2>1 DEF IInv
    <3>2. ASSUME NEW i \in DOMAIN cache
          PROVE  /\ cache[i].dev \in Devs
                 /\ <<cache[i].start, cache[i].blkcnt>> \in Runs
                 /\ cache[i].data \in Contents
                 /\ cache[i].room \in Nat
                 /\ cache[i].from \in HwParts
      BY <2>1, <2>2 DEF Nodes, Whole
    <3> QED BY <3>1, <3>2 DEF TypeOK
  <2>4. FitsBuffer
    BY <2>1, <2>2 DEF FitsBuffer, Whole
  <2>5. NoDuplicates
    BY <2>1 DEF NoDuplicates, IInv, Sound, Spares
  <2> QED BY <2>3, <2>4, <2>5 DEF ListSound, IInv
<1> QED BY <1>1, Invariance, PTL

\* What the cache holds of a hardware partition is what that partition holds,
\* for any number of devices, partitions and nodes (blkcache_invalidate before
\* every blk_dwrite and blk_derase).
THEOREM CacheStaysCoherent == Spec => []Coherent
<1>1. IInv => Coherent
  <2> SUFFICES ASSUME IInv PROVE Coherent
    OBVIOUS
  <2>1. DOMAIN cache = 1 .. Len(cache)
    BY LenProperties DEF IInv, Sound
  <2> QED BY <2>1 DEF IInv, Current, Coherent
<1> QED BY <1>1, Invariance, PTL
=============================================================================
