-------------------------- MODULE ServiceTableSets --------------------------
(***************************************************************************)
(* Lemmas about the service entries of the service table: the operations   *)
(* on target sets (add, remove, replace, remove by device) keep an entry   *)
(* in order (SetsOK).                                                      *)
(***************************************************************************)
EXTENDS ServiceTable, SeqLemmas, FiniteSetTheorems, TLAPS

\* The targets at the places <<i, a>> and <<j, b>> are not two sockets of one
\* protocol.
Apart(sets, i, j, a, b) ==
    /\ i # j \/ a # b
    /\ IsSock(sets[i].list[a])
    /\ IsSock(sets[j].list[b])
    => Protocol[sets[i].list[a].sk] # Protocol[sets[j].list[b].sk]

\* Two sockets at different places of an entry have different protocols.
OneSocket(sets) ==
    \A i, j \in 1..Len(sets) :
        \A a \in 1..Len(sets[i].list), b \in 1..Len(sets[j].list) :
            Apart(sets, i, j, a, b)

\* An entry in order: its sets have falling priorities and targets.
Falling(sets) ==
    \A i, j \in 1..Len(sets) :
        /\ sets[i].list # << >>
        /\ i < j => sets[i].priority > sets[j].priority

SetsOK(sets) == sets \in Seq(TargetSets) /\ Falling(sets) /\ OneSocket(sets)

-----------------------------------------------------------------------------
(* Lists with entries taken out *)

\* F computes KeepPlaces(s, keep) up to place n.
KeepsTo(F, s, keep, n) ==
    \A i \in 0..n : F[i] = IF i = 0 THEN << >>
                           ELSE IF i \in keep THEN Append(F[i - 1], s[i]) ELSE F[i - 1]

\* The recursion in KeepPlaces has a solution, and the last value is the result.
LEMMA KeepFunction ==
  ASSUME NEW S, NEW s \in Seq(S), NEW keep
  PROVE  \E F : KeepsTo(F, s, keep, Len(s)) /\ KeepPlaces(s, keep) = F[Len(s)]
  <1> DEFINE Step(G) == [i \in 0..Len(s) |->
                            IF i = 0 THEN << >>
                            ELSE IF i \in keep THEN Append(G[i - 1], s[i]) ELSE G[i - 1]]
             F == CHOOSE G : G = Step(G)
             T == {n \in 0..Len(s) : ~\E G : KeepsTo(G, s, keep, n)}
  <1>0. Len(s) \in Nat
    OBVIOUS
  <1>1. ASSUME NEW n \in Nat, n < Len(s), NEW G, KeepsTo(G, s, keep, n)
        PROVE  KeepsTo(Step(G), s, keep, n + 1)
    <2>1. ASSUME NEW i \in 0..n + 1
          PROVE  Step(G)[i] = IF i = 0 THEN << >>
                              ELSE IF i \in keep THEN Append(Step(G)[i - 1], s[i])
                              ELSE Step(G)[i - 1]
      <3>1. Step(G)[i] = IF i = 0 THEN << >>
                         ELSE IF i \in keep THEN Append(G[i - 1], s[i]) ELSE G[i - 1]
        BY <1>0, <1>1
      <3>2. CASE i = 0
        BY <3>1, <3>2, Zenon
      <3>3. CASE i # 0
        <4>1. i - 1 \in 0..n /\ i - 1 \in 0..Len(s)
          BY <1>0, <1>1, <3>3
        <4>2. G[i - 1] = Step(G)[i - 1]
          BY <1>1, <4>1, Zenon DEF KeepsTo
        <4> QED
          BY <3>1, <4>2, Zenon
      <3> QED
        BY <3>2, <3>3, Zenon
    <2> HIDE DEF Step
    <2> QED
      BY <2>1, Zenon DEF KeepsTo
  <1>2. T = {}
    <2> SUFFICES ASSUME T # {} PROVE FALSE
      OBVIOUS
    <2>1. PICK n \in T : \A m \in T : n <= m
      <3>1. T \subseteq Nat
        BY <1>0
      <3> HIDE DEF T
      <3> QED
        BY <3>1, MinNat, Zenon
    <2>2. n \in 0..Len(s) /\ ~\E G : KeepsTo(G, s, keep, n)
      BY <2>1, Zenon
    <2>3. n # 0
      <3>1. KeepsTo([i \in {0} |-> << >>], s, keep, 0)
        BY DEF KeepsTo
      <3> QED
        BY <2>2, <3>1, Zenon
    <2>4. n - 1 \in 0..Len(s) /\ n - 1 \in Nat /\ n - 1 < Len(s) /\ (n - 1) + 1 = n
      BY <1>0, <2>2, <2>3
    <2>5. n - 1 \notin T
      BY <2>1, <2>4
    <2>6. PICK G : KeepsTo(G, s, keep, n - 1)
      BY <2>4, <2>5, Zenon
    <2>7. KeepsTo(Step(G), s, keep, n)
      BY <1>1, <2>4, <2>6, Zenon
    <2> HIDE DEF Step
    <2> QED
      BY <2>2, <2>7, Zenon
  <1>3. PICK G : KeepsTo(G, s, keep, Len(s))
    BY <1>0, <1>2
  <1>4. Step(G) = Step(Step(G))
    <2>1. ASSUME NEW i \in 0..Len(s), i # 0 PROVE G[i - 1] = Step(G)[i - 1]
      <3>1. i - 1 \in 0..Len(s)
        BY <1>0, <2>1
      <3> QED
        BY <1>3, <3>1, Zenon DEF KeepsTo
    <2> QED
      BY <2>1, Zenon
  <1>5. F = Step(F)
    <2> HIDE DEF Step
    <2> QED
      BY <1>4, Zenon
  <1>6. KeepPlaces(s, keep) = F[Len(s)]
    BY Zenon DEF KeepPlaces
  <1>7. KeepsTo(F, s, keep, Len(s))
    <2> HIDE DEF F
    <2> SUFFICES ASSUME NEW i \in 0..Len(s)
                 PROVE  F[i] = IF i = 0 THEN << >>
                               ELSE IF i \in keep THEN Append(F[i - 1], s[i]) ELSE F[i - 1]
      BY Zenon DEF KeepsTo
    <2>1. Step(F)[i] = IF i = 0 THEN << >>
                       ELSE IF i \in keep THEN Append(F[i - 1], s[i]) ELSE F[i - 1]
      OBVIOUS
    <2> HIDE DEF Step
    <2> QED
      BY <1>5, <2>1, Zenon
  <1> HIDE DEF F
  <1> QED
    BY <1>6, <1>7, Zenon

\* r consists of the entries of s at the places keep, in their order.
IsKept(r, s, keep) ==
    \E f \in [1..Len(r) -> keep] :
        /\ \A j, k \in 1..Len(r) : j < k => f[j] < f[k]
        /\ \A j \in 1..Len(r) : r[j] = s[f[j]]
        /\ \A i \in keep : \E j \in 1..Len(r) : f[j] = i

\* KeepPlaces takes the entries at the places keep and no others.
LEMMA KeepIs ==
  ASSUME NEW S, NEW s \in Seq(S), NEW keep, keep \subseteq 1..Len(s)
  PROVE  KeepPlaces(s, keep) \in Seq(S) /\ IsKept(KeepPlaces(s, keep), s, keep)
  <1>0. Len(s) \in Nat /\ \A i \in 1..Len(s) : s[i] \in S
    BY ElementOfSeq
  <1>1. PICK F : KeepsTo(F, s, keep, Len(s)) /\ KeepPlaces(s, keep) = F[Len(s)]
    BY KeepFunction, Zenon
  <1> DEFINE upto(n) == keep \cap 1..n
             T == {n \in 0..Len(s) : ~(F[n] \in Seq(S) /\ IsKept(F[n], s, upto(n)))}
  <1>2. F[0] \in Seq(S) /\ IsKept(F[0], s, upto(0))
    <2>1. F[0] = << >>
      BY <1>0, <1>1 DEF KeepsTo
    <2>2. upto(0) = {} /\ Len(<< >>) = 0
      OBVIOUS
    <2>3. IsKept(<< >>, s, {})
      <3>1. [j \in 1..0 |-> 0] \in [1..Len(<< >>) -> {}]
        BY <2>2
      <3> QED
        BY <2>2, <3>1, Zenon DEF IsKept
    <2> QED
      BY <2>1, <2>2, <2>3
  <1>3. ASSUME NEW n \in 1..Len(s), F[n - 1] \in Seq(S), IsKept(F[n - 1], s, upto(n - 1))
        PROVE  F[n] \in Seq(S) /\ IsKept(F[n], s, upto(n))
    <2>1. F[n] = IF n \in keep THEN Append(F[n - 1], s[n]) ELSE F[n - 1]
      BY <1>0, <1>1 DEF KeepsTo
    <2>2. CASE n \notin keep
      <3>1. upto(n) = upto(n - 1)
        BY <1>0, <2>2
      <3> QED
        BY <1>3, <2>1, <2>2, <3>1, Zenon
    <2>3. CASE n \in keep
      <3> DEFINE r == F[n - 1]
                 q == F[n]
      <3>1. q = Append(r, s[n]) /\ r \in Seq(S) /\ s[n] \in S /\ Len(r) \in Nat
        BY <1>0, <1>3, <2>1, <2>3
      <3>2. /\ q \in Seq(S) /\ Len(q) = Len(r) + 1
            /\ \A j \in 1..Len(r) : q[j] = r[j]
            /\ q[Len(r) + 1] = s[n]
        BY <3>1
      <3>3. PICK f \in [1..Len(r) -> upto(n - 1)] :
               /\ \A j, k \in 1..Len(r) : j < k => f[j] < f[k]
               /\ \A j \in 1..Len(r) : r[j] = s[f[j]]
               /\ \A i \in upto(n - 1) : \E j \in 1..Len(r) : f[j] = i
        BY <1>3, Zenon DEF IsKept
      <3>4. /\ \A i : i \in upto(n) <=> i \in upto(n - 1) \/ i = n
            /\ \A i \in upto(n - 1) : i \in Int /\ i < n
        BY <1>0, <2>3
      <3> HIDE DEF r, q, upto
      <3> DEFINE g == [j \in 1..Len(q) |-> IF j <= Len(r) THEN f[j] ELSE n]
      <3>5. g \in [1..Len(q) -> upto(n)]
        BY <3>1, <3>2, <3>3, <3>4
      <3>6. \A j \in 1..Len(q) : /\ j <= Len(r) => j \in 1..Len(r) /\ g[j] = f[j]
                                 /\ ~(j <= Len(r)) => j = Len(r) + 1 /\ g[j] = n
        BY <3>1, <3>2
      <3>7. \A j, k \in 1..Len(q) : j < k => g[j] < g[k]
        <4> HIDE DEF g
        <4> SUFFICES ASSUME NEW j \in 1..Len(q), NEW k \in 1..Len(q), j < k PROVE g[j] < g[k]
          OBVIOUS
        <4>1. j <= Len(r) /\ j \in 1..Len(r)
          BY <3>1, <3>2
        <4>2. CASE k <= Len(r)
          BY <3>3, <3>6, <4>1, <4>2, Zenon
        <4>3. CASE ~(k <= Len(r))
          BY <3>3, <3>4, <3>6, <4>1, <4>3
        <4> QED
          BY <4>2, <4>3, Zenon
      <3>8. \A j \in 1..Len(q) : q[j] = s[g[j]]
        <4> HIDE DEF g
        <4> QED
          BY <3>2, <3>3, <3>6, Zenon
      <3>9. \A i \in upto(n) : \E j \in 1..Len(q) : g[j] = i
        <4> HIDE DEF g
        <4> SUFFICES ASSUME NEW i \in upto(n) PROVE \E j \in 1..Len(q) : g[j] = i
          OBVIOUS
        <4>1. CASE i = n
          <5>1. Len(r) + 1 \in 1..Len(q) /\ ~(Len(r) + 1 <= Len(r))
            BY <3>1, <3>2
          <5> QED
            BY <3>6, <4>1, <5>1, Zenon
        <4>2. CASE i # n
          <5>1. PICK j \in 1..Len(r) : f[j] = i
            BY <3>3, <3>4, <4>2, Zenon
          <5>2. j \in 1..Len(q) /\ j <= Len(r)
            BY <3>1, <3>2
          <5> QED
            BY <3>6, <5>1, <5>2, Zenon
        <4> QED
          BY <4>1, <4>2, Zenon
      <3> HIDE DEF g
      <3>10. IsKept(q, s, upto(n))
        BY <3>5, <3>7, <3>8, <3>9, Zenon DEF IsKept
      <3> QED
        BY <3>2, <3>10, Zenon DEF q
    <2> QED
      BY <2>2, <2>3, Zenon
  <1>4. T = {}
    <2> SUFFICES ASSUME T # {} PROVE FALSE
      BY Zenon
    <2>1. PICK n \in T : \A m \in T : n <= m
      <3>1. T \subseteq Nat
        BY <1>0
      <3> HIDE DEF T
      <3> QED
        BY <3>1, MinNat, Zenon
    <2>2. n \in 0..Len(s) /\ ~(F[n] \in Seq(S) /\ IsKept(F[n], s, upto(n)))
      BY <2>1, Zenon
    <2> HIDE DEF upto
    <2>3. n # 0
      BY <1>2, <2>2, Zenon
    <2>4. n - 1 \in 0..Len(s) /\ n - 1 < n /\ n \in 1..Len(s)
      BY <1>0, <2>2, <2>3
    <2>5. n - 1 \notin T
      BY <2>1, <2>4
    <2> QED
      BY <1>3, <2>2, <2>4, <2>5, Zenon
  <1>5. F[Len(s)] \in Seq(S) /\ IsKept(F[Len(s)], s, upto(Len(s)))
    <2> HIDE DEF upto
    <2> QED
      BY <1>0, <1>4
  <1>6. upto(Len(s)) = keep
    BY Zenon
  <1> QED
    BY <1>1, <1>5, <1>6, Zenon

-----------------------------------------------------------------------------
(* Target sets (service.c) *)

\* The types of the parts of an entry.
LEMMA SetTypes ==
  ASSUME NEW sets \in Seq(TargetSets)
  PROVE  /\ Len(sets) \in Nat
         /\ \A i \in 1..Len(sets) :
              /\ sets[i] \in TargetSets
              /\ sets[i].priority \in Nat
              /\ sets[i].list \in Seq(Targets)
              /\ Len(sets[i].list) \in Nat
  <1>1. Len(sets) \in Nat /\ \A i \in 1..Len(sets) : sets[i] \in TargetSets
    BY ElementOfSeq
  <1>2. \A x \in TargetSets : x.priority \in Nat /\ x.list \in Seq(Targets)
    BY ServiceTableAssumption, Zenon DEF TargetSets
  <1>3. \A l \in Seq(Targets) : Len(l) \in Nat
    OBVIOUS
  <1> QED
    BY <1>1, <1>2, <1>3, Zenon

\* The sockets in list l are sockets of list m, at different places.
PartOf(l, m) ==
    \E g \in [1..Len(l) -> 1..Len(m)] :
        /\ \A a, b \in 1..Len(l) : a # b => g[a] # g[b]
        /\ \A a \in 1..Len(l) : IsSock(l[a]) => l[a] = m[g[a]]

\* A list is a part of itself.
LEMMA PartOfSelf ==
  ASSUME NEW l
  PROVE  PartOf(l, l)
  <1> DEFINE g == [a \in 1..Len(l) |-> a]
  <1>1. g \in [1..Len(l) -> 1..Len(l)] /\ \A a \in 1..Len(l) : g[a] = a
    OBVIOUS
  <1> HIDE DEF g
  <1> QED
    BY <1>1, Zenon DEF PartOf

\* An entry whose sets are parts of different sets of another has no more
\* sockets than that.
LEMMA PartsKeepOne ==
  ASSUME NEW old, NEW new, OneSocket(old),
         NEW f \in [1..Len(new) -> 1..Len(old)],
         \A i, j \in 1..Len(new) : i # j => f[i] # f[j],
         \A i \in 1..Len(new) : PartOf(new[i].list, old[f[i]].list)
  PROVE  OneSocket(new)
  <1> SUFFICES ASSUME NEW i \in 1..Len(new), NEW j \in 1..Len(new),
                      NEW a \in 1..Len(new[i].list), NEW b \in 1..Len(new[j].list)
               PROVE  Apart(new, i, j, a, b)
    BY Zenon DEF OneSocket
  <1> SUFFICES ASSUME i # j \/ a # b, IsSock(new[i].list[a]), IsSock(new[j].list[b])
               PROVE  Protocol[new[i].list[a].sk] # Protocol[new[j].list[b].sk]
    BY Zenon DEF Apart
  <1>1. PICK g \in [1..Len(new[i].list) -> 1..Len(old[f[i]].list)] :
           /\ \A x, y \in 1..Len(new[i].list) : x # y => g[x] # g[y]
           /\ \A x \in 1..Len(new[i].list) :
                IsSock(new[i].list[x]) => new[i].list[x] = old[f[i]].list[g[x]]
    BY Zenon DEF PartOf
  <1>2. PICK h \in [1..Len(new[j].list) -> 1..Len(old[f[j]].list)] :
           \A x \in 1..Len(new[j].list) :
                IsSock(new[j].list[x]) => new[j].list[x] = old[f[j]].list[h[x]]
    BY Zenon DEF PartOf
  <1>3. f[i] \in 1..Len(old) /\ f[j] \in 1..Len(old)
    BY Zenon
  <1>4. CASE i # j
    <2>1. f[i] # f[j]
      BY <1>4, Zenon
    <2>2. /\ g[a] \in 1..Len(old[f[i]].list) /\ h[b] \in 1..Len(old[f[j]].list)
          /\ new[i].list[a] = old[f[i]].list[g[a]] /\ new[j].list[b] = old[f[j]].list[h[b]]
      BY <1>1, <1>2, Zenon
    <2>3. IsSock(old[f[i]].list[g[a]]) /\ IsSock(old[f[j]].list[h[b]])
             => Protocol[old[f[i]].list[g[a]].sk] # Protocol[old[f[j]].list[h[b]].sk]
      BY <1>3, <2>1, <2>2, Zenon DEF OneSocket, Apart
    <2> QED
      BY <2>2, <2>3, Zenon
  <1>5. CASE i = j
    <2>1. a # b /\ g[a] # g[b]
      BY <1>1, <1>5, Zenon
    <2>2. /\ g[a] \in 1..Len(old[f[i]].list) /\ g[b] \in 1..Len(old[f[i]].list)
          /\ new[i].list[a] = old[f[i]].list[g[a]] /\ new[j].list[b] = old[f[i]].list[g[b]]
      BY <1>1, <1>5, Zenon
    <2>3. IsSock(old[f[i]].list[g[a]]) /\ IsSock(old[f[i]].list[g[b]])
             => Protocol[old[f[i]].list[g[a]].sk] # Protocol[old[f[i]].list[g[b]].sk]
      BY <1>3, <2>1, <2>2, Zenon DEF OneSocket, Apart
    <2> QED
      BY <2>2, <2>3, Zenon
  <1> QED
    BY <1>4, <1>5, Zenon

\* One set of an entry changes its list, the others stay.
LEMMA OneListChanges ==
  ASSUME NEW sets \in Seq(TargetSets), NEW i \in 1..Len(sets), NEW l \in Seq(Targets)
  PROVE  LET new == [sets EXCEPT ![i].list = l]
         IN  /\ new \in Seq(TargetSets) /\ Len(new) = Len(sets)
             /\ \A k \in 1..Len(sets) : /\ new[k].priority = sets[k].priority
                                        /\ new[k].list = IF k = i THEN l ELSE sets[k].list
  <1> DEFINE new == [sets EXCEPT ![i].list = l]
  <1>0. Len(sets) \in Nat /\ sets[i] \in TargetSets
    BY SetTypes, Zenon
  <1>1. [sets[i] EXCEPT !.list = l] \in TargetSets
    BY <1>0, Zenon DEF TargetSets
  <1>2. /\ [sets[i] EXCEPT !.list = l].list = l
        /\ [sets[i] EXCEPT !.list = l].priority = sets[i].priority
    BY <1>0, Zenon DEF TargetSets
  <1>3. sets \in [1..Len(sets) -> TargetSets]
    OBVIOUS
  <1>4. /\ new \in [1..Len(sets) -> TargetSets]
        /\ \A k \in 1..Len(sets) : /\ new[k].priority = sets[k].priority
                                   /\ new[k].list = IF k = i THEN l ELSE sets[k].list
    BY <1>1, <1>2, <1>3, Zenon
  <1> HIDE DEF new
  <1>5. new \in Seq(TargetSets) /\ Len(new) = Len(sets)
    BY <1>0, <1>4
  <1> QED
    BY <1>4, <1>5, Zenon DEF new

\* If the sockets of the new list are sockets of the old one, the entry stays in
\* order.
LEMMA OneListKeepsSets ==
  ASSUME NEW sets, SetsOK(sets), NEW i \in 1..Len(sets), NEW l \in Seq(Targets), l # << >>,
         PartOf(l, sets[i].list)
  PROVE  SetsOK([sets EXCEPT ![i].list = l])
  <1> DEFINE new == [sets EXCEPT ![i].list = l]
             f == [k \in 1..Len(new) |-> k]
  <1>1. sets \in Seq(TargetSets) /\ Falling(sets) /\ OneSocket(sets)
    BY Zenon DEF SetsOK
  <1>2. /\ new \in Seq(TargetSets) /\ Len(new) = Len(sets)
        /\ \A k \in 1..Len(sets) : /\ new[k].priority = sets[k].priority
                                   /\ new[k].list = IF k = i THEN l ELSE sets[k].list
    BY <1>1, OneListChanges
  <1> HIDE DEF new
  <1>3. Falling(new)
    BY <1>1, <1>2, Zenon DEF Falling
  <1>4. /\ f \in [1..Len(new) -> 1..Len(sets)]
        /\ \A k, m \in 1..Len(new) : k # m => f[k] # f[m]
        /\ \A k \in 1..Len(new) : f[k] = k
    BY <1>2, Zenon
  <1> HIDE DEF f
  <1>5. \A k \in 1..Len(new) : PartOf(new[k].list, sets[f[k]].list)
    <2> SUFFICES ASSUME NEW k \in 1..Len(new) PROVE PartOf(new[k].list, sets[k].list)
      BY <1>4, Zenon
    <2>1. CASE k = i
      BY <1>2, <2>1, Zenon
    <2>2. CASE k # i
      BY <1>2, <2>2, PartOfSelf, Zenon
    <2> QED
      BY <2>1, <2>2, Zenon
  <1>6. OneSocket(new)
    BY <1>1, <1>4, <1>5, PartsKeepOne, Zenon
  <1>7. SetsOK(new)
    BY <1>2, <1>3, <1>6, Zenon DEF SetsOK
  <1> QED
    BY <1>7, Zenon DEF new

\* DropPlace: a target leaves its set, or the set goes with it.
LEMMA DropKeepsSets ==
  ASSUME NEW sets, SetsOK(sets), NEW x \in Places(sets)
  PROVE  SetsOK(DropPlace(sets, x))
  <1>0. PICK i \in 1..Len(sets) : x \in {i} \X (1..Len(sets[i].list))
    BY Zenon DEF Places
  <1>1. PICK j \in 1..Len(sets[i].list) : x = <<i, j>>
    BY <1>0
  <1>2. x[1] = i /\ x[2] = j
    BY <1>1, Zenon
  <1>3. sets \in Seq(TargetSets) /\ Falling(sets) /\ OneSocket(sets)
    BY Zenon DEF SetsOK
  <1>4. /\ Len(sets) \in Nat
        /\ \A k \in 1..Len(sets) :
             /\ sets[k] \in TargetSets
             /\ sets[k].priority \in Nat
             /\ sets[k].list \in Seq(Targets)
             /\ Len(sets[k].list) \in Nat
    BY <1>3, SetTypes, Zenon
  <1>5. CASE Len(sets[i].list) = 1
    <2> DEFINE new == RemoveAt(sets, i)
               f == [k \in 1..Len(new) |-> IF k < i THEN k ELSE k + 1]
    <2>1. DropPlace(sets, x) = new
      BY <1>2, <1>5, Zenon DEF DropPlace
    <2>2. /\ new \in Seq(TargetSets) /\ Len(new) = Len(sets) - 1
          /\ \A k \in 1..Len(sets) - 1 : new[k] = IF k < i THEN sets[k] ELSE sets[k + 1]
      BY <1>3, RemoveAtIs, Zenon
    <2> HIDE DEF new
    <2>3. f \in [1..Len(new) -> 1..Len(sets)] /\ \A k \in 1..Len(new) : new[k] = sets[f[k]]
      BY <1>4, <2>2
    <2>4. \A k, l \in 1..Len(new) : k < l => f[k] < f[l]
      BY <1>4, <2>2
    <2>5. \A k, l \in 1..Len(new) : k # l => f[k] # f[l]
      BY <1>4, <2>2
    <2> HIDE DEF f
    <2>6. Falling(new)
      BY <1>3, <2>3, <2>4, Zenon DEF Falling
    <2>7. OneSocket(new)
      BY <1>3, <2>3, <2>5, PartOfSelf, PartsKeepOne, ZenonT(40)
    <2> QED
      BY <2>1, <2>2, <2>6, <2>7, Zenon DEF SetsOK
  <1>6. CASE Len(sets[i].list) # 1
    <2> DEFINE l == RemoveAt(sets[i].list, j)
               n == Len(sets[i].list)
    <2>1. DropPlace(sets, x) = [sets EXCEPT ![i].list = l]
      BY <1>2, <1>6, Zenon DEF DropPlace
    <2>2. /\ l \in Seq(Targets) /\ Len(l) = n - 1
          /\ \A k \in 1..n - 1 : l[k] = IF k < j THEN sets[i].list[k] ELSE sets[i].list[k + 1]
      BY <1>4, RemoveAtIs, Zenon
    <2>3. n \in Nat /\ j \in 1..n /\ n # 1
      BY <1>4, <1>6, Zenon
    <2> HIDE DEF l, n
    <2>4. l # << >>
      <3>1. Len(l) # 0
        BY <2>2, <2>3
      <3> QED
        BY <3>1
    <2>5. PartOf(l, sets[i].list)
      <3> DEFINE g == [a \in 1..Len(l) |-> IF a < j THEN a ELSE a + 1]
      <3>1. /\ g \in [1..Len(l) -> 1..n]
            /\ \A a, b \in 1..Len(l) : a # b => g[a] # g[b]
        BY <2>2, <2>3
      <3>2. \A a \in 1..Len(l) : l[a] = sets[i].list[g[a]]
        BY <2>2, <2>3, Zenon
      <3> HIDE DEF g
      <3> QED
        BY <3>1, <3>2, Zenon DEF PartOf, n
    <2>6. SetsOK([sets EXCEPT ![i].list = l])
      BY <2>2, <2>4, <2>5, OneListKeepsSets, Zenon
    <2> QED
      BY <2>1, <2>6, Zenon
  <1> QED
    BY <1>5, <1>6, Zenon

\* ctrl_handle_mod_service_msg writes another rule over a target.
LEMMA ReplaceKeepsSets ==
  ASSUME NEW sets, SetsOK(sets), NEW i \in 1..Len(sets), NEW j \in 1..Len(sets[i].list),
         NEW t \in Targets, ~IsSock(t)
  PROVE  SetsOK([sets EXCEPT ![i].list[j] = t])
  <1> DEFINE old == sets[i].list
             l == [old EXCEPT ![j] = t]
             g == [a \in 1..Len(l) |-> a]
  <1>1. old \in Seq(Targets) /\ Len(old) \in Nat
    BY SetTypes, Zenon DEF SetsOK
  <1> HIDE DEF old
  <1>2. /\ l \in Seq(Targets) /\ Len(l) = Len(old)
        /\ \A a \in 1..Len(old) : l[a] = IF a = j THEN t ELSE old[a]
    BY <1>1 DEF old
  <1>3. l # << >>
    <2>1. Len(l) # 0
      BY <1>1, <1>2 DEF old
    <2> QED
      BY <2>1
  <1> HIDE DEF l
  <1>4. PartOf(l, old)
    <2>1. g \in [1..Len(l) -> 1..Len(old)] /\ \A a \in 1..Len(l) : g[a] = a
      BY <1>2, Zenon
    <2> HIDE DEF g
    <2>2. \A a, b \in 1..Len(l) : a # b => g[a] # g[b]
      BY <2>1, Zenon
    <2>3. \A a \in 1..Len(l) : IsSock(l[a]) => l[a] = old[g[a]]
      BY <1>2, <2>1, Zenon
    <2> QED
      BY <2>1, <2>2, <2>3, Zenon DEF PartOf
  <1>5. SetsOK([sets EXCEPT ![i].list = l])
    BY <1>2, <1>3, <1>4, OneListKeepsSets, Zenon DEF old
  <1>6. [sets EXCEPT ![i].list[j] = t] = [sets EXCEPT ![i].list = l]
    BY Zenon DEF l, old
  <1> QED
    BY <1>5, <1>6, Zenon

\* The targets of an entry without those of a device.
LEMMA RemoveByDevKeepsSets ==
  ASSUME NEW sets, SetsOK(sets), NEW d
  PROVE  SetsOK(RemoveByDev(sets, d))
  <1> DEFINE staying(i) == {j \in 1..Len(sets[i].list) : ~OnDevice(sets[i].list[j], d)}
             kept == [i \in 1..Len(sets) |->
                         [sets[i] EXCEPT !.list = KeepPlaces(@, staying(i))]]
             some == {i \in 1..Len(sets) : staying(i) # {}}
             new == KeepPlaces(kept, some)
  <1>1. sets \in Seq(TargetSets) /\ Falling(sets) /\ OneSocket(sets)
    BY Zenon DEF SetsOK
  <1>2. /\ Len(sets) \in Nat
        /\ \A i \in 1..Len(sets) :
             /\ sets[i] \in TargetSets
             /\ sets[i].priority \in Nat
             /\ sets[i].list \in Seq(Targets)
             /\ Len(sets[i].list) \in Nat
    BY <1>1, SetTypes, Zenon
  <1>3. RemoveByDev(sets, d) = new
    BY Zenon DEF RemoveByDev
  <1>4. ASSUME NEW i \in 1..Len(sets)
        PROVE  /\ kept[i] \in TargetSets
               /\ kept[i].priority = sets[i].priority
               /\ kept[i].list = KeepPlaces(sets[i].list, staying(i))
               /\ IsKept(kept[i].list, sets[i].list, staying(i))
    <2> DEFINE l == KeepPlaces(sets[i].list, staying(i))
    <2>1. l \in Seq(Targets) /\ IsKept(l, sets[i].list, staying(i))
      <3>1. staying(i) \subseteq 1..Len(sets[i].list)
        OBVIOUS
      <3> HIDE DEF staying
      <3> QED
        BY <1>2, <3>1, KeepIs, Zenon
    <2>2. kept[i] = [sets[i] EXCEPT !.list = l]
      OBVIOUS
    <2> HIDE DEF l, kept
    <2>3. /\ [sets[i] EXCEPT !.list = l] \in TargetSets
          /\ [sets[i] EXCEPT !.list = l].list = l
          /\ [sets[i] EXCEPT !.list = l].priority = sets[i].priority
      BY <1>2, <2>1, Zenon DEF TargetSets
    <2> QED
      BY <2>1, <2>2, <2>3, Zenon DEF l
  <1>5. kept \in Seq(TargetSets) /\ Len(kept) = Len(sets)
    <2>1. kept \in [1..Len(sets) -> TargetSets]
      BY <1>4, Zenon
    <2> HIDE DEF kept
    <2> QED
      BY <1>2, <2>1
  <1> HIDE DEF kept
  <1>6. new \in Seq(TargetSets) /\ IsKept(new, kept, some)
    <2>1. some \subseteq 1..Len(kept)
      BY <1>5, Zenon
    <2> HIDE DEF some
    <2> QED
      BY <1>5, <2>1, KeepIs, Zenon
  <1> HIDE DEF new
  <1>7. PICK f \in [1..Len(new) -> some] :
           /\ \A j, k \in 1..Len(new) : j < k => f[j] < f[k]
           /\ \A j \in 1..Len(new) : new[j] = kept[f[j]]
    BY <1>6, Zenon DEF IsKept
  <1>8. f \in [1..Len(new) -> 1..Len(sets)] /\ \A j \in 1..Len(new) : staying(f[j]) # {}
    BY <1>7, Zenon
  <1> HIDE DEF some
  <1>9. ASSUME NEW i \in 1..Len(sets), staying(i) # {}
        PROVE  kept[i].list # << >>
    <2>1. PICK g \in [1..Len(kept[i].list) -> staying(i)] :
             \A x \in staying(i) : \E j \in 1..Len(kept[i].list) : g[j] = x
      BY <1>4, Zenon DEF IsKept
    <2>2. PICK j : j \in 1..Len(kept[i].list)
      BY <1>9, <2>1, Zenon
    <2>3. Len(<< >>) = 0
      OBVIOUS
    <2> QED
      BY <2>2, <2>3
  <1>10. ASSUME NEW i \in 1..Len(sets)
         PROVE  PartOf(kept[i].list, sets[i].list)
    <2> DEFINE l == kept[i].list
    <2>1. PICK g \in [1..Len(l) -> staying(i)] :
             /\ \A j, k \in 1..Len(l) : j < k => g[j] < g[k]
             /\ \A j \in 1..Len(l) : l[j] = sets[i].list[g[j]]
      BY <1>4, Zenon DEF IsKept
    <2>2. g \in [1..Len(l) -> 1..Len(sets[i].list)]
      BY <2>1, Zenon
    <2>3. ASSUME NEW a \in 1..Len(l), NEW b \in 1..Len(l), a # b PROVE g[a] # g[b]
      <3>1. a \in Int /\ b \in Int /\ (a < b \/ b < a) /\ g[a] \in Int /\ g[b] \in Int
        BY <2>2, <2>3
      <3>2. g[a] < g[b] \/ g[b] < g[a]
        BY <2>1, <3>1, Zenon
      <3> QED
        BY <3>1, <3>2
    <2> HIDE DEF l, staying
    <2>4. PartOf(l, sets[i].list)
      BY <2>1, <2>2, <2>3, Zenon DEF PartOf
    <2> QED
      BY <2>4, Zenon DEF l
  <1> HIDE DEF staying
  <1>11. \A j, k \in 1..Len(new) : j # k => f[j] # f[k]
    <2> SUFFICES ASSUME NEW j \in 1..Len(new), NEW k \in 1..Len(new), j # k PROVE f[j] # f[k]
      OBVIOUS
    <2>1. j \in Int /\ k \in Int /\ (j < k \/ k < j) /\ f[j] \in Int /\ f[k] \in Int
      BY <1>8
    <2>2. f[j] < f[k] \/ f[k] < f[j]
      BY <1>7, <2>1, Zenon
    <2> QED
      BY <2>1, <2>2
  <1>12. Falling(new)
    <2> SUFFICES ASSUME NEW j \in 1..Len(new), NEW k \in 1..Len(new)
                 PROVE  /\ new[j].list # << >>
                        /\ j < k => new[j].priority > new[k].priority
      BY Zenon DEF Falling
    <2>1. f[j] \in 1..Len(sets) /\ f[k] \in 1..Len(sets)
      BY <1>8, Zenon
    <2>2. new[j].list # << >>
      BY <1>7, <1>8, <1>9, <2>1, Zenon
    <2>3. new[j].priority = sets[f[j]].priority /\ new[k].priority = sets[f[k]].priority
      BY <1>4, <1>7, <2>1, Zenon
    <2>4. j < k => sets[f[j]].priority > sets[f[k]].priority
      BY <1>1, <1>7, <2>1, Zenon DEF Falling
    <2> QED
      BY <2>2, <2>3, <2>4, Zenon
  <1>13. OneSocket(new)
    <2>1. \A j \in 1..Len(new) : PartOf(new[j].list, sets[f[j]].list)
      BY <1>7, <1>8, <1>10, Zenon
    <2> QED
      BY <1>1, <1>8, <1>11, <2>1, PartsKeepOne, Zenon
  <1> QED
    BY <1>3, <1>6, <1>12, <1>13, Zenon DEF SetsOK

\* No socket of the entry has the protocol of the socket t.
NoRival(sets, t) ==
    IsSock(t) => \A i \in 1..Len(sets) : \A a \in 1..Len(sets[i].list) :
                     IsSock(sets[i].list[a]) => Protocol[sets[i].list[a].sk] # Protocol[t.sk]

\* The sets of priority prio and above are the first ones of the entry.
LEMMA HigherAreFirst ==
  ASSUME NEW sets, SetsOK(sets), NEW prio \in Nat
  PROVE  LET higher == {i \in 1..Len(sets) : sets[i].priority >= prio}
         IN  /\ Cardinality(higher) \in 0..Len(sets)
             /\ higher = 1..Cardinality(higher)
  <1> DEFINE higher == {i \in 1..Len(sets) : sets[i].priority >= prio}
             T == {i \in 1..Len(sets) + 1 : i \notin higher}
  <1>1. sets \in Seq(TargetSets) /\ Falling(sets)
    BY Zenon DEF SetsOK
  <1>2. Len(sets) \in Nat /\ \A i \in 1..Len(sets) : sets[i].priority \in Nat
    BY <1>1, SetTypes, Zenon
  <1>3. T \subseteq Nat /\ Len(sets) + 1 \in T
    BY <1>2
  <1>4. PICK m \in T : \A y \in T : m <= y
    <2> HIDE DEF T
    <2> QED
      BY <1>3, MinNat, Zenon
  <1>5. m \in 1..Len(sets) + 1 /\ m \notin higher
    BY <1>4, Zenon
  <1>6. ASSUME NEW i \in 1..m - 1 PROVE i \in higher
    <2>1. i \in 1..Len(sets) + 1 /\ ~(m <= i)
      BY <1>2, <1>5
    <2> QED
      BY <1>4, <2>1, Zenon
  <1>7. ASSUME NEW i \in higher PROVE i \in 1..m - 1
    <2>1. i \in 1..Len(sets) /\ sets[i].priority >= prio /\ i # m
      BY <1>5, Zenon
    <2>2. CASE m < i
      <3>1. m \in 1..Len(sets)
        BY <1>2, <1>5, <2>1, <2>2
      <3>2. sets[m].priority > sets[i].priority
        BY <1>1, <2>1, <2>2, <3>1, Zenon DEF Falling
      <3>3. sets[m].priority >= prio
        BY <1>2, <2>1, <3>1, <3>2
      <3> QED
        BY <1>5, <3>1, <3>3, Zenon
    <2> QED
      BY <1>2, <1>5, <2>1, <2>2
  <1>8. higher = 1..m - 1
    BY <1>6, <1>7, Zenon
  <1>9. Cardinality(1..m - 1) = m - 1
    <2>1. m - 1 \in Int /\ m - 1 >= 0
      BY <1>2, <1>5
    <2> QED
      BY <2>1, FS_Interval
  <1>10. Cardinality(higher) \in 0..Len(sets) /\ higher = 1..Cardinality(higher)
    <2>1. m - 1 \in 0..Len(sets)
      BY <1>2, <1>5
    <2> HIDE DEF higher, T
    <2>2. Cardinality(higher) = m - 1
      BY <1>8, <1>9, Zenon
    <2> QED
      BY <1>8, <2>1, <2>2, Zenon
  <1> HIDE DEF higher
  <1> QED
    BY <1>10, Zenon DEF higher

LEMMA LastOrBefore == \A n \in Nat : \A a \in 1..n + 1 : a \in 1..n \/ a = n + 1
  OBVIOUS

\* t joins the set of its priority.
LEMMA AppendKeepsSets ==
  ASSUME NEW sets, SetsOK(sets), NEW h \in 1..Len(sets), NEW t \in Targets, NoRival(sets, t)
  PROVE  SetsOK([sets EXCEPT ![h].list = Append(@, t)])
  <1> DEFINE old == sets[h].list
             l == Append(old, t)
             new == [sets EXCEPT ![h].list = l]
  <1>1. sets \in Seq(TargetSets) /\ Falling(sets) /\ OneSocket(sets)
    BY Zenon DEF SetsOK
  <1>2. old \in Seq(Targets) /\ Len(old) \in Nat
    BY <1>1, SetTypes, Zenon
  <1>3. /\ l \in Seq(Targets) /\ Len(l) = Len(old) + 1 /\ l[Len(old) + 1] = t
        /\ \A a \in 1..Len(old) : l[a] = old[a]
    BY <1>2
  <1> HIDE DEF l, old
  <1>4. l # << >>
    <2>1. Len(l) # 0
      BY <1>2, <1>3
    <2> QED
      BY <2>1
  <1>5. /\ new \in Seq(TargetSets) /\ Len(new) = Len(sets)
        /\ \A k \in 1..Len(sets) : /\ new[k].priority = sets[k].priority
                                   /\ new[k].list = IF k = h THEN l ELSE sets[k].list
    BY <1>1, <1>3, OneListChanges
  <1>6. new = [sets EXCEPT ![h].list = Append(@, t)]
    BY Zenon DEF l, old
  <1> HIDE DEF new
  <1>7. Falling(new)
    BY <1>1, <1>4, <1>5, Zenon DEF Falling
  <1>8. ASSUME NEW i \in 1..Len(new), NEW a \in 1..Len(new[i].list)
        PROVE  \/ i = h /\ a = Len(old) + 1 /\ new[i].list[a] = t
               \/ /\ i \in 1..Len(sets) /\ a \in 1..Len(sets[i].list)
                  /\ new[i].list[a] = sets[i].list[a]
    <2>1. CASE i # h
      BY <1>5, <2>1, Zenon
    <2>2. CASE i = h
      <3>1. new[i].list = l /\ a \in 1..Len(l)
        BY <1>5, <2>2, Zenon
      <3>2. a \in 1..Len(old) \/ a = Len(old) + 1
        BY <1>2, <1>3, <3>1, LastOrBefore, Zenon
      <3> QED
        BY <1>3, <2>2, <3>1, <3>2, Zenon DEF old
    <2> QED
      BY <2>1, <2>2, Zenon
  <1>9. OneSocket(new)
    <2> SUFFICES ASSUME NEW i \in 1..Len(new), NEW j \in 1..Len(new),
                        NEW a \in 1..Len(new[i].list), NEW b \in 1..Len(new[j].list)
                 PROVE  Apart(new, i, j, a, b)
      BY Zenon DEF OneSocket
    <2> SUFFICES ASSUME i # j \/ a # b, IsSock(new[i].list[a]), IsSock(new[j].list[b])
                 PROVE  Protocol[new[i].list[a].sk] # Protocol[new[j].list[b].sk]
      BY Zenon DEF Apart
    <2>1. CASE i = h /\ a = Len(old) + 1 /\ new[i].list[a] = t
      <3>1. /\ j \in 1..Len(sets) /\ b \in 1..Len(sets[j].list)
            /\ new[j].list[b] = sets[j].list[b]
        BY <1>8, <2>1, Zenon
      <3> QED
        BY <2>1, <3>1, Zenon DEF NoRival
    <2>2. CASE j = h /\ b = Len(old) + 1 /\ new[j].list[b] = t
      <3>1. /\ i \in 1..Len(sets) /\ a \in 1..Len(sets[i].list)
            /\ new[i].list[a] = sets[i].list[a]
        BY <1>8, <2>2, Zenon
      <3> QED
        BY <2>2, <3>1, Zenon DEF NoRival
    <2>3. CASE /\ i \in 1..Len(sets) /\ a \in 1..Len(sets[i].list)
               /\ new[i].list[a] = sets[i].list[a]
               /\ j \in 1..Len(sets) /\ b \in 1..Len(sets[j].list)
               /\ new[j].list[b] = sets[j].list[b]
      <3>1. IsSock(sets[i].list[a]) /\ IsSock(sets[j].list[b])
               => Protocol[sets[i].list[a].sk] # Protocol[sets[j].list[b].sk]
        BY <1>1, <2>3, Zenon DEF OneSocket, Apart
      <3> QED
        BY <2>3, <3>1, Zenon
    <2> QED
      BY <1>8, <2>1, <2>2, <2>3, Zenon
  <1> QED
    BY <1>5, <1>6, <1>7, <1>9, Zenon DEF SetsOK

\* new has the target t alone in set m, and otherwise the sets of old.
OneMore(new, old, t, m, g) ==
    /\ new[m].list = <<t>>
    /\ \A i \in 1..Len(new) : i # m => g[i] \in 1..Len(old) /\ new[i] = old[g[i]]
    /\ \A i, j \in 1..Len(new) : i # j /\ i # m /\ j # m => g[i] # g[j]

\* A socket without a rival in an entry may have a new set in it.
LEMMA OneMoreKeepsOne ==
  ASSUME NEW old, NEW new, NEW t, NEW m, NEW g,
         OneMore(new, old, t, m, g), OneSocket(old), NoRival(old, t)
  PROVE  OneSocket(new)
  <1> SUFFICES ASSUME NEW i \in 1..Len(new), NEW j \in 1..Len(new),
                      NEW a \in 1..Len(new[i].list), NEW b \in 1..Len(new[j].list)
               PROVE  Apart(new, i, j, a, b)
    BY Zenon DEF OneSocket
  <1> SUFFICES ASSUME i # j \/ a # b, IsSock(new[i].list[a]), IsSock(new[j].list[b])
               PROVE  Protocol[new[i].list[a].sk] # Protocol[new[j].list[b].sk]
    BY Zenon DEF Apart
  <1>0. Len(<<t>>) = 1 /\ <<t>>[1] = t
    OBVIOUS
  <1>1. CASE i = m
    <2>1. a = 1 /\ new[i].list[a] = t
      BY <1>0, <1>1 DEF OneMore
    <2>2. j # m
      <3>1. j = m => b = 1
        BY <1>0 DEF OneMore
      <3> QED
        BY <1>1, <2>1, <3>1, Zenon
    <2>3. g[j] \in 1..Len(old) /\ new[j] = old[g[j]]
      BY <2>2, Zenon DEF OneMore
    <2> QED
      BY <2>1, <2>3, Zenon DEF NoRival
  <1>2. CASE j = m /\ i # m
    <2>1. new[j].list[b] = t
      BY <1>0, <1>2 DEF OneMore
    <2>2. g[i] \in 1..Len(old) /\ new[i] = old[g[i]]
      BY <1>2, Zenon DEF OneMore
    <2> QED
      BY <2>1, <2>2, Zenon DEF NoRival
  <1>3. CASE i # m /\ j # m
    <2>1. /\ g[i] \in 1..Len(old) /\ new[i] = old[g[i]]
          /\ g[j] \in 1..Len(old) /\ new[j] = old[g[j]]
      BY <1>3, Zenon DEF OneMore
    <2>2. g[i] # g[j] \/ a # b
      BY <1>3, Zenon DEF OneMore
    <2>3. a \in 1..Len(old[g[i]].list) /\ b \in 1..Len(old[g[j]].list)
      BY <2>1, Zenon
    <2>4. IsSock(old[g[i]].list[a]) /\ IsSock(old[g[j]].list[b])
             => Protocol[old[g[i]].list[a].sk] # Protocol[old[g[j]].list[b].sk]
      BY <2>1, <2>2, <2>3, ZenonT(40) DEF OneSocket, Apart
    <2> QED
      BY <2>1, <2>4, Zenon
  <1> QED
    BY <1>1, <1>2, <1>3, Zenon

\* A set of a new priority is inserted behind those above it.
LEMMA NewSetKeepsSets ==
  ASSUME NEW sets, SetsOK(sets), NEW prio \in Priorities \cup {Local}, NEW t \in Targets,
         NoRival(sets, t), \A i \in 1..Len(sets) : sets[i].priority # prio
  PROVE  SetsOK(InsertAt(sets,
                    Cardinality({i \in 1..Len(sets) : sets[i].priority >= prio}) + 1,
                    [priority |-> prio, list |-> <<t>>]))
  <1> DEFINE higher == {i \in 1..Len(sets) : sets[i].priority >= prio}
             m == Cardinality(higher) + 1
             e == [priority |-> prio, list |-> <<t>>]
             new == InsertAt(sets, m, e)
             f(i) == IF i < m THEN i ELSE i - 1
  <1>1. sets \in Seq(TargetSets) /\ Falling(sets) /\ OneSocket(sets)
    BY Zenon DEF SetsOK
  <1>2. Len(sets) \in Nat /\ \A i \in 1..Len(sets) : sets[i].priority \in Nat
    BY <1>1, SetTypes, Zenon
  <1>3. prio \in Nat
    BY ServiceTableAssumption, Zenon
  <1>4. m \in 1..Len(sets) + 1 /\ \A i \in 1..Len(sets) : sets[i].priority >= prio <=> i < m
    <2>1. Cardinality(higher) \in 0..Len(sets) /\ higher = 1..Cardinality(higher)
      BY <1>3, HigherAreFirst, Zenon
    <2>2. \A i \in 1..Len(sets) : sets[i].priority >= prio <=> i \in 1..Cardinality(higher)
      BY <2>1, Zenon
    <2> HIDE DEF higher
    <2> QED
      BY <1>2, <2>1, <2>2
  <1>5. e \in TargetSets /\ e.priority = prio /\ e.list = <<t>>
    BY DEF TargetSets
  <1>6. <<t>> # << >> /\ Len(<<t>>) = 1 /\ <<t>>[1] = t
    OBVIOUS
  <1> HIDE DEF m, e
  <1>7. /\ new \in Seq(TargetSets) /\ Len(new) = Len(sets) + 1
        /\ \A j \in 1..Len(sets) + 1 :
             new[j] = IF j < m THEN sets[j] ELSE IF j = m THEN e ELSE sets[j - 1]
    BY <1>1, <1>4, <1>5, InsertAtIs
  <1> HIDE DEF new
  <1>8. ASSUME NEW i \in 1..Len(new), i # m
        PROVE  f(i) \in 1..Len(sets) /\ new[i] = sets[f(i)]
    BY <1>2, <1>4, <1>7, <1>8
  <1>9. new[m] = e /\ m \in 1..Len(new)
    BY <1>2, <1>4, <1>7
  <1>10. Falling(new)
    <2> SUFFICES ASSUME NEW i \in 1..Len(new), NEW j \in 1..Len(new)
                 PROVE  /\ new[i].list # << >>
                        /\ i < j => new[i].priority > new[j].priority
      BY Zenon DEF Falling
    <2>1. new[i].list # << >>
      <3>1. CASE i = m
        BY <1>5, <1>6, <1>9, <3>1, Zenon
      <3>2. CASE i # m
        BY <1>1, <1>8, <3>2, Zenon DEF Falling
      <3> QED
        BY <3>1, <3>2, Zenon
    <2>2. ASSUME i < j PROVE new[i].priority > new[j].priority
      <3>0. i \in Int /\ j \in Int /\ m \in Int
        BY <1>4
      <3>1. CASE i = m
        <4>1. f(j) \in 1..Len(sets) /\ new[j] = sets[f(j)] /\ ~(f(j) < m)
          BY <1>8, <2>2, <3>0, <3>1
        <4>2. new[i].priority = prio
          BY <1>5, <1>9, <3>1, Zenon
        <4>3. ~(sets[f(j)].priority >= prio)
          BY <1>4, <4>1, Zenon
        <4> HIDE DEF f
        <4> QED
          BY <1>2, <1>3, <4>1, <4>2, <4>3
      <3>2. CASE j = m
        <4>1. f(i) \in 1..Len(sets) /\ new[i] = sets[f(i)] /\ f(i) < m
          BY <1>8, <2>2, <3>0, <3>2
        <4>2. new[j].priority = prio
          BY <1>5, <1>9, <3>2, Zenon
        <4>3. sets[f(i)].priority >= prio /\ sets[f(i)].priority # prio
          BY <1>4, <4>1, Zenon
        <4> HIDE DEF f
        <4> QED
          BY <1>2, <1>3, <4>1, <4>2, <4>3
      <3>3. CASE i # m /\ j # m
        <4>1. /\ f(i) \in 1..Len(sets) /\ new[i] = sets[f(i)]
              /\ f(j) \in 1..Len(sets) /\ new[j] = sets[f(j)]
          BY <1>8, <3>3, Zenon
        <4>2. f(i) < f(j)
          BY <2>2, <3>0, <3>3
        <4> HIDE DEF f
        <4> QED
          BY <1>1, <4>1, <4>2, Zenon DEF Falling
      <3> QED
        BY <3>1, <3>2, <3>3, Zenon
    <2> QED
      BY <2>1, <2>2, Zenon
  <1>11. ASSUME NEW i \in 1..Len(new), NEW j \in 1..Len(new), i # j, i # m, j # m
         PROVE  f(i) # f(j)
    BY <1>4, <1>11
  <1> HIDE DEF f, higher
  <1>12. OneSocket(new)
    <2> DEFINE g == [i \in 1..Len(new) |-> IF i = m THEN 0 ELSE f(i)]
    <2>1. \A i \in 1..Len(new) : i # m => g[i] \in 1..Len(sets) /\ new[i] = sets[g[i]]
      BY <1>8, Zenon
    <2>2. \A i, j \in 1..Len(new) : i # j /\ i # m /\ j # m => g[i] # g[j]
      BY <1>11, Zenon
    <2>3. new[m].list = <<t>>
      BY <1>5, <1>9, Zenon
    <2> HIDE DEF g
    <2>4. OneMore(new, sets, t, m, g)
      BY <2>1, <2>2, <2>3, Zenon DEF OneMore
    <2> QED
      BY <1>1, <2>4, OneMoreKeepsOne, Zenon
  <1>13. SetsOK(new)
    BY <1>7, <1>10, <1>12, Zenon DEF SetsOK
  <1> QED
    BY <1>13, Zenon DEF new, m, e, higher

\* AddToSets (service_entry_add_target).
LEMMA AddKeepsSets ==
  ASSUME NEW sets, SetsOK(sets), NEW prio \in Priorities \cup {Local}, NEW t \in Targets,
         NoRival(sets, t)
  PROVE  SetsOK(AddToSets(sets, prio, t))
  <1>1. sets \in Seq(TargetSets) /\ Falling(sets)
    BY Zenon DEF SetsOK
  <1>2. Len(sets) \in Nat /\ \A i \in 1..Len(sets) : sets[i].priority \in Nat
    BY <1>1, SetTypes, Zenon
  <1>3. CASE \E h \in 1..Len(sets) : sets[h].priority = prio
    <2> DEFINE new == [i \in 1..Len(sets) |->
                          IF sets[i].priority = prio
                          THEN [sets[i] EXCEPT !.list = Append(@, t)] ELSE sets[i]]
    <2>1. PICK h \in 1..Len(sets) : sets[h].priority = prio
      BY <1>3, Zenon
    <2>2. AddToSets(sets, prio, t) = new
      BY <1>3, Zenon DEF AddToSets
    <2>3. \A i \in 1..Len(sets) : sets[i].priority = prio <=> i = h
      <3> SUFFICES ASSUME NEW i \in 1..Len(sets), sets[i].priority = prio, i # h PROVE FALSE
        BY <2>1, Zenon
      <3>1. i \in Int /\ h \in Int /\ (i < h \/ h < i)
        OBVIOUS
      <3>2. sets[i].priority > sets[h].priority \/ sets[h].priority > sets[i].priority
        BY <1>1, <3>1, Zenon DEF Falling
      <3> QED
        BY <1>2, <2>1, <3>2
    <2>4. new = [sets EXCEPT ![h].list = Append(@, t)]
      <3>1. DOMAIN sets = 1..Len(sets) /\ sets = [i \in 1..Len(sets) |-> sets[i]]
        BY <1>1
      <3> QED
        BY <2>3, <3>1, Zenon
    <2>5. SetsOK([sets EXCEPT ![h].list = Append(@, t)])
      BY AppendKeepsSets, Zenon
    <2> QED
      BY <2>2, <2>4, <2>5, Zenon
  <1>4. CASE ~\E h \in 1..Len(sets) : sets[h].priority = prio
    <2>1. AddToSets(sets, prio, t)
             = InsertAt(sets, Cardinality({i \in 1..Len(sets) : sets[i].priority >= prio}) + 1,
                        [priority |-> prio, list |-> <<t>>])
      BY <1>4, Zenon DEF AddToSets
    <2>2. SetsOK(InsertAt(sets,
                    Cardinality({i \in 1..Len(sets) : sets[i].priority >= prio}) + 1,
                    [priority |-> prio, list |-> <<t>>]))
      BY <1>4, NewSetKeepsSets, Zenon
    <2> QED
      BY <2>1, <2>2, Zenon
  <1> QED
    BY <1>3, <1>4, Zenon

\* An entry without targets is in order.
LEMMA EmptySets == SetsOK(<< >>) /\ \A t : NoRival(<< >>, t)
  <1>1. << >> \in Seq(TargetSets) /\ Len(<< >>) = 0
    OBVIOUS
  <1>2. Falling(<< >>)
    BY <1>1 DEF Falling
  <1>3. OneSocket(<< >>)
    BY <1>1 DEF OneSocket, Apart
  <1>4. \A t : NoRival(<< >>, t)
    BY <1>1 DEF NoRival
  <1> QED
    BY <1>1, <1>2, <1>3, <1>4, Zenon DEF SetsOK

\* What service_table_add accepts has no rival in the entry.
LEMMA AcceptedHasNoRival ==
  ASSUME NEW sets, NEW t, CanAdd(sets, t)
  PROVE  NoRival(sets, t)
  <1> SUFFICES ASSUME IsSock(t), NEW i \in 1..Len(sets), NEW a \in 1..Len(sets[i].list),
                      IsSock(sets[i].list[a])
               PROVE  Protocol[sets[i].list[a].sk] # Protocol[t.sk]
    BY Zenon DEF NoRival
  <1>1. ~IsForward(t)
    BY Zenon DEF IsSock, IsForward
  <1> DEFINE x == <<i, a>>
  <1>2. x \in Places(sets) /\ At(sets, x) = sets[i].list[a]
    BY DEF Places, At
  <1> HIDE DEF x
  <1>3. x \in SockPlaces(sets)
    BY <1>2, Zenon DEF SockPlaces
  <1>4. \A y \in SockPlaces(sets) : Protocol[At(sets, y).sk] # Protocol[t.sk]
    BY <1>1, Zenon DEF CanAdd, HasTarget
  <1> QED
    BY <1>2, <1>3, <1>4, Zenon

\* FirstPlace finds one of the places.
LEMMA FirstIsPlace ==
  ASSUME NEW sets, NEW at, at \subseteq Places(sets), at # {}
  PROVE  FirstPlace(at) \in at
  <1>1. \A x \in at : x = <<x[1], x[2]>> /\ x[1] \in Nat /\ x[2] \in Nat
    <2> SUFFICES ASSUME NEW x \in at
                 PROVE  x = <<x[1], x[2]>> /\ x[1] \in Nat /\ x[2] \in Nat
      OBVIOUS
    <2>1. PICK i \in 1..Len(sets) : x \in {i} \X (1..Len(sets[i].list))
      BY Zenon DEF Places
    <2> QED
      BY <2>1
  <1> DEFINE I == {x[1] : x \in at}
  <1>2. PICK i \in I : \A j \in I : i <= j
    <2>1. I \subseteq Nat /\ I # {}
      BY <1>1, Zenon
    <2> HIDE DEF I
    <2> QED
      BY <2>1, MinNat, Zenon
  <1> DEFINE J == {x[2] : x \in {y \in at : y[1] = i}}
  <1>3. PICK j \in J : \A k \in J : j <= k
    <2>1. J \subseteq Nat /\ J # {}
      BY <1>1, <1>2, Zenon
    <2> HIDE DEF J
    <2> QED
      BY <2>1, MinNat, Zenon
  <1>4. PICK x \in at : x[1] = i /\ x[2] = j
    BY <1>3, Zenon
  <1>5. \A y \in at : x[1] < y[1] \/ (x[1] = y[1] /\ x[2] <= y[2])
    <2> SUFFICES ASSUME NEW y \in at PROVE x[1] < y[1] \/ (x[1] = y[1] /\ x[2] <= y[2])
      OBVIOUS
    <2>1. x[1] <= y[1] /\ x[1] \in Nat /\ y[1] \in Nat
      BY <1>1, <1>2, <1>4, Zenon
    <2>2. CASE y[1] = x[1]
      <3>1. x[2] <= y[2]
        BY <1>3, <1>4, <2>2, Zenon
      <3> QED
        BY <2>2, <3>1, Zenon
    <2> QED
      BY <2>1, <2>2
  <1> QED
    BY <1>5, Zenon DEF FirstPlace

-----------------------------------------------------------------------------
(* The sockets of an entry *)

Lists(l, t) == \E a \in 1..Len(l) : l[a] = t
Holds(sets, t) == \E i \in 1..Len(sets) : Lists(sets[i].list, t)

\* Two lists, and two entries, that have the same sockets.
SameInList(l, m) == \A t : IsSock(t) => (Lists(l, t) <=> Lists(m, t))
SameSockets(old, new) == \A t : IsSock(t) => (Holds(old, t) <=> Holds(new, t))

\* The sets of two entries correspond, up to sets without sockets: f and g lead
\* from each set that has a socket to one that has it too.
LEMMA SameByMaps ==
  ASSUME NEW old, NEW new,
         \A t : IsSock(t) => \A i \in 1..Len(old) : Lists(old[i].list, t)
                                => \E j \in 1..Len(new) : Lists(new[j].list, t),
         \A t : IsSock(t) => \A i \in 1..Len(new) : Lists(new[i].list, t)
                                => \E j \in 1..Len(old) : Lists(old[j].list, t)
  PROVE  SameSockets(old, new)
  <1> SUFFICES ASSUME NEW t, IsSock(t) PROVE Holds(old, t) <=> Holds(new, t)
    BY Zenon DEF SameSockets
  <1> QED
    BY Zenon DEF Holds

\* The list of one set changes and has the same sockets.
LEMMA OneListSame ==
  ASSUME NEW sets \in Seq(TargetSets), NEW i \in 1..Len(sets), NEW l \in Seq(Targets),
         SameInList(sets[i].list, l)
  PROVE  SameSockets(sets, [sets EXCEPT ![i].list = l])
  <1> DEFINE new == [sets EXCEPT ![i].list = l]
  <1>1. /\ Len(new) = Len(sets)
        /\ \A k \in 1..Len(sets) : new[k].list = IF k = i THEN l ELSE sets[k].list
    BY OneListChanges
  <1> HIDE DEF new
  <1>2. ASSUME NEW t, IsSock(t), NEW k \in 1..Len(sets)
        PROVE  Lists(sets[k].list, t) <=> Lists(new[k].list, t)
    <2>1. CASE k = i
      BY <1>1, <1>2, <2>1, Zenon DEF SameInList
    <2>2. CASE k # i
      BY <1>1, <2>2, Zenon
    <2> QED
      BY <2>1, <2>2, Zenon
  <1>3. SameSockets(sets, new)
    BY <1>1, <1>2, SameByMaps, Zenon
  <1> QED
    BY <1>3, Zenon DEF new

\* DropPlace of a rule.
LEMMA DropSame ==
  ASSUME NEW sets, SetsOK(sets), NEW x \in Places(sets), ~IsSock(At(sets, x))
  PROVE  SameSockets(sets, DropPlace(sets, x))
  <1>0. PICK i \in 1..Len(sets) : x \in {i} \X (1..Len(sets[i].list))
    BY Zenon DEF Places
  <1>1. PICK j \in 1..Len(sets[i].list) : x = <<i, j>>
    BY <1>0
  <1>2. x[1] = i /\ x[2] = j /\ ~IsSock(sets[i].list[j])
    BY <1>1, Zenon DEF At
  <1>3. sets \in Seq(TargetSets)
    BY Zenon DEF SetsOK
  <1>4. /\ Len(sets) \in Nat
        /\ sets[i].list \in Seq(Targets)
        /\ Len(sets[i].list) \in Nat
    BY <1>3, SetTypes, Zenon
  <1>5. CASE Len(sets[i].list) = 1
    <2> DEFINE new == RemoveAt(sets, i)
    <2>1. DropPlace(sets, x) = new
      BY <1>2, <1>5, Zenon DEF DropPlace
    <2>2. /\ Len(new) = Len(sets) - 1
          /\ \A k \in 1..Len(sets) - 1 : new[k] = IF k < i THEN sets[k] ELSE sets[k + 1]
      BY <1>3, RemoveAtIs, Zenon
    <2> HIDE DEF new
    <2>3. ASSUME NEW t, IsSock(t), NEW k \in 1..Len(sets), Lists(sets[k].list, t)
          PROVE  \E m \in 1..Len(new) : Lists(new[m].list, t)
      <3>1. k # i
        <4>1. ASSUME k = i PROVE FALSE
          <5>1. PICK a \in 1..Len(sets[i].list) : sets[i].list[a] = t
            BY <2>3, <4>1, Zenon DEF Lists
          <5>2. a = j
            BY <1>4, <1>5, <5>1
          <5> QED
            BY <1>2, <2>3, <5>1, <5>2, Zenon
        <4> QED
          BY <4>1, Zenon
      <3>2. CASE k < i
        <4>1. k \in 1..Len(new) /\ new[k] = sets[k]
          BY <1>4, <2>2, <3>2
        <4> QED
          BY <2>3, <4>1, Zenon
      <3>3. CASE k > i
        <4>1. k - 1 \in 1..Len(new) /\ new[k - 1] = sets[k]
          BY <1>4, <2>2, <3>3
        <4> QED
          BY <2>3, <4>1, Zenon
      <3> QED
        BY <1>4, <3>1, <3>2, <3>3
    <2>4. ASSUME NEW t, IsSock(t), NEW k \in 1..Len(new), Lists(new[k].list, t)
          PROVE  \E m \in 1..Len(sets) : Lists(sets[m].list, t)
      <3>1. \E m \in 1..Len(sets) : new[k] = sets[m]
        BY <1>4, <2>2
      <3> QED
        BY <2>4, <3>1, Zenon
    <2>5. SameSockets(sets, new)
      BY <2>3, <2>4, SameByMaps, Zenon
    <2> QED
      BY <2>1, <2>5, Zenon
  <1>6. CASE Len(sets[i].list) # 1
    <2> DEFINE old == sets[i].list
               l == RemoveAt(old, j)
    <2>1. DropPlace(sets, x) = [sets EXCEPT ![i].list = l]
      BY <1>2, <1>6, Zenon DEF DropPlace
    <2>2. /\ l \in Seq(Targets) /\ Len(l) = Len(old) - 1
          /\ \A k \in 1..Len(old) - 1 : l[k] = IF k < j THEN old[k] ELSE old[k + 1]
      BY <1>4, RemoveAtIs, Zenon
    <2>3. Len(old) \in Nat /\ j \in 1..Len(old) /\ ~IsSock(old[j])
      BY <1>2, <1>4, Zenon
    <2> HIDE DEF l, old
    <2>4. SameInList(old, l)
      <3> SUFFICES ASSUME NEW t, IsSock(t) PROVE Lists(old, t) <=> Lists(l, t)
        BY Zenon DEF SameInList
      <3>1. ASSUME NEW a \in 1..Len(old), old[a] = t
            PROVE  \E b \in 1..Len(l) : l[b] = t
        <4>1. a # j
          BY <2>3, <3>1, Zenon
        <4>2. CASE a < j
          <5>1. a \in 1..Len(l) /\ l[a] = old[a]
            BY <2>2, <2>3, <4>2
          <5> QED
            BY <3>1, <5>1, Zenon
        <4>3. CASE a > j
          <5>1. a - 1 \in 1..Len(l) /\ l[a - 1] = old[a]
            BY <2>2, <2>3, <4>3
          <5> QED
            BY <3>1, <5>1, Zenon
        <4> QED
          BY <2>3, <4>1, <4>2, <4>3
      <3>2. ASSUME NEW a \in 1..Len(l), l[a] = t
            PROVE  \E b \in 1..Len(old) : old[b] = t
        <4>1. \E b \in 1..Len(old) : l[a] = old[b]
          BY <2>2, <2>3
        <4> QED
          BY <3>2, <4>1, Zenon
      <3> QED
        BY <3>1, <3>2, Zenon DEF Lists
    <2>5. SameSockets(sets, [sets EXCEPT ![i].list = l])
      BY <1>3, <2>2, <2>4, OneListSame, Zenon DEF old
    <2> QED
      BY <2>1, <2>5, Zenon
  <1> QED
    BY <1>5, <1>6, Zenon

\* A rule is written over a rule.
LEMMA ReplaceSame ==
  ASSUME NEW sets, SetsOK(sets), NEW i \in 1..Len(sets), NEW j \in 1..Len(sets[i].list),
         ~IsSock(sets[i].list[j]), NEW t \in Targets, ~IsSock(t)
  PROVE  SameSockets(sets, [sets EXCEPT ![i].list[j] = t])
  <1> DEFINE old == sets[i].list
             l == [old EXCEPT ![j] = t]
  <1>1. old \in Seq(Targets) /\ Len(old) \in Nat /\ sets \in Seq(TargetSets)
    BY SetTypes, Zenon DEF SetsOK
  <1>2. j \in 1..Len(old) /\ ~IsSock(old[j])
    OBVIOUS
  <1>3. [sets EXCEPT ![i].list[j] = t] = [sets EXCEPT ![i].list = l]
    OBVIOUS
  <1> HIDE DEF old
  <1>4. /\ l \in Seq(Targets) /\ Len(l) = Len(old)
        /\ \A a \in 1..Len(old) : l[a] = IF a = j THEN t ELSE old[a]
    BY <1>1, <1>2
  <1> HIDE DEF l
  <1>5. SameInList(old, l)
    <2> SUFFICES ASSUME NEW u, IsSock(u) PROVE Lists(old, u) <=> Lists(l, u)
      BY Zenon DEF SameInList
    <2>1. \A a \in 1..Len(old) : old[a] = u <=> l[a] = u
      BY <1>2, <1>4, Zenon
    <2> QED
      BY <1>4, <2>1, Zenon DEF Lists
  <1>6. SameSockets(sets, [sets EXCEPT ![i].list = l])
    BY <1>1, <1>4, <1>5, OneListSame, Zenon DEF old
  <1> QED
    BY <1>3, <1>6, Zenon

\* A rule joins an entry.
LEMMA AddSame ==
  ASSUME NEW sets, SetsOK(sets), NEW prio \in Priorities \cup {Local}, NEW t \in Targets,
         ~IsSock(t)
  PROVE  SameSockets(sets, AddToSets(sets, prio, t))
  <1>1. sets \in Seq(TargetSets) /\ Falling(sets)
    BY Zenon DEF SetsOK
  <1>2. /\ Len(sets) \in Nat
        /\ \A i \in 1..Len(sets) : /\ sets[i].priority \in Nat
                                   /\ sets[i].list \in Seq(Targets)
                                   /\ Len(sets[i].list) \in Nat
    BY <1>1, SetTypes, Zenon
  <1>3. CASE \E h \in 1..Len(sets) : sets[h].priority = prio
    <2> DEFINE new == [i \in 1..Len(sets) |->
                          IF sets[i].priority = prio
                          THEN [sets[i] EXCEPT !.list = Append(@, t)] ELSE sets[i]]
    <2>1. AddToSets(sets, prio, t) = new
      BY <1>3, Zenon DEF AddToSets
    <2>2. ASSUME NEW i \in 1..Len(sets), NEW u, IsSock(u)
          PROVE  Lists(sets[i].list, u) <=> Lists(new[i].list, u)
      <3> DEFINE l == sets[i].list
      <3>1. new[i].list = IF sets[i].priority = prio THEN Append(l, t) ELSE l
        <4>1. sets[i] \in TargetSets
          BY <1>1, SetTypes, Zenon
        <4> QED
          BY <4>1, Zenon DEF TargetSets
      <3> HIDE DEF new
      <3>2. l \in Seq(Targets) /\ Len(l) \in Nat
        BY <1>2, Zenon
      <3> HIDE DEF l
      <3>3. Lists(l, u) <=> Lists(Append(l, t), u)
        <4> DEFINE m == Append(l, t)
        <4>1. Len(m) = Len(l) + 1 /\ m[Len(l) + 1] = t /\ \A a \in 1..Len(l) : m[a] = l[a]
          BY <3>2
        <4> HIDE DEF m
        <4>2. u # t
          BY <2>2, Zenon
        <4>3. \A a \in 1..Len(m) : a \in 1..Len(l) \/ a = Len(l) + 1
          BY <3>2, <4>1
        <4>4. \A a \in 1..Len(l) : a \in 1..Len(m)
          BY <3>2, <4>1
        <4>5. Lists(l, u) <=> Lists(m, u)
          BY <4>1, <4>2, <4>3, <4>4, Zenon DEF Lists
        <4> QED
          BY <4>5, Zenon DEF m
      <3> QED
        BY <3>1, <3>3, Zenon DEF l
    <2>3. Len(new) = Len(sets)
      BY <1>2
    <2> HIDE DEF new
    <2>4. SameSockets(sets, new)
      BY <2>2, <2>3, SameByMaps, Zenon
    <2> QED
      BY <2>1, <2>4, Zenon
  <1>4. CASE ~\E h \in 1..Len(sets) : sets[h].priority = prio
    <2> DEFINE higher == {i \in 1..Len(sets) : sets[i].priority >= prio}
               m == Cardinality(higher) + 1
               e == [priority |-> prio, list |-> <<t>>]
               new == InsertAt(sets, m, e)
    <2>1. AddToSets(sets, prio, t) = new
      BY <1>4, Zenon DEF AddToSets
    <2>2. prio \in Nat
      BY ServiceTableAssumption, Zenon
    <2>3. m \in 1..Len(sets) + 1
      <3>1. Cardinality(higher) \in 0..Len(sets)
        BY <2>2, HigherAreFirst, Zenon
      <3> HIDE DEF higher
      <3> QED
        BY <1>2, <3>1
    <2>4. e \in TargetSets /\ e.list = <<t>> /\ \A u : Lists(<<t>>, u) => u = t
      BY DEF TargetSets, Lists
    <2> HIDE DEF m, e, higher
    <2>5. /\ Len(new) = Len(sets) + 1
          /\ \A j \in 1..Len(sets) + 1 :
               new[j] = IF j < m THEN sets[j] ELSE IF j = m THEN e ELSE sets[j - 1]
      BY <1>1, <2>3, <2>4, InsertAtIs
    <2> HIDE DEF new
    <2>6. ASSUME NEW u, IsSock(u), NEW i \in 1..Len(sets), Lists(sets[i].list, u)
          PROVE  \E j \in 1..Len(new) : Lists(new[j].list, u)
      <3>1. CASE i < m
        <4>1. i \in 1..Len(new) /\ new[i] = sets[i]
          BY <1>2, <2>3, <2>5, <3>1
        <4> QED
          BY <2>6, <4>1, Zenon
      <3>2. CASE ~(i < m)
        <4>1. i + 1 \in 1..Len(new) /\ new[i + 1] = sets[i]
          BY <1>2, <2>3, <2>5, <3>2
        <4> QED
          BY <2>6, <4>1, Zenon
      <3> QED
        BY <3>1, <3>2, Zenon
    <2>7. ASSUME NEW u, IsSock(u), NEW j \in 1..Len(new), Lists(new[j].list, u)
          PROVE  \E i \in 1..Len(sets) : Lists(sets[i].list, u)
      <3>1. new[j] # e
        <4>1. new[j] = e => u = t
          BY <2>4, <2>7, Zenon
        <4> QED
          BY <2>7, <4>1, Zenon
      <3>2. \E i \in 1..Len(sets) : new[j] = sets[i]
        BY <1>2, <2>3, <2>5, <3>1
      <3> QED
        BY <2>7, <3>2, Zenon
    <2>8. SameSockets(sets, new)
      BY <2>6, <2>7, SameByMaps, Zenon
    <2> QED
      BY <2>1, <2>8, Zenon
  <1> QED
    BY <1>3, <1>4, Zenon

\* A list keeps its sockets when none of them is among the entries taken out.
LEMMA KeepSame ==
  ASSUME NEW l, NEW m, NEW keep, keep \subseteq 1..Len(l), IsKept(m, l, keep),
         \A a \in 1..Len(l) : IsSock(l[a]) => a \in keep
  PROVE  SameInList(l, m)
  <1> SUFFICES ASSUME NEW t, IsSock(t) PROVE Lists(l, t) <=> Lists(m, t)
    BY Zenon DEF SameInList
  <1>1. PICK f \in [1..Len(m) -> keep] :
           /\ \A j \in 1..Len(m) : m[j] = l[f[j]]
           /\ \A i \in keep : \E j \in 1..Len(m) : f[j] = i
    BY Zenon DEF IsKept
  <1>2. ASSUME NEW a \in 1..Len(l), l[a] = t PROVE \E b \in 1..Len(m) : m[b] = t
    <2>1. a \in keep
      BY <1>2, Zenon
    <2>2. PICK j \in 1..Len(m) : f[j] = a
      BY <1>1, <2>1, Zenon
    <2> QED
      BY <1>1, <1>2, <2>2, Zenon
  <1>3. ASSUME NEW b \in 1..Len(m), m[b] = t PROVE \E a \in 1..Len(l) : l[a] = t
    <2>1. f[b] \in 1..Len(l) /\ m[b] = l[f[b]]
      BY <1>1, Zenon
    <2> QED
      BY <1>3, <2>1, Zenon
  <1> QED
    BY <1>2, <1>3, Zenon DEF Lists

\* The rules of a device go.
LEMMA RemoveByDevSame ==
  ASSUME NEW sets, SetsOK(sets), NEW d
  PROVE  SameSockets(sets, RemoveByDev(sets, d))
  <1> DEFINE staying(i) == {j \in 1..Len(sets[i].list) : ~OnDevice(sets[i].list[j], d)}
             kept == [i \in 1..Len(sets) |->
                         [sets[i] EXCEPT !.list = KeepPlaces(@, staying(i))]]
             some == {i \in 1..Len(sets) : staying(i) # {}}
             new == KeepPlaces(kept, some)
  <1>1. sets \in Seq(TargetSets)
    BY Zenon DEF SetsOK
  <1>2. /\ Len(sets) \in Nat
        /\ \A i \in 1..Len(sets) : sets[i] \in TargetSets /\ sets[i].list \in Seq(Targets)
    BY <1>1, SetTypes, Zenon
  <1>3. RemoveByDev(sets, d) = new
    BY Zenon DEF RemoveByDev
  <1>4. \A i \in 1..Len(sets) : /\ staying(i) \subseteq 1..Len(sets[i].list)
                                /\ \A a \in 1..Len(sets[i].list) :
                                     IsSock(sets[i].list[a]) => a \in staying(i)
    BY Zenon DEF OnDevice, IsSock, IsForward
  <1>5. some \subseteq 1..Len(sets) /\ \A i \in 1..Len(sets) : i \in some <=> staying(i) # {}
    OBVIOUS
  <1> HIDE DEF staying, some
  <1>6. ASSUME NEW i \in 1..Len(sets)
        PROVE  kept[i] \in TargetSets /\ SameInList(sets[i].list, kept[i].list)
    <2> DEFINE l == KeepPlaces(sets[i].list, staying(i))
    <2>1. l \in Seq(Targets) /\ IsKept(l, sets[i].list, staying(i))
      BY <1>2, <1>4, KeepIs, Zenon
    <2>2. kept[i] = [sets[i] EXCEPT !.list = l]
      OBVIOUS
    <2> HIDE DEF l, kept
    <2>3. [sets[i] EXCEPT !.list = l] \in TargetSets /\ [sets[i] EXCEPT !.list = l].list = l
      BY <1>2, <2>1, Zenon DEF TargetSets
    <2>4. SameInList(sets[i].list, l)
      BY <1>4, <2>1, KeepSame, Zenon
    <2> QED
      BY <2>2, <2>3, <2>4, Zenon
  <1>7. kept \in Seq(TargetSets) /\ Len(kept) = Len(sets)
    <2>1. kept \in [1..Len(sets) -> TargetSets]
      BY <1>6, Zenon
    <2> HIDE DEF kept
    <2> QED
      BY <1>2, <2>1
  <1> HIDE DEF kept
  <1>8. IsKept(new, kept, some)
    BY <1>5, <1>7, KeepIs, Zenon
  <1> HIDE DEF new
  <1>9. PICK f \in [1..Len(new) -> some] :
           /\ \A j \in 1..Len(new) : new[j] = kept[f[j]]
           /\ \A i \in some : \E j \in 1..Len(new) : f[j] = i
    BY <1>8, Zenon DEF IsKept
  <1>10. ASSUME NEW t, IsSock(t), NEW i \in 1..Len(sets), Lists(sets[i].list, t)
         PROVE  \E j \in 1..Len(new) : Lists(new[j].list, t)
    <2>1. PICK a \in 1..Len(sets[i].list) : sets[i].list[a] = t
      BY <1>10, Zenon DEF Lists
    <2>2. i \in some
      BY <1>4, <1>5, <1>10, <2>1, Zenon
    <2>3. PICK j \in 1..Len(new) : f[j] = i
      BY <1>9, <2>2, Zenon
    <2>4. Lists(kept[i].list, t)
      BY <1>6, <1>10, Zenon DEF SameInList
    <2> QED
      BY <1>9, <2>3, <2>4, Zenon
  <1>11. ASSUME NEW t, IsSock(t), NEW j \in 1..Len(new), Lists(new[j].list, t)
         PROVE  \E i \in 1..Len(sets) : Lists(sets[i].list, t)
    <2>1. f[j] \in 1..Len(sets) /\ new[j] = kept[f[j]]
      BY <1>5, <1>9, Zenon
    <2>2. Lists(sets[f[j]].list, t)
      BY <1>6, <1>11, <2>1, Zenon DEF SameInList
    <2> QED
      BY <2>1, <2>2, Zenon
  <1>12. SameSockets(sets, new)
    BY <1>10, <1>11, SameByMaps, Zenon
  <1> QED
    BY <1>3, <1>12, Zenon

=============================================================================
