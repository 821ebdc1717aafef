-------------------------- MODULE UserTimerProofs --------------------------
(***************************************************************************)
(* For any number of timers and threads and any delays, the main loop of   *)
(* the user-level stack never sleeps past a timer, its list stays sorted,  *)
(* and the references that timers hold on sockets balance.                 *)
(***************************************************************************)
EXTENDS UserTimer, SeqLemmas

\* What ListOrdered says of list and due, for any list and any times.
Ordered(l, d) ==
    \A i, j \in 1..Len(l) : i < j => l[i] # l[j] /\ d[l[i]] <= d[l[j]]

\* The loop has a timer in hand exactly while it is in the callback, and a
\* thread in a call has one to work on.
InHand ==
    /\ loop.timer # NoTimer => loop.pc = "call"
    /\ loop.pc = "call" => loop.timer \in Timers
    /\ \A h \in Threads : thr[h].pc # "idle" => thr[h].timer \in Timers

IInv == TypeOK /\ ListOrdered /\ RefsBalanced /\ NoLostWakeup /\ InHand

-----------------------------------------------------------------------------
(* The list *)

\* Times and time-outs are natural numbers, or the mark for none.
LEMMA Times ==
  /\ Horizon \subseteq Nat /\ Never \in Nat
  /\ 0 \in Horizon
  /\ \A n \in 0..MaxTime, d \in Delays : n + d \in Horizon
  <1>1. Horizon \subseteq Nat
    BY UserTimerAssumption DEF Horizon
  <1>2. 0 \in 0..MaxTime /\ 0 \in Delays \cup {0} /\ 0 = 0 + 0
    BY UserTimerAssumption
  <1>3. 0 \in Horizon
    BY <1>2 DEF Horizon
  <1> QED
    BY <1>1, <1>3 DEF Horizon, Never

\* Without t, the list is in order still, has the others and starts no earlier.
LEMMA UnlinkKeeps ==
  ASSUME NEW t \in Timers, list \in Seq(Timers), due \in [Timers -> Nat], ListOrdered
  PROVE  /\ Unlink(t) \in Seq(Timers)
         /\ Ordered(Unlink(t), due)
         /\ ~Contains(Unlink(t), t)
         /\ \A u \in Timers : u # t => (Contains(Unlink(t), u) <=> Contains(list, u))
         /\ Unlink(t) # << >> => list # << >> /\ due[Head(list)] <= due[Head(Unlink(t))]
  <1>1. CASE ~timer_pending(t)
    <2>1. Unlink(t) = list
      BY <1>1, Zenon DEF Unlink
    <2>2. list # << >> => due[Head(list)] \in Nat
      OBVIOUS
    <2> QED
      BY <1>1, <2>1, <2>2 DEF timer_pending, ListOrdered, Ordered
  <1>2. CASE timer_pending(t)
    <2> DEFINE k == CHOOSE i \in 1..Len(list) : list[i] = t
               r == RemoveAt(list, k)
    <2>1. k \in 1..Len(list) /\ list[k] = t
      BY <1>2, Zenon DEF timer_pending, Contains
    <2> HIDE DEF k
    <2>2. /\ r \in Seq(Timers) /\ Len(r) = Len(list) - 1
          /\ \A j \in 1..Len(list) - 1 : r[j] = IF j < k THEN list[j] ELSE list[j + 1]
      BY <2>1, RemoveAtIs, Zenon
    <2>3. Unlink(t) = r
      BY <1>2, Zenon DEF Unlink, k
    <2> HIDE DEF r
    <2>4. Len(list) \in Nat /\ k \in Nat
      BY <2>1
    <2>5. Ordered(r, due)
      <3> SUFFICES ASSUME NEW i \in 1..Len(r), NEW j \in 1..Len(r), i < j
                   PROVE  r[i] # r[j] /\ due[r[i]] <= due[r[j]]
        BY Zenon DEF Ordered
      <3> DEFINE a == IF i < k THEN i ELSE i + 1
                 b == IF j < k THEN j ELSE j + 1
      <3>0. Len(r) = Len(list) - 1 /\ i \in 1..Len(list) - 1 /\ j \in 1..Len(list) - 1
        BY <2>2, Zenon
      <3>1. a \in 1..Len(list) /\ b \in 1..Len(list) /\ a < b
        BY <2>4, <3>0
      <3>2. r[i] = list[a] /\ r[j] = list[b]
        BY <2>2, <2>4, <3>0, Zenon
      <3> QED
        BY <3>1, <3>2, Zenon DEF ListOrdered
    <2>6. ~Contains(r, t)
      <3> SUFFICES ASSUME NEW i \in 1..Len(r), r[i] = t PROVE FALSE
        BY Zenon DEF Contains
      <3> DEFINE a == IF i < k THEN i ELSE i + 1
      <3>0. i \in 1..Len(list) - 1
        BY <2>2, Zenon
      <3>1. a \in 1..Len(list) /\ (a < k \/ k < a)
        BY <2>4, <3>0
      <3>2. list[a] = t
        BY <2>2, <2>4, <3>0, Zenon
      <3> QED
        BY <2>1, <3>1, <3>2, Zenon DEF ListOrdered
    <2>7. ASSUME NEW u \in Timers, u # t PROVE Contains(r, u) <=> Contains(list, u)
      <3>1. ASSUME Contains(r, u) PROVE Contains(list, u)
        <4>1. PICK i \in 1..Len(r) : r[i] = u
          BY <3>1, Zenon DEF Contains
        <4>2. (IF i < k THEN i ELSE i + 1) \in 1..Len(list)
          BY <2>2, <2>4
        <4> QED
          BY <2>2, <2>4, <4>1, <4>2, Zenon DEF Contains
      <3>2. ASSUME Contains(list, u) PROVE Contains(r, u)
        <4>1. PICK i \in 1..Len(list) : list[i] = u
          BY <3>2, Zenon DEF Contains
        <4> DEFINE a == IF i < k THEN i ELSE i - 1
        <4>2. i # k
          BY <2>1, <2>7, <4>1, Zenon
        <4>3. a \in 1..Len(r)
          BY <2>1, <2>2, <2>4, <4>2
        <4>4. r[a] = u
          <5>1. CASE i < k
            BY <2>2, <2>4, <4>1, <4>3, <5>1, Zenon
          <5>2. CASE k < i
            <6>1. a = i - 1 /\ i - 1 \in 1..Len(list) - 1 /\ ~(i - 1 < k)
              BY <2>1, <2>4, <5>2
            <6>2. r[i - 1] = list[(i - 1) + 1]
              BY <2>2, <6>1, Zenon
            <6> QED
              BY <4>1, <6>1, <6>2
          <5> QED
            BY <2>4, <4>2, <5>1, <5>2
        <4> QED
          BY <4>3, <4>4, Zenon DEF Contains
      <3> QED
        BY <3>1, <3>2, Zenon
    <2>8. ASSUME r # << >> PROVE list # << >> /\ due[Head(list)] <= due[Head(r)]
      <3>1. Len(r) >= 1 /\ Head(r) = r[1]
        BY <2>2, <2>8
      <3>2. Len(list) >= 2 /\ Head(list) = list[1] /\ list # << >>
        BY <2>2, <2>4, <3>1
      <3>3. r[1] = list[1] \/ r[1] = list[2]
        BY <2>2, <2>4, <3>1, <3>2
      <3>4. due[list[1]] \in Nat /\ due[list[1]] <= due[list[2]]
        BY <3>2 DEF ListOrdered
      <3> QED
        BY <3>1, <3>2, <3>3, <3>4
    <2> QED
      BY <2>2, <2>3, <2>5, <2>6, <2>7, <2>8, Zenon
  <1> QED
    BY <1>1, <1>2, Zenon

\* mod_timer's loop puts t where the order is kept; if that is not in front, what
\* was first stays first.
LEMMA InsertKeeps ==
  ASSUME NEW t \in Timers, NEW d \in Nat, NEW l \in Seq(Timers),
         due \in [Timers -> Nat], Ordered(l, due), ~Contains(l, t)
  PROVE  /\ InsertTimer(l, t, d) \in Seq(Timers)
         /\ InsertTimer(l, t, d) # << >>
         /\ Ordered(InsertTimer(l, t, d), [due EXCEPT ![t] = d])
         /\ \A u \in Timers : Contains(InsertTimer(l, t, d), u) <=> (u = t \/ Contains(l, u))
         /\ Head(InsertTimer(l, t, d)) # t =>
              l # << >> /\ Head(InsertTimer(l, t, d)) = Head(l)
  <1> DEFINE later == {i \in 1..Len(l) : d < due[l[i]]}
             at == IF later = {} THEN Len(l) + 1
                   ELSE CHOOSE i \in later : \A j \in later : i <= j
             r == InsertAt(l, at, t)
             dd == [due EXCEPT ![t] = d]
  <1>1. Len(l) \in Nat
    OBVIOUS
  <1>2. at \in 1..Len(l) + 1 /\ (at <= Len(l) => d < due[l[at]])
        /\ \A i \in 1..Len(l) : i < at => due[l[i]] <= d
    <2>1. CASE later = {}
      <3>1. at = Len(l) + 1
        BY <2>1, Zenon
      <3>2. ASSUME NEW i \in 1..Len(l) PROVE due[l[i]] <= d
        BY <2>1
      <3> QED
        BY <1>1, <3>1, <3>2
    <2>2. CASE later # {}
      <3>1. later \subseteq Nat
        OBVIOUS
      <3>2. \E i \in later : \A j \in later : i <= j
        BY <2>2, <3>1, MinNat, Zenon
      <3>3. at \in later /\ \A j \in later : at <= j
        BY <2>2, <3>2, Zenon
      <3> HIDE DEF at
      <3>4. at \in 1..Len(l) /\ d < due[l[at]]
        BY <3>3, Zenon
      <3>5. ASSUME NEW i \in 1..Len(l), i < at PROVE due[l[i]] <= d
        <4>1. i \notin later
          BY <3>3, <3>4, <3>5
        <4> QED
          BY <4>1
      <3> QED
        BY <1>1, <3>4, <3>5
    <2> QED
      BY <2>1, <2>2, Zenon
  <1> HIDE DEF at, later
  <1>3. InsertTimer(l, t, d) = r
    BY Zenon DEF InsertTimer, at, later
  <1>4. /\ r \in Seq(Timers) /\ Len(r) = Len(l) + 1
        /\ \A j \in 1..Len(l) + 1 : r[j] = IF j < at THEN l[j] ELSE IF j = at THEN t ELSE l[j - 1]
    BY <1>2, InsertAtIs
  <1> HIDE DEF r
  <1>5. r # << >> /\ Head(r) = r[1]
    BY <1>1, <1>4
  <1>6. \A u \in Timers : u # t => dd[u] = due[u]
    OBVIOUS
  <1>7. dd[t] = d
    OBVIOUS
  <1>8. \A i \in 1..Len(l) : l[i] # t /\ dd[l[i]] = due[l[i]] /\ due[l[i]] \in Nat /\ l[i] \in Timers
    BY <1>6 DEF Contains
  <1> HIDE DEF dd
  <1>9. Ordered(r, dd)
    <2> SUFFICES ASSUME NEW i \in 1..Len(r), NEW j \in 1..Len(r), i < j
                 PROVE  r[i] # r[j] /\ dd[r[i]] <= dd[r[j]]
      BY Zenon DEF Ordered
    <2>1. at \in Nat /\ i \in Nat /\ j \in Nat
      BY <1>1, <1>2, <1>4
    <2>2. CASE i # at /\ j # at
      <3> DEFINE a == IF i < at THEN i ELSE i - 1
                 b == IF j < at THEN j ELSE j - 1
      <3>1. a \in 1..Len(l) /\ b \in 1..Len(l) /\ a < b
        <4>1. /\ at >= 1 /\ at <= Len(l) + 1 /\ i >= 1 /\ j >= 1
              /\ i <= Len(l) + 1 /\ j <= Len(l) + 1 /\ i < j
          BY <1>1, <1>2, <1>4, <2>1
        <4> QED
          BY <1>1, <2>1, <2>2, <4>1
      <3>2. r[i] = l[a] /\ r[j] = l[b]
        BY <1>1, <1>4, <2>1, <2>2, Zenon
      <3> HIDE DEF a, b
      <3>3. l[a] # l[b] /\ due[l[a]] <= due[l[b]]
        BY <3>1, Zenon DEF Ordered
      <3> QED
        BY <1>8, <3>1, <3>2, <3>3, Zenon
    <2>3. CASE i = at
      <3>1. j - 1 \in 1..Len(l) /\ r[i] = t /\ r[j] = l[j - 1]
        BY <1>1, <1>2, <1>4, <2>1, <2>3
      <3>2. at \in 1..Len(l) /\ at <= j - 1
        BY <1>1, <1>2, <2>1, <2>3, <3>1
      <3>3. d < due[l[at]]
        BY <1>1, <1>2, <3>2
      <3>4. due[l[at]] <= due[l[j - 1]]
        <4>1. CASE at = j - 1
          BY <1>8, <3>2, <4>1
        <4>2. CASE at < j - 1
          BY <3>1, <3>2, <4>2, Zenon DEF Ordered
        <4> QED
          BY <2>1, <3>2, <4>1, <4>2
      <3> QED
        <4>1. r[i] # r[j] /\ dd[r[i]] = d /\ dd[r[j]] = due[l[j - 1]]
          BY <1>7, <1>8, <3>1, Zenon
        <4>2. due[l[at]] \in Nat /\ due[l[j - 1]] \in Nat
          BY <1>8, <3>1, <3>2, Zenon
        <4>3. d <= due[l[j - 1]]
          <5>1. \A x, y \in Nat : d < x /\ x <= y => d <= y
            OBVIOUS
          <5> QED
            BY <3>3, <3>4, <4>2, <5>1, Zenon
        <4> QED
          BY <4>1, <4>3, Zenon
    <2>4. CASE j = at
      <3>1. i \in 1..Len(l) /\ r[i] = l[i] /\ r[j] = t
        BY <1>1, <1>2, <1>4, <2>1, <2>4
      <3> QED
        BY <1>2, <1>7, <1>8, <2>4, <3>1, Zenon
    <2> QED
      BY <2>2, <2>3, <2>4, Zenon
  <1>10. ASSUME NEW u \in Timers PROVE Contains(r, u) <=> (u = t \/ Contains(l, u))
    <2>1. r[at] = t /\ at \in 1..Len(r)
      BY <1>1, <1>2, <1>4
    <2>2. ASSUME Contains(l, u) PROVE Contains(r, u)
      <3>1. PICK i \in 1..Len(l) : l[i] = u
        BY <2>2, Zenon DEF Contains
      <3> DEFINE a == IF i < at THEN i ELSE i + 1
      <3>2. a \in 1..Len(r) /\ r[a] = l[i]
        <4>1. at \in Nat /\ i \in Nat
          BY <1>1, <1>2
        <4>2. CASE i < at
          BY <1>1, <1>4, <4>1, <4>2
        <4>3. CASE ~(i < at)
          <5>1. a = i + 1 /\ i + 1 \in 1..Len(l) + 1 /\ ~(i + 1 < at) /\ i + 1 # at
            BY <1>1, <4>1, <4>3
          <5>2. r[i + 1] = l[(i + 1) - 1]
            BY <1>4, <5>1, Zenon
          <5> QED
            BY <1>4, <4>1, <5>1, <5>2
        <4> QED
          BY <4>2, <4>3, Zenon
      <3> QED
        BY <3>1, <3>2, Zenon DEF Contains
    <2>3. ASSUME Contains(r, u), u # t PROVE Contains(l, u)
      <3>1. PICK i \in 1..Len(r) : r[i] = u
        BY <2>3, Zenon DEF Contains
      <3> DEFINE a == IF i < at THEN i ELSE i - 1
      <3>2. i # at
        BY <2>1, <2>3, <3>1, Zenon
      <3>3. a \in 1..Len(l) /\ r[i] = l[a]
        <4>1. at \in Nat /\ at >= 1 /\ at <= Len(l) + 1 /\ i \in 1..Len(l) + 1
          BY <1>1, <1>2, <1>4
        <4>2. a \in 1..Len(l)
          BY <1>1, <3>2, <4>1
        <4>3. r[i] = IF i < at THEN l[i] ELSE IF i = at THEN t ELSE l[i - 1]
          BY <1>4, <4>1, Zenon
        <4> QED
          BY <3>2, <4>2, <4>3, Zenon
      <3> QED
        BY <3>1, <3>3, Zenon DEF Contains
    <2> QED
      BY <2>1, <2>2, <2>3, Zenon DEF Contains
  <1>11. ASSUME Head(r) # t PROVE l # << >> /\ Head(r) = Head(l)
    <2>1. at # 1
      BY <1>1, <1>4, <1>5, <1>11
    <2>2. 1 < at /\ Len(l) >= 1
      BY <1>1, <1>2, <2>1
    <2>3. r[1] = l[1] /\ Head(l) = l[1] /\ l # << >>
      BY <1>1, <1>4, <2>2
    <2> QED
      BY <1>5, <2>3, Zenon
  <1> QED
    BY <1>3, <1>4, <1>5, <1>9, <1>10, <1>11, Zenon DEF dd

\* mod_timer: t is in the list afterwards, with all the others, and if the list
\* now starts earlier than it did, the loop is told.
LEMMA ModKeeps ==
  ASSUME NEW t \in Timers, NEW e \in Horizon, TypeOK, ListOrdered, mod_timer(t, e)
  PROVE  /\ list' \in Seq(Timers) /\ list' # << >>
         /\ expires' \in [Timers -> Horizon]
         /\ due' \in [Timers -> Horizon \cup {Never}]
         /\ signal' \in BOOLEAN
         /\ ListOrdered'
         /\ \A u \in Timers : Contains(list', u) <=> (u = t \/ Contains(list, u))
         /\ \/ signal'
            \/ list # << >> /\ due[Head(list)] <= due'[Head(list')] /\ signal' = signal
  <1>1. /\ list \in Seq(Timers) /\ due \in [Timers -> Nat] /\ signal \in BOOLEAN
        /\ expires \in [Timers -> Horizon] /\ due \in [Timers -> Horizon \cup {Never}]
    BY Times, Zenon DEF TypeOK
  <1>2. CASE timer_pending(t) /\ expires[t] = e
    <2>1. list' = list /\ expires' = expires /\ due' = due /\ signal' = signal
      BY <1>2, Zenon DEF mod_timer
    <2>2. list # << >>
      BY <1>2 DEF timer_pending, Contains
    <2>3. due[Head(list)] \in Nat
      BY <1>1, <2>2
    <2> QED
      BY <1>1, <1>2, <2>1, <2>2, <2>3 DEF timer_pending, ListOrdered
  <1>3. CASE ~(timer_pending(t) /\ expires[t] = e)
    <2> DEFINE d == ExpiresAbs(e)
               l == Unlink(t)
               r == InsertTimer(l, t, d)
    <2>1. /\ expires' = [expires EXCEPT ![t] = e] /\ due' = [due EXCEPT ![t] = d]
          /\ list' = r /\ signal' = (signal \/ Head(list') = t)
      BY <1>3, Zenon DEF mod_timer
    <2>2. d \in Horizon \cup {Never} /\ d \in Nat
      BY Times, Zenon DEF ExpiresAbs
    <2> HIDE DEF d
    <2>3. /\ l \in Seq(Timers) /\ Ordered(l, due) /\ ~Contains(l, t)
          /\ \A u \in Timers : u # t => (Contains(l, u) <=> Contains(list, u))
          /\ l # << >> => list # << >> /\ due[Head(list)] <= due[Head(l)]
      BY <1>1, UnlinkKeeps, Zenon
    <2> HIDE DEF l
    <2>4. /\ r \in Seq(Timers) /\ r # << >>
          /\ Ordered(r, [due EXCEPT ![t] = d])
          /\ \A u \in Timers : Contains(r, u) <=> (u = t \/ Contains(l, u))
          /\ Head(r) # t => l # << >> /\ Head(r) = Head(l)
      <3>1. due \in [Timers -> Nat]
        BY <1>1, Zenon
      <3> QED
        BY <2>2, <2>3, <3>1, InsertKeeps, ZenonT(40)
    <2> HIDE DEF r
    <2>5. ListOrdered'
      BY <2>1, <2>4, Zenon DEF ListOrdered, Ordered
    <2>6. CASE Head(r) # t
      <3>1. due'[Head(r)] = due[Head(r)]
        BY <1>1, <2>1, <2>4, <2>6
      <3> QED
        BY <1>1, <2>1, <2>2, <2>3, <2>4, <2>5, <2>6, <3>1, Zenon
    <2>7. CASE Head(r) = t
      BY <1>1, <2>1, <2>2, <2>3, <2>4, <2>5, <2>7, Zenon
    <2> QED
      BY <2>6, <2>7, Zenon
  <1> QED
    BY <1>2, <1>3, Zenon

-----------------------------------------------------------------------------
(* The invariant *)

\* What a step must keep of the references when the list changes for t alone.
LEMMA Balance ==
  ASSUME NEW t \in Timers, RefsBalanced, refs \in [Timers -> 0..2],
         NEW n \in Int, refs' = [refs EXCEPT ![t] = @ + n],
         \A u \in Timers : u # t => (Contains(list', u) <=> Contains(list, u)),
         \A u \in Timers : u # t => (loop'.timer = u <=> loop.timer = u),
         refs[t] + n = (IF Contains(list', t) THEN 1 ELSE 0) + (IF loop'.timer = t THEN 1 ELSE 0)
  PROVE  RefsBalanced' /\ refs' \in [Timers -> 0..2]
  <1>1. \A u \in Timers : refs'[u] = (IF Contains(list', u) THEN 1 ELSE 0)
                                     + (IF loop'.timer = u THEN 1 ELSE 0)
    <2> TAKE u \in Timers
    <2>1. CASE u = t
      BY <2>1, Zenon
    <2>2. CASE u # t
      <3>1. refs'[u] = refs[u]
        BY <2>2, Zenon
      <3>2. refs[u] = (IF Contains(list, u) THEN 1 ELSE 0) + (IF loop.timer = u THEN 1 ELSE 0)
        BY Zenon DEF RefsBalanced, timer_pending
      <3>3. (Contains(list', u) <=> Contains(list, u)) /\ (loop'.timer = u <=> loop.timer = u)
        BY <2>2, Zenon
      <3>4. CASE Contains(list, u)
        BY <3>1, <3>2, <3>3, <3>4, Zenon
      <3>5. CASE ~Contains(list, u)
        BY <3>1, <3>2, <3>3, <3>5, Zenon
      <3> QED
        BY <3>4, <3>5, Zenon
    <2> QED
      BY <2>1, <2>2, Zenon
  <1>2. \A u \in Timers : refs'[u] \in 0..2
    BY <1>1
  <1>3. refs' \in [Timers -> 0..2]
    BY <1>2, Zenon
  <1> QED
    BY <1>1, <1>3, Zenon DEF RefsBalanced, timer_pending

\* Steps that leave the list, the references and the loop's timer alone.
LEMMA SameLists ==
  ASSUME IInv, UNCHANGED <<list, due, refs>>, loop'.timer = loop.timer
  PROVE  ListOrdered' /\ RefsBalanced'
  BY Zenon DEF IInv, ListOrdered, RefsBalanced, timer_pending

\* The invariant holds before the first timer is armed.
LEMMA InitInv == Init => IInv
  <1> SUFFICES ASSUME Init PROVE IInv
    OBVIOUS
  <1>1. TypeOK
    <2>1. Idle \in Calls
      BY Times, Zenon DEF Idle, Calls
    <2>2. loop \in LoopStates
      BY Zenon DEF Init, LoopStates
    <2>3. now \in 0..MaxTime /\ list \in Seq(Timers) /\ mutex \in BOOLEAN /\ signal \in BOOLEAN
      <3>1. now \in 0..MaxTime /\ list \in Seq(Timers)
        BY UserTimerAssumption DEF Init
      <3>2. mutex \in BOOLEAN /\ signal \in BOOLEAN
        BY Zenon DEF Init
      <3> QED
        BY <3>1, <3>2, Zenon
    <2>4. /\ expires \in [Timers -> Horizon] /\ due \in [Timers -> Horizon \cup {Never}]
          /\ refs \in [Timers -> 0..2]
      BY Times DEF Init
    <2>5. thr \in [Threads -> Calls] /\ ops \in [Threads -> 0..MaxOps]
      BY <2>1, UserTimerAssumption DEF Init
    <2> QED
      BY <2>2, <2>3, <2>4, <2>5, Zenon DEF TypeOK
  <1>2. ListOrdered
    BY DEF Init, ListOrdered
  <1>3. RefsBalanced
    BY UserTimerAssumption DEF Init, RefsBalanced, timer_pending, Contains
  <1>4. NoLostWakeup /\ InHand
    BY Zenon DEF Init, NoLostWakeup, InHand, Idle
  <1> QED
    BY <1>1, <1>2, <1>3, <1>4, Zenon DEF IInv

\* The calls of threads.
LEMMA EnterKeeps ==
  ASSUME IInv, NEW h \in Threads, NEW t \in Timers, NEW pc \in {"mod", "del"},
         NEW e \in Horizon, Enter(h, t, pc, e),
         UNCHANGED <<now, list, expires, due, refs, mutex, signal, loop>>
  PROVE  IInv'
  <1>1. [pc |-> pc, timer |-> t, expires |-> e] \in Calls
    BY Zenon DEF Calls
  <1>2. thr' \in [Threads -> Calls] /\ ops' \in [Threads -> 0..MaxOps]
    BY <1>1, UserTimerAssumption DEF IInv, TypeOK, Enter
  <1>3. TypeOK'
    BY <1>2, Zenon DEF IInv, TypeOK
  <1>4. InHand'
    BY Zenon DEF IInv, InHand, Enter, TypeOK
  <1> QED
    BY <1>3, <1>4, SameLists, Zenon DEF IInv, NoLostWakeup

\* mod_timer under sk_reset_timer keeps the invariant.
LEMMA ResetModKeeps ==
  ASSUME IInv, NEW h \in Threads, ResetMod(h)
  PROVE  IInv'
  <1> DEFINE t == thr[h].timer
             e == thr[h].expires
  <1>1. t \in Timers /\ e \in Horizon /\ mod_timer(t, e) /\ TypeOK /\ ListOrdered
    BY Zenon DEF IInv, InHand, ResetMod, TypeOK, Calls
  <1>2. loop' = loop /\ mutex' = mutex /\ now' = now /\ ops' = ops
        /\ thr' = [thr EXCEPT ![h] = Idle]
        /\ refs' = [refs EXCEPT ![t] = IF timer_pending(t) THEN @ ELSE @ + 1]
    BY Zenon DEF ResetMod, Leave
  <1> HIDE DEF t, e
  <1>3. /\ list' \in Seq(Timers) /\ list' # << >>
        /\ expires' \in [Timers -> Horizon]
        /\ due' \in [Timers -> Horizon \cup {Never}]
        /\ signal' \in BOOLEAN
        /\ ListOrdered'
        /\ \A u \in Timers : Contains(list', u) <=> (u = t \/ Contains(list, u))
        /\ \/ signal'
           \/ list # << >> /\ due[Head(list)] <= due'[Head(list')] /\ signal' = signal
    BY <1>1, ModKeeps, Zenon
  <1>4. RefsBalanced' /\ refs' \in [Timers -> 0..2]
    <2> DEFINE n == IF timer_pending(t) THEN 0 ELSE 1
    <2>1. n \in Int /\ refs \in [Timers -> 0..2]
      BY DEF IInv, TypeOK
    <2>2. refs' = [refs EXCEPT ![t] = @ + n]
      <3>1. refs[t] \in Int /\ refs[t] + 0 = refs[t]
        BY <1>1, <2>1
      <3>2. CASE timer_pending(t)
        BY <1>2, <3>1, <3>2, Zenon
      <3>3. CASE ~timer_pending(t)
        BY <1>2, <3>3, Zenon
      <3> QED
        BY <3>2, <3>3, Zenon
    <2>3. refs[t] = (IF timer_pending(t) THEN 1 ELSE 0) + (IF loop.timer = t THEN 1 ELSE 0)
      BY <1>1, Zenon DEF IInv, RefsBalanced
    <2>4. refs[t] + n = (IF Contains(list', t) THEN 1 ELSE 0) + (IF loop'.timer = t THEN 1 ELSE 0)
      BY <1>1, <1>2, <1>3, <2>3
    <2> HIDE DEF n
    <2> QED
      BY <1>1, <1>2, <1>3, <2>1, <2>2, <2>4, Balance, Zenon DEF IInv
  <1>5. thr' \in [Threads -> Calls]
    BY <1>2, Times, Zenon DEF IInv, TypeOK, Calls, Idle
  <1>6. TypeOK'
    BY <1>2, <1>3, <1>4, <1>5, Zenon DEF IInv, TypeOK
  <1>7. InHand'
    BY <1>2, Zenon DEF IInv, InHand, Idle, TypeOK
  <1>8. NoLostWakeup'
    <2> SUFFICES ASSUME loop.pc = "select", due'[Head(list')] < loop.deadline, ~signal'
                 PROVE  FALSE
      BY <1>2, Zenon DEF NoLostWakeup
    <2>1. list # << >> /\ due[Head(list)] <= due'[Head(list')] /\ ~signal
      BY <1>3
    <2>2. due[Head(list)] \in Nat /\ due'[Head(list')] \in Nat /\ loop.deadline \in Nat
      <3>1. due \in [Timers -> Nat] /\ due' \in [Timers -> Nat] /\ loop.deadline \in Nat
        BY <1>1, <1>3, Times, Zenon DEF TypeOK, LoopStates
      <3>2. Head(list) \in Timers /\ Head(list') \in Timers
        BY <1>1, <1>3, <2>1 DEF TypeOK
      <3> QED
        BY <3>1, <3>2, Zenon
    <2>3. due[Head(list)] < loop.deadline
      BY <2>1, <2>2
    <2> QED
      BY <2>1, <2>3, Zenon DEF IInv, NoLostWakeup
  <1> QED
    BY <1>3, <1>4, <1>6, <1>7, <1>8, Zenon DEF IInv

\* What Unlink does for the invariant, whoever unlinks.
LEMMA UnlinkInv ==
  ASSUME IInv, NEW t \in Timers, list' = Unlink(t), due' = due
  PROVE  /\ list' \in Seq(Timers) /\ ListOrdered' /\ ~Contains(list', t)
         /\ \A u \in Timers : u # t => (Contains(list', u) <=> Contains(list, u))
         /\ loop.pc = "select" /\ list' # << >> /\ due[Head(list')] < loop.deadline => signal
  <1>1. list \in Seq(Timers) /\ due \in [Timers -> Nat] /\ ListOrdered /\ loop.deadline \in Nat
    BY Times, Zenon DEF IInv, TypeOK, LoopStates
  <1>2. /\ Unlink(t) \in Seq(Timers) /\ Ordered(Unlink(t), due) /\ ~Contains(Unlink(t), t)
        /\ \A u \in Timers : u # t => (Contains(Unlink(t), u) <=> Contains(list, u))
        /\ Unlink(t) # << >> => list # << >> /\ due[Head(list)] <= due[Head(Unlink(t))]
    BY <1>1, UnlinkKeeps, Zenon
  <1>3. ListOrdered'
    BY <1>2, Zenon DEF ListOrdered, Ordered
  <1>4. ASSUME loop.pc = "select", list' # << >>, due[Head(list')] < loop.deadline
        PROVE  signal
    <2>1. list # << >> /\ due[Head(list)] <= due[Head(list')]
      BY <1>2, <1>4, Zenon
    <2>2. due[Head(list)] \in Nat /\ due[Head(list')] \in Nat
      BY <1>1, <1>2, <1>4, <2>1
    <2>3. due[Head(list)] < loop.deadline
      BY <1>1, <1>4, <2>1, <2>2
    <2> QED
      BY <1>4, <2>1, <2>3, Zenon DEF IInv, NoLostWakeup
  <1> QED
    BY <1>2, <1>3, <1>4, Zenon

\* del_timer under sk_stop_timer keeps the invariant.
LEMMA DelTimerKeeps ==
  ASSUME IInv, NEW h \in Threads, DelTimer(h)
  PROVE  IInv'
  <1> DEFINE t == thr[h].timer
  <1>1. /\ t \in Timers /\ thr[h] \in Calls /\ thr \in [Threads -> Calls] /\ TypeOK
        /\ thr[h].pc = "del"
    BY Zenon DEF IInv, InHand, DelTimer, TypeOK
  <1>2. Idle \in Calls /\ [thr[h] EXCEPT !.pc = "signal"] \in Calls
        /\ [thr[h] EXCEPT !.pc = "signal"].timer = t
    BY <1>1, Times, Zenon DEF Idle, Calls
  <1>3. UNCHANGED <<now, expires, due, signal, loop, ops>>
    BY Zenon DEF DelTimer
  <1>4. /\ thr' \in [Threads -> Calls]
        /\ thr' = [thr EXCEPT ![h] = Idle] \/ thr' = [thr EXCEPT ![h].pc = "signal"]
    BY <1>1, <1>2, Zenon DEF DelTimer, Leave
  <1>5. InHand'
    <2>1. ASSUME NEW g \in Threads, thr'[g].pc # "idle" PROVE thr'[g].timer \in Timers
      <3>1. CASE g # h
        <4>1. thr'[g] = thr[g]
          BY <1>4, <3>1, Zenon
        <4> QED
          BY <2>1, <4>1, Zenon DEF IInv, InHand
      <3>2. CASE g = h
        <4>1. thr'[h] = Idle \/ thr'[h] = [thr[h] EXCEPT !.pc = "signal"]
          BY <1>1, <1>4, Zenon
        <4>2. thr'[h] # Idle
          BY <2>1, <3>2 DEF Idle
        <4> QED
          BY <1>1, <1>2, <3>2, <4>1, <4>2, Zenon
      <3> QED
        BY <3>1, <3>2, Zenon
    <2> QED
      BY <1>3, <2>1, Zenon DEF IInv, InHand
  <1> HIDE DEF t
  <1>6. CASE timer_pending(t)
    <2>1. list' = Unlink(t) /\ refs' = [refs EXCEPT ![t] = @ - 1] /\ mutex' = mutex
      BY <1>6, Zenon DEF DelTimer, t
    <2>2. /\ list' \in Seq(Timers) /\ ListOrdered' /\ ~Contains(list', t)
          /\ \A u \in Timers : u # t => (Contains(list', u) <=> Contains(list, u))
          /\ loop.pc = "select" /\ list' # << >> /\ due[Head(list')] < loop.deadline => signal
      BY <1>1, <1>3, <2>1, UnlinkInv, Zenon
    <2>3. refs[t] = 1 + (IF loop.timer = t THEN 1 ELSE 0)
      BY <1>1, <1>6, Zenon DEF IInv, RefsBalanced
    <2>4. refs' = [refs EXCEPT ![t] = @ + (-1)]
      BY <1>1, <2>1, <2>3, Zenon
    <2>5. RefsBalanced' /\ refs' \in [Timers -> 0..2]
      <3>1. refs[t] + (-1) = (IF Contains(list', t) THEN 1 ELSE 0) + (IF loop'.timer = t THEN 1 ELSE 0)
        BY <1>3, <2>2, <2>3
      <3>2. RefsBalanced /\ refs \in [Timers -> 0..2] /\ -1 \in Int
        BY DEF IInv, TypeOK
      <3> QED
        BY <1>1, <1>3, <2>2, <2>4, <3>1, <3>2, Balance, Zenon
    <2>6. TypeOK'
      BY <1>1, <1>3, <1>4, <2>1, <2>2, <2>5, Zenon DEF TypeOK
    <2>7. NoLostWakeup'
      BY <1>3, <2>2, Zenon DEF NoLostWakeup
    <2> QED
      BY <1>5, <2>2, <2>5, <2>6, <2>7, Zenon DEF IInv
  <1>7. CASE ~timer_pending(t)
    <2>1. mutex' = TRUE /\ list' = list /\ refs' = refs
      BY <1>7, Zenon DEF DelTimer, t
    <2>2. TypeOK'
      BY <1>1, <1>3, <1>4, <2>1, Zenon DEF TypeOK
    <2>3. NoLostWakeup'
      BY <1>3, <2>1, Zenon DEF IInv, NoLostWakeup
    <2> QED
      BY <1>3, <1>5, <2>1, <2>2, <2>3, SameLists, Zenon DEF IInv
  <1> QED
    BY <1>6, <1>7, Zenon

\* The signal that mod_timer raises for the main loop keeps the invariant.
LEMMA SignalKeeps ==
  ASSUME IInv, NEW h \in Threads, SignalChange(h)
  PROVE  IInv'
  <1>1. /\ UNCHANGED <<now, list, expires, due, refs, mutex, loop, ops>>
        /\ signal' = TRUE /\ thr' = [thr EXCEPT ![h] = Idle]
    BY Zenon DEF SignalChange, Leave
  <1>2. Idle \in Calls
    BY Times, Zenon DEF Idle, Calls
  <1>3. TypeOK'
    BY <1>1, <1>2, Zenon DEF IInv, TypeOK
  <1>4. InHand'
    BY <1>1, Zenon DEF IInv, InHand, Idle, TypeOK
  <1> QED
    BY <1>1, <1>3, <1>4, SameLists, Zenon DEF IInv, NoLostWakeup

\* The steps of the main loop: select returns, or there is nothing to fire.
LEMMA LoopMoves ==
  ASSUME IInv, NEW p \in {"top", "timeout"}, loop.pc # "call",
         loop' = [loop EXCEPT !.pc = p], signal' \in BOOLEAN,
         UNCHANGED <<now, list, expires, due, refs, mutex, thr, ops>>
  PROVE  IInv'
  <1>1. loop \in LoopStates /\ loop.timer \in Timers \cup {NoTimer}
        /\ loop.deadline \in Horizon \cup {Never}
    BY Zenon DEF IInv, TypeOK, LoopStates
  <1>2. loop' \in LoopStates /\ loop'.pc = p /\ loop'.timer = loop.timer
    BY <1>1, Zenon DEF LoopStates
  <1>3. TypeOK'
    BY <1>2, Zenon DEF IInv, TypeOK
  <1>4. InHand'
    BY <1>2, Zenon DEF IInv, InHand
  <1> QED
    BY <1>2, <1>3, <1>4, SameLists, Zenon DEF IInv, NoLostWakeup

\* timer_list_get_next_timeout keeps the invariant.
LEMMA GetNextTimeoutKeeps ==
  ASSUME IInv, GetNextTimeout
  PROVE  IInv'
  <1> DEFINE d == IF list = << >> THEN Never ELSE due[Head(list)]
             p == IF d < now THEN "timeout" ELSE "select"
  <1>1. /\ loop.pc = "top" /\ signal' = FALSE /\ loop' = [loop EXCEPT !.pc = p, !.deadline = d]
        /\ UNCHANGED <<now, list, expires, due, refs, mutex, thr, ops>>
    BY Zenon DEF GetNextTimeout
  <1>2. loop \in LoopStates /\ loop.timer \in Timers \cup {NoTimer} /\ list \in Seq(Timers)
        /\ due \in [Timers -> Horizon \cup {Never}]
    BY Zenon DEF IInv, TypeOK, LoopStates
  <1>3. d \in Horizon \cup {Never}
    BY <1>2
  <1>4. p \in {"top", "select", "timeout", "call"} /\ p # "call"
    OBVIOUS
  <1> HIDE DEF d, p
  <1>5. loop' \in LoopStates /\ loop'.pc = p /\ loop'.timer = loop.timer /\ loop'.deadline = d
    BY <1>1, <1>2, <1>3, <1>4, Zenon DEF LoopStates
  <1>6. TypeOK'
    BY <1>1, <1>5, Zenon DEF IInv, TypeOK
  <1>7. InHand'
    BY <1>1, <1>4, <1>5, Zenon DEF IInv, InHand
  <1>8. NoLostWakeup'
    <2> SUFFICES ASSUME list # << >>, due[Head(list)] < d PROVE FALSE
      BY <1>1, <1>5, Zenon DEF NoLostWakeup
    <2>1. d = due[Head(list)] /\ d \in Nat
      BY <1>3, Times, Zenon DEF d
    <2> QED
      BY <2>1
  <1> QED
    BY <1>1, <1>5, <1>6, <1>7, <1>8, SameLists, Zenon DEF IInv

\* The loop goes to sleep, and wakes, with the invariant.
LEMMA SelectKeeps ==
  ASSUME IInv, SelectSignal \/ SelectOther \/ SelectTimeout
  PROVE  IInv'
  <1>1. signal \in BOOLEAN /\ FALSE \in BOOLEAN
    BY Zenon DEF IInv, TypeOK
  <1> QED
    BY <1>1, LoopMoves, Zenon DEF SelectSignal, SelectOther, SelectTimeout

\* The first timer leaves the list for the callback: what it held stays held.
LEMMA HandleTimeoutKeeps ==
  ASSUME IInv, HandleTimeout
  PROVE  IInv'
  <1>1. loop.pc = "timeout" /\ UNCHANGED <<now, expires, due, refs, mutex, signal, thr, ops>>
    BY Zenon DEF HandleTimeout
  <1>2. /\ loop \in LoopStates /\ list \in Seq(Timers) /\ signal \in BOOLEAN
        /\ loop.deadline \in Horizon \cup {Never} /\ loop.timer = NoTimer
    BY <1>1, Zenon DEF IInv, TypeOK, LoopStates, InHand
  <1>3. CASE list = << >>
    <2>1. loop' = [loop EXCEPT !.pc = "top"] /\ list' = list
      BY <1>3, Zenon DEF HandleTimeout
    <2> QED
      BY <1>1, <1>2, <2>1, LoopMoves, Zenon
  <1>4. CASE list # << >>
    <2> DEFINE t == Head(list)
    <2>1. loop' = [loop EXCEPT !.pc = "call", !.timer = t] /\ list' = Tail(list)
      BY <1>4, Zenon DEF HandleTimeout
    <2>2. t \in Timers /\ t # NoTimer /\ t = list[1] /\ Len(list) \in Nat /\ Len(list) >= 1
      BY <1>2, <1>4, UserTimerAssumption
    <2>3. loop' \in LoopStates /\ loop'.pc = "call" /\ loop'.timer = t
      BY <1>2, <2>1, <2>2, Zenon DEF LoopStates
    <2>4. /\ list' \in Seq(Timers) /\ Len(list') = Len(list) - 1
          /\ \A i \in 1..Len(list) - 1 : list'[i] = list[i + 1]
      BY <1>2, <1>4, <2>1
    <2> HIDE DEF t
    <2>5. ListOrdered'
      <3> SUFFICES ASSUME NEW i \in 1..Len(list'), NEW j \in 1..Len(list'), i < j
                   PROVE  list'[i] # list'[j] /\ due[list'[i]] <= due[list'[j]]
        BY <1>1, Zenon DEF ListOrdered
      <3>1. i + 1 \in 1..Len(list) /\ j + 1 \in 1..Len(list) /\ i + 1 < j + 1
            /\ list'[i] = list[i + 1] /\ list'[j] = list[j + 1]
        BY <2>2, <2>4
      <3> QED
        BY <3>1, Zenon DEF IInv, ListOrdered
    <2>6. ~Contains(list', t)
      <3> SUFFICES ASSUME NEW i \in 1..Len(list'), list'[i] = t PROVE FALSE
        BY Zenon DEF Contains
      <3>1. i + 1 \in 1..Len(list) /\ 1 \in 1..Len(list) /\ 1 < i + 1 /\ list[i + 1] = list[1]
        BY <2>2, <2>4
      <3> QED
        BY <3>1, Zenon DEF IInv, ListOrdered
    <2>7. ASSUME NEW u \in Timers, u # t PROVE Contains(list', u) <=> Contains(list, u)
      <3>1. ASSUME Contains(list', u) PROVE Contains(list, u)
        <4>1. PICK i \in 1..Len(list') : list'[i] = u
          BY <3>1, Zenon DEF Contains
        <4>2. i + 1 \in 1..Len(list) /\ list[i + 1] = u
          BY <2>2, <2>4, <4>1
        <4> QED
          BY <4>2, Zenon DEF Contains
      <3>2. ASSUME Contains(list, u) PROVE Contains(list', u)
        <4>1. PICK i \in 1..Len(list) : list[i] = u
          BY <3>2, Zenon DEF Contains
        <4>2. i # 1
          BY <2>2, <2>7, <4>1, Zenon
        <4>3. i - 1 \in 1..Len(list') /\ list'[i - 1] = list[(i - 1) + 1]
          BY <2>2, <2>4, <4>2
        <4> QED
          BY <4>1, <4>3 DEF Contains
      <3> QED
        BY <3>1, <3>2, Zenon
    <2>8. RefsBalanced' /\ refs' \in [Timers -> 0..2]
      <3>1. Contains(list, t)
        BY <2>2 DEF Contains
      <3>2. refs[t] = 1 /\ refs \in [Timers -> 0..2] /\ RefsBalanced /\ 0 \in Int
        BY <1>2, <2>2, <3>1 DEF IInv, RefsBalanced, timer_pending, TypeOK
      <3>3. refs' = [refs EXCEPT ![t] = @ + 0]
        BY <1>1, <3>2
      <3>4. refs[t] + 0 = (IF Contains(list', t) THEN 1 ELSE 0) + (IF loop'.timer = t THEN 1 ELSE 0)
        BY <2>3, <2>6, <3>2
      <3>5. \A u \in Timers : u # t => (loop'.timer = u <=> loop.timer = u)
        BY <1>2, <2>3, UserTimerAssumption, Zenon
      <3> QED
        BY <2>2, <2>7, <3>2, <3>3, <3>4, <3>5, Balance, Zenon
    <2>9. TypeOK'
      BY <1>1, <2>3, <2>4, <2>8, Zenon DEF IInv, TypeOK
    <2>10. InHand' /\ NoLostWakeup'
      BY <1>1, <2>2, <2>3, Zenon DEF IInv, InHand, NoLostWakeup
    <2> QED
      BY <2>5, <2>8, <2>9, <2>10, Zenon DEF IInv
  <1> QED
    BY <1>3, <1>4, Zenon

\* The end of a callback: the loop has no timer in hand and computes its sleep
\* anew, so only the list and the references matter.
LEMMA CallbackEnds ==
  ASSUME IInv, loop.pc = "call", NEW n \in Int,
         list' \in Seq(Timers), expires' \in [Timers -> Horizon],
         due' \in [Timers -> Horizon \cup {Never}], signal' \in BOOLEAN, ListOrdered',
         \A u \in Timers : u # loop.timer => (Contains(list', u) <=> Contains(list, u)),
         refs' = [refs EXCEPT ![loop.timer] = @ + n],
         refs[loop.timer] + n = (IF Contains(list', loop.timer) THEN 1 ELSE 0),
         loop' = [loop EXCEPT !.pc = "top", !.timer = NoTimer],
         UNCHANGED <<now, mutex, thr, ops>>
  PROVE  IInv'
  <1> DEFINE t == loop.timer
  <1>1. /\ t \in Timers /\ loop \in LoopStates /\ loop.deadline \in Horizon \cup {Never}
        /\ refs \in [Timers -> 0..2] /\ RefsBalanced
    BY Zenon DEF IInv, InHand, TypeOK, LoopStates
  <1>2. loop' \in LoopStates /\ loop'.pc = "top" /\ loop'.timer = NoTimer
    BY <1>1, Zenon DEF LoopStates
  <1>3. loop'.timer # t /\ \A u \in Timers : u # t => (loop'.timer = u <=> loop.timer = u)
    BY <1>1, <1>2, UserTimerAssumption, Zenon
  <1>4. refs[t] + n = (IF Contains(list', t) THEN 1 ELSE 0) + (IF loop'.timer = t THEN 1 ELSE 0)
    BY <1>3
  <1>5. refs' = [refs EXCEPT ![t] = @ + n]
        /\ \A u \in Timers : u # t => (Contains(list', u) <=> Contains(list, u))
    OBVIOUS
  <1> HIDE DEF t
  <1>6. RefsBalanced' /\ refs' \in [Timers -> 0..2]
    BY <1>1, <1>3, <1>4, <1>5, Balance, Zenon
  <1>7. TypeOK'
    BY <1>2, <1>6, Zenon DEF IInv, TypeOK
  <1>8. InHand' /\ NoLostWakeup'
    BY <1>2, Zenon DEF IInv, InHand, NoLostWakeup
  <1> QED
    BY <1>6, <1>7, <1>8, Zenon DEF IInv

\* A callback that arms its own timer again keeps the invariant.
LEMMA CallbackRearmKeeps ==
  ASSUME IInv, NEW d \in Delays, CallbackRearm(d)
  PROVE  IInv'
  <1> DEFINE t == loop.timer
             n == IF timer_pending(t) THEN -1 ELSE 0
  <1>1. /\ loop.pc = "call" /\ mod_timer(t, now + d)
        /\ refs' = [refs EXCEPT ![t] = IF timer_pending(t) THEN @ - 1 ELSE @]
        /\ loop' = [loop EXCEPT !.pc = "top", !.timer = NoTimer]
        /\ UNCHANGED <<now, mutex, thr, ops>>
    BY Zenon DEF CallbackRearm
  <1>2. /\ t \in Timers /\ now \in 0..MaxTime /\ TypeOK /\ ListOrdered
        /\ refs \in [Timers -> 0..2]
    BY <1>1, Zenon DEF IInv, InHand, TypeOK
  <1>3. now + d \in Horizon
    BY <1>2, Times, Zenon
  <1>4. /\ list' \in Seq(Timers) /\ expires' \in [Timers -> Horizon]
        /\ due' \in [Timers -> Horizon \cup {Never}] /\ signal' \in BOOLEAN /\ ListOrdered'
        /\ \A u \in Timers : Contains(list', u) <=> (u = t \/ Contains(list, u))
    BY <1>1, <1>2, <1>3, ModKeeps, Zenon
  <1>5. refs[t] = (IF timer_pending(t) THEN 1 ELSE 0) + 1 /\ n \in Int
    BY <1>2 DEF IInv, RefsBalanced
  <1>6. refs' = [refs EXCEPT ![t] = @ + n]
    <2>1. refs[t] + 0 = refs[t] /\ refs[t] + (-1) = refs[t] - 1
      BY <1>5
    <2>2. CASE timer_pending(t)
      BY <1>1, <2>1, <2>2, Zenon
    <2>3. CASE ~timer_pending(t)
      BY <1>1, <2>1, <2>3, Zenon
    <2> QED
      BY <2>2, <2>3, Zenon
  <1>7. refs[t] + n = (IF Contains(list', t) THEN 1 ELSE 0)
    BY <1>2, <1>4, <1>5
  <1>8. n \in Int
    BY <1>5, Zenon
  <1> HIDE DEF n
  <1> QED
    BY <1>1, <1>2, <1>4, <1>6, <1>7, <1>8, CallbackEnds, Zenon

\* A callback that ends and drops the reference of its timer keeps the invariant.
LEMMA CallbackDoneKeeps ==
  ASSUME IInv, CallbackDone
  PROVE  IInv'
  <1> DEFINE t == loop.timer
             n == IF timer_pending(t) THEN -2 ELSE -1
  <1>1. /\ loop.pc = "call" /\ list' = Unlink(t) /\ signal' = (signal \/ IsFirst(t))
        /\ refs' = [refs EXCEPT ![t] = IF timer_pending(t) THEN @ - 2 ELSE @ - 1]
        /\ loop' = [loop EXCEPT !.pc = "top", !.timer = NoTimer]
        /\ UNCHANGED <<now, expires, due, mutex, thr, ops>>
    BY Zenon DEF CallbackDone
  <1>2. /\ t \in Timers /\ refs \in [Timers -> 0..2] /\ expires \in [Timers -> Horizon]
        /\ due \in [Timers -> Horizon \cup {Never}]
    BY <1>1, Zenon DEF IInv, InHand, TypeOK
  <1>3. /\ list' \in Seq(Timers) /\ ListOrdered' /\ ~Contains(list', t)
        /\ \A u \in Timers : u # t => (Contains(list', u) <=> Contains(list, u))
    BY <1>1, <1>2, UnlinkInv, Zenon
  <1>4. signal' \in BOOLEAN
    BY <1>1, Zenon
  <1>5. refs[t] = (IF timer_pending(t) THEN 1 ELSE 0) + 1
    BY <1>2, Zenon DEF IInv, RefsBalanced
  <1>6. refs' = [refs EXCEPT ![t] = @ + n]
    <2>1. refs[t] + (-2) = refs[t] - 2 /\ refs[t] + (-1) = refs[t] - 1
      BY <1>5, Zenon
    <2>2. CASE timer_pending(t)
      BY <1>1, <2>1, <2>2, Zenon
    <2>3. CASE ~timer_pending(t)
      BY <1>1, <2>1, <2>3, Zenon
    <2> QED
      BY <2>2, <2>3, Zenon
  <1>7. refs[t] + n = (IF Contains(list', t) THEN 1 ELSE 0)
    BY <1>3, <1>5
  <1>8. n \in Int
    OBVIOUS
  <1> HIDE DEF n
  <1> QED
    BY <1>1, <1>2, <1>3, <1>4, <1>6, <1>7, <1>8, CallbackEnds, Zenon

-----------------------------------------------------------------------------
(* The theorems *)

\* Every reachable state of the timer list, the main loop and the threads that
\* arm and stop timers satisfies the inductive invariant.
THEOREM Inductive == Spec => []IInv
  <1>1. IInv /\ [Next]_vars => IInv'
    <2> SUFFICES ASSUME IInv, [Next]_vars PROVE IInv'
      OBVIOUS
    <2>1. ASSUME NEW h \in Threads, NEW t \in Timers, NEW d \in Delays, sk_reset_timer(h, t, d)
          PROVE  IInv'
      <3>1. now + d \in Horizon
        BY Times, Zenon DEF IInv, TypeOK
      <3> QED
        BY <2>1, <3>1, EnterKeeps, Zenon DEF sk_reset_timer
    <2>2. ASSUME NEW h \in Threads, NEW t \in Timers, sk_stop_timer(h, t)
          PROVE  IInv'
      BY <2>2, Times, EnterKeeps, Zenon DEF sk_stop_timer
    <2>3. CASE Tick
      <3>1. now' \in 0..MaxTime
        BY <2>3, UserTimerAssumption DEF Tick, IInv, TypeOK
      <3>2. UNCHANGED <<list, expires, due, refs, mutex, signal, loop, thr, ops>>
        BY <2>3, Zenon DEF Tick
      <3>3. TypeOK' /\ InHand' /\ NoLostWakeup'
        BY <3>1, <3>2, Zenon DEF IInv, TypeOK, InHand, NoLostWakeup
      <3> QED
        BY <3>2, <3>3, SameLists, Zenon DEF IInv
    <2>4. CASE UNCHANGED vars
      BY <2>4 DEF vars, IInv, TypeOK, ListOrdered, RefsBalanced, NoLostWakeup, InHand,
         timer_pending
    <2>5. CASE \E h \in Threads : ThreadNext(h)
      BY <2>1, <2>2, <2>5, ResetModKeeps, DelTimerKeeps, SignalKeeps, Zenon DEF ThreadNext
    <2>6. CASE LoopNext
      BY <2>6, GetNextTimeoutKeeps, SelectKeeps, HandleTimeoutKeeps, CallbackRearmKeeps,
         CallbackDoneKeeps, Zenon DEF LoopNext
    <2> QED
      BY <2>3, <2>4, <2>5, <2>6, Zenon DEF Next
  <1> QED
    BY <1>1, InitInv, PTL DEF Spec

\* The loop never sleeps past a timer: mod_timer and del_timer put a byte in the
\* pipe whenever the list comes to start earlier than the loop knows.
THEOREM NoOversleep == Spec => []NoLostWakeup
  <1>1. IInv => NoLostWakeup
    BY Zenon DEF IInv
  <1> QED
    BY <1>1, Inductive, PTL

\* The list of timer.c holds each timer at most once and in order, and each timer
\* has as many references on its socket as there are places it is in.
THEOREM Consistent == Spec => []TimersConsistent
  <1>1. IInv => TimersConsistent
    BY Zenon DEF IInv, TimersConsistent
  <1> QED
    BY <1>1, Inductive, PTL
============================================================================
