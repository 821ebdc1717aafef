-------------------------- MODULE MsgChannelProofs --------------------------
(***************************************************************************)
(* Proofs about the message channels: the reference count of every channel *)
(* is the number of references there are to it, and no thread works on a   *)
(* channel that has been freed, for any number of handles, any number of   *)
(* messages and whatever the callbacks send on.                            *)
(***************************************************************************)
EXTENDS MsgChannel, TLAPS

TaskPcs == {"off", "start", "loop", "recv", "poll", "dispatch", "call", "lock", "sent",
            "put", "stop", "end", "done"}

ChanTypes == [st : States, ref : Nat, hashed : BOOLEAN, running : BOOLEAN, join : BOOLEAN,
              cb : BOOLEAN, peer : BOOLEAN, sig : BOOLEAN, lock : Chans \cup {None, Main}]
TaskTypes == [pc : TaskPcs, room : BOOLEAN, for : Chans \cup {None},
              on : Handles \cup {"none"}, holds : Chans \cup {None}]

MainPcs == {"create", "start", "hashbase", "hash", "run", "sending", "stop", "join",
            "unhashbase", "unhash", "put", "exit"}

Types ==
    /\ ch \in [Chans -> ChanTypes]
    /\ task \in [Tasked -> TaskTypes]
    /\ \A c \in Tasked : task[c].pc = "lock" => task[c].on \in Handles
    /\ mc \in [Handles -> Chans \cup {None}]
    /\ main \in [pc : MainPcs, k : 0..Len(Order)]
    /\ main.pc # "exit" => main.k \in 1..Len(Order)
    /\ crashed \in BOOLEAN

\* How far main is with the handle at place j of Order.
Stage(pc, k, j) ==
    CASE pc = "create" -> IF j < k THEN "made" ELSE "none"
      [] pc = "start" -> IF j <= k THEN "made" ELSE "up"
      [] pc = "hashbase" -> IF j < k THEN "made" ELSE IF j = k THEN "started" ELSE "up"
      [] pc = "hash" -> IF j < k THEN "made" ELSE IF j = k THEN "based" ELSE "up"
      [] pc \in {"run", "sending"} -> "up"
      [] pc \in {"stop", "join"} -> IF j <= k THEN "up" ELSE "none"
      [] pc = "unhashbase" -> IF j < k THEN "up" ELSE IF j = k THEN "joined" ELSE "none"
      [] pc = "unhash" -> IF j < k THEN "up" ELSE IF j = k THEN "unbased" ELSE "none"
      [] pc = "put" -> IF j < k THEN "up" ELSE IF j = k THEN "unhashed" ELSE "none"
      [] OTHER -> "none"

\* Nobody has channel c.
Unused(c) ==
    /\ ch[c].ref = 0 /\ ~ch[c].hashed
    /\ c \in Tasked => task[c].pc \in {"off", "done"} /\ task[c].for = None

\* The places of a thread where it has a message in hand.
InHand == {"call", "lock", "sent", "put"}

\* The channel b that owns the socket and the thread of a handle, where whole
\* says that it is the channel of the handle itself.
BaseHashed(stage, whole) ==
    stage \in {"based", "up", "joined"} \/ (stage = "unbased" /\ whole)

BasePcs(stage) ==
    IF stage = "made" THEN {"off", "done"}
    ELSE IF stage \in {"started", "based", "up"} THEN TaskPcs \ {"off"}
    ELSE {"done"}

BaseOK(stage, b, whole) ==
    /\ stage = "joined" => ~whole
    /\ ch[b].hashed <=> BaseHashed(stage, whole)
    /\ ch[b].ref = IF BaseHashed(stage, whole) THEN 2 ELSE 1
    /\ ch[b].st \in IF stage = "made" THEN {"INITIALIZED"} ELSE {"RUNNING", "STOPPED"}
    /\ ch[b].join <=> stage # "made"
    /\ task[b].pc \in BasePcs(stage)
    /\ task[b].for = IF task[b].pc \in InHand THEN Target(b) ELSE None

\* The UDP channel c of a handle, on top of b.
WrapperHashed(stage) == stage \in {"up", "joined", "unbased"}

WrapperOK(stage, c, b) ==
    /\ ch[c].hashed <=> WrapperHashed(stage)
    /\ ch[c].st = "CREATED"
    /\ ch[c].ref = (IF WrapperHashed(stage) THEN 2 ELSE 1) + (IF task[b].for = c THEN 1 ELSE 0)

\* Handle h at a stage: it has no channel, or it has channel c and the other
\* ones are unused.
HasChannel(stage, h, c) ==
    /\ c \in Chans /\ c[1] = h /\ c[2] # "BASE"
    /\ \A d \in Chans : d[1] = h /\ d # c /\ d # BaseOf(c) => Unused(d)
    /\ BaseOK(stage, BaseOf(c), BaseOf(c) = c)
    /\ c[2] = "UDP" => WrapperOK(stage, c, BaseOf(c))

HasNone(h) == mc[h] = None /\ \A c \in Chans : c[1] = h => Unused(c)

HandleOK(stage, h) == IF stage = "none" THEN HasNone(h) ELSE HasChannel(stage, h, mc[h])

AllOK == \A j \in 1..Len(Order) : HandleOK(Stage(main.pc, main.k, j), Order[j])

IInv ==
    /\ TaskOnLiveChannel
    /\ ~crashed => Types /\ AllOK

-----------------------------------------------------------------------------
\* Channels and what the operations make of the memory.

\* The channels of a handle: two local ones, or a wrapper and its base.
LEMMA ChanFacts ==
    ASSUME NEW c \in Chans
    PROVE  /\ c = <<c[1], c[2]>> /\ c[1] \in Handles /\ c # None
           /\ c[1] \in Remote => c[2] \in {"UDP", "BASE"}
           /\ c[1] \notin Remote => c[2] \in {"NETLINK", "UNIX"}
           /\ c[2] # "UDP" => c \in Tasked /\ BaseOf(c) = c
           /\ c[2] = "UDP" => c \notin Tasked /\ BaseOf(c) = <<c[1], "BASE">>
           /\ BaseOf(c) \in Tasked /\ BaseOf(c) \in Chans /\ BaseOf(c)[1] = c[1]
<1>1. CASE c \in Remote \X {"UDP", "BASE"}
  <2>1. c = <<c[1], c[2]>> /\ c[1] \in Remote /\ c[2] \in {"UDP", "BASE"}
    BY <1>1
  <2>2. <<c[1], "BASE">> \in Chans
    BY <2>1, Zenon DEF Chans
  <2>3. c[1] \in Handles
    BY <2>1, MsgChannelAssumption, Zenon
  <2>4. c # None
    BY <2>1 DEF None
  <2>5. /\ c[2] # "UDP" => c \in Tasked /\ BaseOf(c) = c
        /\ c[2] = "UDP" => c \notin Tasked /\ BaseOf(c) = <<c[1], "BASE">>
    BY <2>1, Zenon DEF Tasked, BaseOf
  <2>6. BaseOf(c) = <<c[1], "BASE">>
    BY <2>1, Zenon DEF BaseOf
  <2>7. <<c[1], "BASE">> \in Tasked /\ <<c[1], "BASE">>[1] = c[1]
    BY <2>2, Zenon DEF Tasked
  <2>8. BaseOf(c) \in Tasked /\ BaseOf(c) \in Chans /\ BaseOf(c)[1] = c[1]
    BY <2>2, <2>6, <2>7, Zenon
  <2>9. c[2] \in {"UDP", "BASE"} /\ c[1] \in Remote
    BY <2>1, Zenon
  <2> QED
    BY <2>1, <2>3, <2>4, <2>5, <2>8, <2>9, Zenon
<1>2. CASE c \in (Handles \ Remote) \X {"NETLINK", "UNIX"}
  <2>1. c = <<c[1], c[2]>> /\ c[1] \in Handles \ Remote /\ c[2] \in {"NETLINK", "UNIX"}
    BY <1>2
  <2> QED
    BY <2>1 DEF Tasked, None, BaseOf
<1> QED
  BY <1>1, <1>2, Zenon DEF Chans

\* A thread belongs to a channel; that of a base works for its wrapper.
LEMMA TargetFacts ==
    ASSUME NEW b \in Tasked
    PROVE  /\ b \in Chans /\ Target(b) \in Chans /\ Target(b)[1] = b[1] /\ b[2] # "UDP"
           /\ Target(b) # None /\ BaseOf(Target(b)) = b
           /\ b[2] = "BASE" => Target(b) = <<b[1], "UDP">> /\ Target(b) # b
           /\ b[2] # "BASE" => Target(b) = b
  BY MsgChannelAssumption DEF Chans, Tasked, None, BaseOf, Target

Mems == [ch : [Chans -> ChanTypes], crashed : BOOLEAN]

\* The memory with channel c replaced.
With(s, c, x) == [ch |-> [s.ch EXCEPT ![c] = x], crashed |-> s.crashed]

Freed == [NoChan EXCEPT !.st = "FREED"]

Gone == {"NONE", "FREED"}

LEMMA NoChanType == NoChan \in ChanTypes /\ Freed \in ChanTypes
  BY Zenon DEF NoChan, Freed, ChanTypes, States

LEMMA WithType ==
    ASSUME NEW s \in Mems, NEW c \in Chans, NEW x \in ChanTypes
    PROVE  /\ With(s, c, x) \in Mems
           /\ With(s, c, x).crashed = s.crashed
           /\ With(s, c, x).ch[c] = x
           /\ \A d \in Chans : d # c => With(s, c, x).ch[d] = s.ch[d]
  BY Zenon DEF With, Mems

LEMMA TouchFacts ==
    ASSUME NEW s \in Mems, NEW c
    PROVE  /\ Touch(s, c) \in Mems /\ Touch(s, c).ch = s.ch
           /\ s.ch[c].st \notin Gone => Touch(s, c) = s
           /\ s.ch[c].st \in Gone => Touch(s, c).crashed
  BY Zenon DEF Mems, Touch, Gone

\* hashelm_put of a channel with other references.
LEMMA PutMore ==
    ASSUME NEW s \in Mems, NEW c \in Chans, ~s.crashed, s.ch[c].st \notin Gone,
           s.ch[c].ref > 1
    PROVE  hashelm_put(s, c) = With(s, c, [s.ch[c] EXCEPT !.ref = s.ch[c].ref - 1])
<1>1. Touch(s, c) = s
  BY TouchFacts, Zenon
<1>2. PutBase(s, c) = [s EXCEPT !.ch[c].ref = @ - 1]
  BY <1>1, Zenon DEF PutBase
<1>3. PutBase(s, c) = With(s, c, [s.ch[c] EXCEPT !.ref = s.ch[c].ref - 1])
  BY <1>2, Zenon DEF With, Mems
<1>4. PutBase(s, c).ch[c].st = s.ch[c].st
  BY <1>3 DEF With, Mems, ChanTypes
<1> QED
  BY <1>3, <1>4, Zenon DEF hashelm_put, Gone

\* The last reference to a channel: PutBase frees it.
LEMMA PutBaseLast ==
    ASSUME NEW s \in Mems, NEW c \in Chans, ~s.crashed, s.ch[c].st \notin Gone,
           s.ch[c].ref <= 1
    PROVE  PutBase(s, c) = With(s, c, Freed)
<1>1. Touch(s, c) = s
  BY TouchFacts, Zenon
<1>2. PutBase(s, c) = [s EXCEPT !.ch[c] = Freed]
  BY <1>1 DEF PutBase, Freed, Mems, ChanTypes
<1> QED
  BY <1>2, Zenon DEF With, Mems

LEMMA PutLast ==
    ASSUME NEW s \in Mems, NEW c \in Chans, ~s.crashed, s.ch[c].st \notin Gone,
           s.ch[c].ref <= 1, c[2] # "UDP"
    PROVE  hashelm_put(s, c) = With(s, c, Freed)
  BY PutBaseLast, Zenon DEF hashelm_put

\* The last reference to a wrapper: its base loses one as well.
LEMMA PutLastWrapper ==
    ASSUME NEW s \in Mems, NEW c \in Chans, ~s.crashed, s.ch[c].st \notin Gone,
           s.ch[c].ref <= 1, c[2] = "UDP"
    PROVE  hashelm_put(s, c) = PutBase(With(s, c, Freed), BaseOf(c))
<1>1. PutBase(s, c) = With(s, c, Freed)
  BY PutBaseLast, Zenon
<1>2. With(s, c, Freed).ch[c] = Freed
  BY WithType, NoChanType
<1>3. Freed.st = "FREED"
  BY Zenon DEF Freed, NoChan
<1> QED
  BY <1>1, <1>2, <1>3, Zenon DEF hashelm_put, Gone

-----------------------------------------------------------------------------
\* What the invariant says of a state.

Stages == {"none", "made", "started", "based", "up", "joined", "unbased", "unhashed"}

LEMMA StageType ==
    ASSUME NEW pc \in MainPcs, NEW k \in Int, NEW j \in Int
    PROVE  Stage(pc, k, j) \in Stages
  BY Zenon DEF Stage, Stages, MainPcs

LEMMA OrderLen == Len(Order) \in Nat /\ Len(Order) >= 1
<1>1. Order \in Seq(Handles) /\ Order # << >>
  BY MsgChannelAssumption, Zenon
<1> QED
  BY <1>1

LEMMA NextPlace ==
    \A i \in 1..Len(Order) :
        /\ i \in 0..Len(Order)
        /\ i # Len(Order) => i + 1 \in 0..Len(Order) /\ i + 1 \in 1..Len(Order)
  BY OrderLen

LEMMA PlaceInt == \A i \in 1..Len(Order) : i \in Int /\ Len(Order) \in Int
  BY OrderLen

LEMMA FirstPlace == 0 \in 0..Len(Order)
  BY OrderLen

\* Main creates the handles in order, and no other one changes its stage.
LEMMA CreateStages ==
    \A i \in 1..Len(Order) :
        /\ Stage("create", i + 1, i) = "made"
        /\ \A j \in 1..Len(Order) : j # i => Stage("create", i + 1, j) = Stage("create", i, j)
  BY OrderLen DEF Stage

\* The references of a wrapper: of its user, its table and the thread below it.
LEMMA WrapperCounts ==
    /\ \A f, c : f # c => 1 + (IF f = c THEN 1 ELSE 0) = 1
    /\ \A f, c : (1 + (IF f = c THEN 1 ELSE 0)) + 1 = 2 + (IF f = c THEN 1 ELSE 0)
  OBVIOUS

\* Every handle has one place.
LEMMA Places ==
    /\ Len(Order) \in Nat /\ Len(Order) >= 1
    /\ \A j \in 1..Len(Order) : Order[j] \in Handles
    /\ \A h \in Handles : \E j \in 1..Len(Order) : Order[j] = h
    /\ \A i, j \in 1..Len(Order) : Order[i] = Order[j] => i = j
<1>1. Order \in Seq(Handles) /\ Order # << >>
  BY MsgChannelAssumption, Zenon
<1>2. DOMAIN Order = 1..Len(Order) /\ Len(Order) \in Nat /\ Len(Order) >= 1
  BY <1>1
<1>3. \A i, j \in DOMAIN Order : Order[i] = Order[j] => i = j
  BY MsgChannelAssumption, Zenon DEF IsInjective
<1>4. \A h \in Handles : \E j \in DOMAIN Order : Order[j] = h
  BY Zenon DEF Handles, Range
<1>5. \A j \in 1..Len(Order) : Order[j] \in Handles
  BY <1>1
<1> QED
  BY <1>2, <1>3, <1>4, <1>5, Zenon

\* Each channel, by the handle it belongs to.
LEMMA HandleOfChan ==
    ASSUME Types, AllOK, NEW c \in Chans
    PROVE  \E s \in Stages : HandleOK(s, c[1])
<1>1. PICK j \in 1..Len(Order) : Order[j] = c[1]
  BY ChanFacts, Places, Zenon
<1>2. HandleOK(Stage(main.pc, main.k, j), c[1])
  BY <1>1, Zenon DEF AllOK
<1>3. Stage(main.pc, main.k, j) \in Stages
  BY StageType, Places DEF Types
<1> QED
  BY <1>2, <1>3, Zenon

\* A thread that runs is that of the channel of its handle, started and not yet
\* joined.
LEMMA ActiveTask ==
    ASSUME NEW b \in Tasked, task[b].pc \notin {"off", "done"},
           NEW s \in Stages, HandleOK(s, b[1])
    PROVE  /\ s \in {"started", "based", "up"} /\ mc[b[1]] = Target(b)
           /\ HasChannel(s, b[1], Target(b))
           /\ BaseOK(s, b, b = Target(b))
<1>1. b \in Chans
  BY TargetFacts, Zenon
<1>2. ~Unused(b)
  BY Zenon DEF Unused
<1>3. s # "none" /\ HasChannel(s, b[1], mc[b[1]])
  BY <1>1, <1>2, Zenon DEF HandleOK, HasNone
<1> DEFINE c == mc[b[1]]
<1>4. c \in Chans /\ c[1] = b[1] /\ c[2] # "BASE" /\ (b = c \/ b = BaseOf(c))
  BY <1>1, <1>2, <1>3, Zenon DEF HasChannel
<1> HIDE DEF c
<1>5. b = BaseOf(c)
  BY <1>4, ChanFacts, TargetFacts, Zenon
<1>6. c = Target(b)
  BY <1>4, <1>5, ChanFacts, TargetFacts, Zenon DEF BaseOf, Target
<1>7. BaseOK(s, b, b = c)
  BY <1>3, <1>5, Zenon DEF HasChannel, c
<1>8. s \in {"started", "based", "up"}
  BY <1>7, Zenon DEF BaseOK, BasePcs, Stages
<1> QED
  BY <1>3, <1>6, <1>7, <1>8, Zenon DEF c

LEMMA AllOKLive == Types /\ AllOK => TaskOnLiveChannel
<1> SUFFICES ASSUME Types, AllOK, NEW c \in Tasked, task[c].pc \notin {"off", "done"}
             PROVE  ch[c].st \in {"RUNNING", "STOPPED"}
  BY Zenon DEF TaskOnLiveChannel
<1>1. PICK s \in Stages : HandleOK(s, c[1])
  BY HandleOfChan, TargetFacts, Zenon
<1> QED
  BY <1>1, ActiveTask, Zenon DEF BaseOK

\* A set with at most one element.
LEMMA AtMostOne ==
    ASSUME NEW S, NEW x, S \subseteq {x}
    PROVE  Cardinality(S) = IF x \in S THEN 1 ELSE 0
<1> DEFINE Counts(f) == f = [T \in SUBSET S |-> IF T = {} THEN 0
                                                ELSE 1 + f[T \ {CHOOSE y : y \in T}]]
           g == [T \in SUBSET S |-> IF T = {} THEN 0 ELSE 1]
           cs == CHOOSE f : Counts(f)
<1>1. Cardinality(S) = cs[S]
  BY Zenon DEF Cardinality
<1>2. \A T \in SUBSET S : T # {} => T = {x} /\ S = {x} /\ T \ {CHOOSE y : y \in T} = {}
  BY Zenon
<1>3. Counts(g)
  <2> SUFFICES ASSUME NEW T \in SUBSET S
               PROVE  g[T] = IF T = {} THEN 0 ELSE 1 + g[T \ {CHOOSE y : y \in T}]
    OBVIOUS
  <2>1. {} \in SUBSET S /\ g[{}] = 0
    OBVIOUS
  <2> QED
    BY <1>2, <2>1
<1>4. Counts(cs)
  BY <1>3, Zenon
<1> HIDE DEF cs
<1>5. cs[{}] = 0
  BY <1>4, Zenon
<1>6. S # {} => cs[S] = 1
  BY <1>2, <1>4, <1>5
<1> QED
  BY <1>1, <1>5, <1>6, Zenon

\* A handle has channels of its own only, and a thread works for the channel
\* above its own.
LEMMA OwnOnly ==
    ASSUME Types, AllOK
    PROVE  /\ \A h \in Handles, c \in Chans : mc[h] = c => h = c[1]
           /\ \A d \in Tasked : task[d].for \in {None, Target(d)}
<1>1. ASSUME NEW h \in Handles, NEW c \in Chans, mc[h] = c
      PROVE  h = c[1]
  <2>1. PICK j \in 1..Len(Order) : Order[j] = h
    BY Places, Zenon
  <2>2. HandleOK(Stage(main.pc, main.k, j), h)
    BY <2>1, Zenon DEF AllOK
  <2>3. c # None
    BY ChanFacts, Zenon
  <2> QED
    BY <1>1, <2>2, <2>3, Zenon DEF HandleOK, HasNone, HasChannel
<1>2. ASSUME NEW d \in Tasked
      PROVE  task[d].for \in {None, Target(d)}
  <2>1. d \in Chans /\ d[2] # "UDP"
    BY TargetFacts, Zenon
  <2>2. PICK s \in Stages : HandleOK(s, d[1])
    BY <2>1, HandleOfChan, Zenon
  <2>3. CASE Unused(d)
    BY <2>3, Zenon DEF Unused
  <2>4. CASE ~Unused(d)
    <3>1. HasChannel(s, d[1], mc[d[1]])
      BY <2>1, <2>2, <2>4, Zenon DEF HandleOK, HasNone
    <3>2. mc[d[1]] \in Chans /\ (d = mc[d[1]] \/ d = BaseOf(mc[d[1]]))
      BY <2>1, <2>4, <3>1, Zenon DEF HasChannel
    <3>3. d = BaseOf(mc[d[1]])
      BY <2>1, <3>2, ChanFacts, Zenon
    <3> QED
      BY <3>1, <3>3, Zenon DEF HasChannel, BaseOK
  <2> QED
    BY <2>3, <2>4, Zenon
<1> QED
  BY <1>1, <1>2, Zenon

\* The number of references, term by term.
HeldBy(c) ==
    (IF ch[c].hashed THEN 1 ELSE 0)
    + (IF mc[c[1]] = c THEN 1 ELSE 0)
    + (IF c[2] = "BASE" /\ ch[<<c[1], "UDP">>].ref > 0 THEN 1 ELSE 0)
    + (IF c[2] = "UDP" /\ task[<<c[1], "BASE">>].for = c THEN 1 ELSE 0)

LEMMA HeldTerms ==
    ASSUME Types, AllOK, NEW c \in Chans
    PROVE  Held(c) = HeldBy(c)
<1> DEFINE H == {h \in Handles : mc[h] = c}
           W == {d \in Chans : d # c /\ BaseOf(d) = c /\ ch[d].ref > 0}
           F == {d \in Tasked : d # c /\ task[d].for = c}
<1>1. Cardinality(H) = IF mc[c[1]] = c THEN 1 ELSE 0
  <2>1. H \subseteq {c[1]}
    BY OwnOnly, Zenon
  <2>2. c[1] \in H <=> mc[c[1]] = c
    BY ChanFacts, Zenon
  <2> HIDE DEF H
  <2> QED
    BY <2>1, <2>2, AtMostOne, Zenon
<1>2. Cardinality(W) = IF c[2] = "BASE" /\ ch[<<c[1], "UDP">>].ref > 0 THEN 1 ELSE 0
  <2>1. \A d \in Chans : d # c /\ BaseOf(d) = c => c[2] = "BASE" /\ d = <<c[1], "UDP">>
    <3> SUFFICES ASSUME NEW d \in Chans, d # c, BaseOf(d) = c
                 PROVE  c[2] = "BASE" /\ d = <<c[1], "UDP">>
      OBVIOUS
    <3>1. d[2] = "UDP" /\ c = <<d[1], "BASE">> /\ d = <<d[1], d[2]>>
      BY ChanFacts, Zenon
    <3> QED
      BY <3>1
  <2>2. c[2] = "BASE" => <<c[1], "UDP">> \in Chans /\ <<c[1], "UDP">> # c /\ BaseOf(<<c[1], "UDP">>) = c
    BY ChanFacts, TargetFacts, Zenon
  <2>3. W \subseteq {<<c[1], "UDP">>}
    BY <2>1, Zenon
  <2>4. <<c[1], "UDP">> \in W <=> c[2] = "BASE" /\ ch[<<c[1], "UDP">>].ref > 0
    BY <2>1, <2>2, Zenon
  <2> HIDE DEF W
  <2> QED
    BY <2>3, <2>4, AtMostOne, Zenon
<1>3. Cardinality(F) = IF c[2] = "UDP" /\ task[<<c[1], "BASE">>].for = c THEN 1 ELSE 0
  <2>1. \A d \in Tasked : d # c /\ task[d].for = c => c[2] = "UDP" /\ d = <<c[1], "BASE">>
    <3> SUFFICES ASSUME NEW d \in Tasked, d # c, task[d].for = c
                 PROVE  c[2] = "UDP" /\ d = <<c[1], "BASE">>
      OBVIOUS
    <3>1. c = Target(d)
      BY OwnOnly, ChanFacts, Zenon
    <3>2. c = <<d[1], "UDP">> /\ d[2] = "BASE" /\ d = BaseOf(c)
      BY <3>1, TargetFacts, Zenon
    <3> QED
      BY <3>2, Zenon DEF BaseOf
  <2>2. c[2] = "UDP" => <<c[1], "BASE">> \in Tasked /\ <<c[1], "BASE">> # c
    BY ChanFacts, Zenon
  <2>3. F \subseteq {<<c[1], "BASE">>}
    BY <2>1, Zenon
  <2>4. <<c[1], "BASE">> \in F <=> c[2] = "UDP" /\ task[<<c[1], "BASE">>].for = c
    BY <2>1, <2>2, Zenon
  <2> HIDE DEF F
  <2> QED
    BY <2>3, <2>4, AtMostOne, Zenon
<1> QED
  BY <1>1, <1>2, <1>3, Zenon DEF Held, HeldBy

LEMMA AllOKRefs == Types /\ AllOK => RefsExact
<1> SUFFICES ASSUME Types, AllOK, NEW c \in Chans
             PROVE  ch[c].ref = HeldBy(c)
  BY HeldTerms, Zenon DEF RefsExact
<1>1. PICK s \in Stages : HandleOK(s, c[1])
  BY HandleOfChan, Zenon
<1> DEFINE m == mc[c[1]]
           w == <<c[1], "UDP">>
           b == <<c[1], "BASE">>
<1>2. c = <<c[1], c[2]>> /\ c # None
  BY ChanFacts, Zenon
<1>3. c[2] = "BASE" => w \in Chans /\ w[1] = c[1] /\ w # c
  BY TargetFacts, ChanFacts
<1>4. c[2] = "UDP" => b \in Chans /\ b \in Tasked /\ b[1] = c[1] /\ b # c /\ BaseOf(c) = b
  BY ChanFacts, Zenon
<1>5. CASE s = "none"
  <2>1. m = None /\ Unused(c)
    BY <1>1, <1>5, Zenon DEF HandleOK, HasNone
  <2>2. c[2] = "BASE" => ch[w].ref = 0
    BY <1>1, <1>3, <1>5, Zenon DEF HandleOK, HasNone, Unused
  <2>3. c[2] = "UDP" => task[b].for = None
    BY <1>1, <1>4, <1>5, Zenon DEF HandleOK, HasNone, Unused
  <2>4. ch[c].ref = 0 /\ ~ch[c].hashed
    BY <2>1, Zenon DEF Unused
  <2> QED
    BY <1>2, <2>1, <2>2, <2>3, <2>4 DEF HeldBy
<1>6. CASE s # "none"
  <2>1. HasChannel(s, c[1], m)
    BY <1>1, <1>6, Zenon DEF HandleOK
  <2>2. m \in Chans /\ m[1] = c[1] /\ m[2] # "BASE" /\ m = <<m[1], m[2]>>
    BY <2>1, ChanFacts, Zenon DEF HasChannel
  <2>3. m[2] = "UDP" => BaseOf(m) = b /\ m = w
    BY <2>2, ChanFacts
  <2>4. m[2] # "UDP" => BaseOf(m) = m /\ c[1] \notin Remote
    BY <2>2, ChanFacts, Zenon
  <2>5. BaseOK(s, BaseOf(m), BaseOf(m) = m) /\ (m[2] = "UDP" => WrapperOK(s, m, BaseOf(m)))
    BY <2>1, Zenon DEF HasChannel
  <2> HIDE DEF m, w, b
  <2>6. CASE c = m /\ c[2] # "UDP"
    <3>1. ch[c].ref = IF ch[c].hashed THEN 2 ELSE 1
      BY <2>4, <2>5, <2>6, Zenon DEF BaseOK
    <3>2. c[2] # "BASE" /\ mc[c[1]] = c
      BY <2>2, <2>6, Zenon DEF m
    <3> QED
      BY <2>6, <3>1, <3>2 DEF HeldBy
  <2>7. CASE c = m /\ c[2] = "UDP"
    <3>1. ch[c].ref = (IF ch[c].hashed THEN 2 ELSE 1) + (IF task[b].for = c THEN 1 ELSE 0)
      BY <2>3, <2>5, <2>7, Zenon DEF WrapperOK
    <3>2. mc[c[1]] = c
      BY <2>7, Zenon DEF m
    <3> QED
      BY <2>7, <3>1, <3>2 DEF HeldBy, b
  <2>8. CASE c # m /\ m[2] = "UDP"
    <3>1. c = b /\ c[2] = "BASE" /\ mc[c[1]] # c
      BY <2>2, <2>3, <2>8, <1>2, ChanFacts, Zenon DEF m, b
    <3>2. ch[c].ref = IF ch[c].hashed THEN 2 ELSE 1
      BY <2>3, <2>5, <2>8, <3>1, Zenon DEF BaseOK
    <3>3. ch[w].ref > 0
      BY <2>3, <2>5, <2>8 DEF WrapperOK
    <3> QED
      BY <3>1, <3>2, <3>3 DEF HeldBy, w
  <2>9. CASE c # m /\ m[2] # "UDP"
    <3>1. Unused(c)
      BY <2>1, <2>4, <2>9, Zenon DEF HasChannel
    <3>2. c[2] \in {"NETLINK", "UNIX"} /\ mc[c[1]] # c
      BY <2>4, <2>9, ChanFacts, Zenon DEF m
    <3> QED
      BY <3>1, <3>2 DEF HeldBy, Unused
  <2> QED
    BY <2>6, <2>7, <2>8, <2>9, Zenon
<1> QED
  BY <1>5, <1>6, Zenon

-----------------------------------------------------------------------------
\* Steps that leave a handle alone.

\* What the invariant speaks of, in the channels and the thread of handle h.
Alike(x, y) == y.st = x.st /\ y.ref = x.ref /\ y.hashed = x.hashed /\ y.join = x.join

SameCore(c) == Alike(ch[c], ch'[c])

SameTask(c) == c \in Tasked => task'[c].pc = task[c].pc /\ task'[c].for = task[c].for

SameAt(h) ==
    /\ mc'[h] = mc[h]
    /\ \A c \in Chans : c[1] = h => SameCore(c) /\ SameTask(c)

LEMMA UnusedSame ==
    ASSUME NEW c, SameCore(c), SameTask(c), Unused(c)
    PROVE  Unused(c)'
  BY Zenon DEF SameCore, Alike, SameTask, Unused

LEMMA HandleSame ==
    ASSUME NEW stage, NEW h, SameAt(h), HandleOK(stage, h)
    PROVE  HandleOK(stage, h)'
<1>1. \A c \in Chans : c[1] = h /\ Unused(c) => Unused(c)'
  BY UnusedSame, Zenon DEF SameAt
<1>2. CASE stage = "none"
  BY <1>1, <1>2, Zenon DEF HandleOK, HasNone, SameAt
<1>3. CASE stage # "none"
  <2>0. PICK c : c = mc[h]
    OBVIOUS
  <2> DEFINE b == BaseOf(c)
  <2>1. HasChannel(stage, h, c)
    BY <1>3, <2>0, Zenon DEF HandleOK
  <2>2. c \in Chans /\ c[1] = h
    BY <2>1, Zenon DEF HasChannel
  <2>3. b \in Chans /\ b[1] = h /\ b \in Tasked
    BY <2>2, ChanFacts, Zenon
  <2>4. SameCore(c) /\ SameCore(b) /\ SameTask(b) /\ mc'[h] = c
    BY <2>0, <2>2, <2>3, Zenon DEF SameAt
  <2>5. BaseOK(stage, b, b = c)'
    BY <2>1, <2>3, <2>4, Zenon DEF HasChannel, BaseOK, SameCore, Alike, SameTask
  <2>6. c[2] = "UDP" => WrapperOK(stage, c, b)'
    BY <2>1, <2>3, <2>4, Zenon DEF HasChannel, WrapperOK, SameCore, Alike, SameTask
  <2> HIDE DEF b
  <2>7. HasChannel(stage, h, c)'
    BY <1>1, <2>1, <2>5, <2>6, Zenon DEF HasChannel, b
  <2> QED
    BY <1>3, <2>4, <2>7, Zenon DEF HandleOK
<1> QED
  BY <1>2, <1>3, Zenon

-----------------------------------------------------------------------------
\* The steps of a thread.

\* The thread of c goes on, with the reference to the channel of the message in
\* hand taken or dropped as it gets or loses one.
TaskMoved(c) ==
    /\ task'[c].pc \in TaskPcs \ {"off"}
    /\ task'[c].for = IF task'[c].pc \in InHand THEN Target(c) ELSE None
    /\ \A d \in Tasked : d # c => SameTask(d)

ChansFollow(c) ==
    /\ \A d \in Chans : ch'[d].hashed = ch[d].hashed /\ ch'[d].join = ch[d].join
    /\ \A d \in Chans : d # c => ch'[d].st = ch[d].st
    /\ ch'[c].st \in {"RUNNING", "STOPPED"}
    /\ \A d \in Chans : d # Target(c) \/ d = c => ch'[d].ref = ch[d].ref
    /\ c[2] = "BASE" =>
          ch'[Target(c)].ref = ch[Target(c)].ref - (IF task[c].for = Target(c) THEN 1 ELSE 0)
                                                 + (IF task'[c].for = Target(c) THEN 1 ELSE 0)

LEMMA TaskMoves ==
    ASSUME Types, AllOK, UNCHANGED <<main, mc>>,
           NEW c \in Tasked, task[c].pc \notin {"off", "done"}, TaskMoved(c), ChansFollow(c)
    PROVE  AllOK'
<1> SUFFICES ASSUME NEW j \in 1..Len(Order)
             PROVE  HandleOK(Stage(main.pc, main.k, j), Order[j])'
  BY Zenon DEF AllOK
<1>1. PICK s \in Stages : s = Stage(main.pc, main.k, j)
  BY StageType, Places DEF Types
<1>2. HandleOK(s, Order[j])
  BY <1>1, Zenon DEF AllOK
<1>3. SUFFICES HandleOK(s, Order[j])'
  BY <1>1, Zenon
<1>4. c \in Chans /\ Target(c) \in Chans /\ Target(c)[1] = c[1] /\ BaseOf(Target(c)) = c
  BY TargetFacts, Zenon
<1>5. CASE Order[j] # c[1]
  <2>1. ASSUME NEW d \in Chans, d[1] = Order[j]
        PROVE  SameCore(d) /\ SameTask(d)
    BY <1>4, <1>5, <2>1, Zenon DEF TaskMoved, ChansFollow, SameCore, Alike, SameTask
  <2>2. SameAt(Order[j])
    BY <2>1, Zenon DEF SameAt
  <2> QED
    BY <1>2, <2>2, HandleSame, Zenon
<1>6. CASE Order[j] = c[1]
  <2>1. PICK w : w = Target(c)
    OBVIOUS
  <2>2. s \in {"started", "based", "up"} /\ mc[c[1]] = w /\ HasChannel(s, c[1], w)
        /\ BaseOK(s, c, c = w)
    BY <1>2, <1>6, <2>1, ActiveTask, Zenon
  <2>3. \A d \in Chans : d[1] = c[1] /\ d # w /\ d # c => Unused(d)'
    <3> SUFFICES ASSUME NEW d \in Chans, d[1] = c[1], d # w, d # c
                 PROVE  Unused(d)'
      OBVIOUS
    <3>1. Unused(d)
      BY <1>4, <2>1, <2>2, Zenon DEF HasChannel
    <3>2. SameCore(d) /\ SameTask(d)
      BY <2>1, Zenon DEF TaskMoved, ChansFollow, SameCore, Alike, SameTask
    <3> QED
      BY <3>1, <3>2, UnusedSame, Zenon
  <2>4. BaseOK(s, c, c = w)'
    BY <1>4, <2>1, <2>2, Zenon DEF BaseOK, BasePcs, TaskMoved, ChansFollow
  <2>5. w[2] = "UDP" => c[2] = "BASE"
    BY <2>1, TargetFacts, Zenon
  <2>6. w[2] = "UDP" => WrapperOK(s, w, c)'
    <3> SUFFICES ASSUME w[2] = "UDP"
                 PROVE  WrapperOK(s, w, c)'
      OBVIOUS
    <3>1. w \in Chans /\ w # c /\ WrapperOK(s, w, c)
      BY <1>4, <2>1, <2>2, <2>5, TargetFacts, Zenon DEF HasChannel
    <3> QED
      BY <2>1, <2>5, <3>1 DEF WrapperOK, ChansFollow
  <2>7. HasChannel(s, c[1], w)'
    BY <1>4, <2>1, <2>2, <2>3, <2>4, <2>6, Zenon DEF HasChannel
  <2> QED
    BY <1>6, <2>2, <2>7, Zenon DEF HandleOK
<1> QED
  BY <1>5, <1>6, Zenon

StageOf(j) == Stage(main.pc, main.k, j)

\* main goes on without touching what the invariant speaks of.
LEMMA QuietMain ==
    ASSUME AllOK, UNCHANGED <<task, mc>>, \A d \in Chans : SameCore(d),
           \A j \in 1..Len(Order) : StageOf(j)' = StageOf(j)
    PROVE  AllOK'
<1> SUFFICES ASSUME NEW j \in 1..Len(Order)
             PROVE  HandleOK(StageOf(j), Order[j])'
  BY Zenon DEF AllOK, StageOf
<1>1. PICK s : s = StageOf(j)
  OBVIOUS
<1>2. HandleOK(s, Order[j])
  BY <1>1, Zenon DEF AllOK, StageOf
<1>3. SameAt(Order[j])
  BY Zenon DEF SameAt, SameTask
<1>4. HandleOK(s, Order[j])'
  BY <1>2, <1>3, HandleSame, Zenon
<1>5. StageOf(j)' = s
  BY <1>1, Zenon
<1> QED
  BY <1>4, <1>5, Zenon

\* Nothing that the invariant speaks of changes.
LEMMA SameState ==
    ASSUME AllOK, UNCHANGED <<ch, task, main, mc>>
    PROVE  AllOK'
<1>1. \A d \in Chans : SameCore(d)
  BY Zenon DEF SameCore, Alike
<1>2. \A j \in 1..Len(Order) : StageOf(j)' = StageOf(j)
  BY Zenon DEF StageOf
<1> QED
  BY <1>1, <1>2, QuietMain, Zenon

\* A step of the thread that takes and drops no reference.
LEMMA TaskMovesOn ==
    ASSUME Types, AllOK, UNCHANGED <<main, mc>>,
           NEW c \in Tasked, task[c].pc \notin {"off", "done"}, TaskMoved(c),
           task'[c].pc \in InHand <=> task[c].pc \in InHand,
           \A d \in Chans : SameCore(d)
    PROVE  AllOK'
<1>1. PICK s \in Stages : HandleOK(s, c[1])
  BY HandleOfChan, TargetFacts, Zenon
<1>2. BaseOK(s, c, c = Target(c)) /\ s \in {"started", "based", "up"}
  BY <1>1, ActiveTask, Zenon
<1>3. ch[c].st \in {"RUNNING", "STOPPED"} /\ task'[c].for = task[c].for
  BY <1>2, Zenon DEF BaseOK, TaskMoved
<1>4. c \in Chans /\ Target(c) \in Chans
  BY TargetFacts, Zenon
<1>5. ch[Target(c)].ref \in Int
  BY <1>4 DEF Types, ChanTypes
<1>6. ChansFollow(c)
  BY <1>3, <1>4, <1>5 DEF ChansFollow, SameCore, Alike
<1> QED
  BY <1>6, TaskMoves, Zenon

\* Fields that the invariant does not speak of.
LEMMA OtherFields ==
    ASSUME NEW x \in ChanTypes, NEW v \in BOOLEAN, NEW l \in Chans \cup {None, Main}
    PROVE  /\ [x EXCEPT !.running = v] \in ChanTypes /\ Alike(x, [x EXCEPT !.running = v])
           /\ [x EXCEPT !.lock = l] \in ChanTypes /\ Alike(x, [x EXCEPT !.lock = l])
           /\ [x EXCEPT !.cb = v] \in ChanTypes /\ Alike(x, [x EXCEPT !.cb = v])
           /\ [x EXCEPT !.lock = l, !.peer = v] \in ChanTypes
           /\ Alike(x, [x EXCEPT !.lock = l, !.peer = v])
           /\ [x EXCEPT !.running = v, !.sig = TRUE] \in ChanTypes
           /\ Alike(x, [x EXCEPT !.running = v, !.sig = TRUE])
  BY Zenon DEF ChanTypes, Alike

\* Memories whose channels are alike.
AlikeMem(s, t) == t \in Mems /\ \A d \in Chans : Alike(s.ch[d], t.ch[d])

LEMMA AlikeSelf ==
    ASSUME NEW s \in Mems
    PROVE  AlikeMem(s, s)
  BY Zenon DEF AlikeMem, Alike

LEMMA AlikeWith ==
    ASSUME NEW s \in Mems, NEW c \in Chans, NEW x \in ChanTypes, Alike(s.ch[c], x)
    PROVE  AlikeMem(s, With(s, c, x))
  BY WithType DEF AlikeMem, Alike

\* A send, from either side of the socket call.
LEMMA SendBeginAlike ==
    ASSUME NEW s \in Mems, NEW c \in Chans, NEW who \in Chans \cup {Main}
    PROVE  AlikeMem(s, SendBegin(s, c, who))
<1> DEFINE t == Touch(Touch(s, c), BaseOf(c))
           b == LockOf(c)
<1>1. Touch(s, c) \in Mems /\ Touch(s, c).ch = s.ch
  BY TouchFacts, Zenon
<1>2. t \in Mems /\ t.ch = s.ch
  BY <1>1, TouchFacts, Zenon
<1>3. b = None \/ b \in Chans
  BY ChanFacts, Zenon DEF LockOf
<1> HIDE DEF t
<1>4. CASE t.crashed \/ b = None
  <2>1. SendBegin(s, c, who) = t
    BY <1>4, Zenon DEF SendBegin, t
  <2> QED
    BY <1>2, <2>1, Zenon DEF AlikeMem, Alike
<1>5. CASE ~(t.crashed \/ b = None)
  <2>1. SendBegin(s, c, who) = [t EXCEPT !.ch[b].lock = who, !.ch[b].peer = TRUE]
    BY <1>5, Zenon DEF SendBegin, t
  <2>2. SendBegin(s, c, who) = With(t, b, [t.ch[b] EXCEPT !.lock = who, !.peer = TRUE])
    BY <1>2, <1>3, <1>5, <2>1, ZenonT(60) DEF With, Mems, ChanTypes
  <2>3. t.ch[b] \in ChanTypes
    BY <1>2, <1>3, <1>5, Zenon DEF Mems
  <2> HIDE DEF b
  <2>4. AlikeMem(t, SendBegin(s, c, who))
    BY <1>2, <1>3, <1>5, <2>2, <2>3, OtherFields, AlikeWith, ZenonT(40)
  <2> QED
    BY <1>2, <2>4, Zenon DEF AlikeMem
<1> QED
  BY <1>4, <1>5, Zenon

LEMMA SendEndAlike ==
    ASSUME NEW s \in Mems, NEW b \in Chans \cup {None}
    PROVE  AlikeMem(s, SendEnd(s, b))
<1>1. CASE b = None
  BY <1>1, AlikeSelf, Zenon DEF SendEnd
<1>2. CASE b # None
  <2> DEFINE t == Touch(s, b)
  <2>1. t \in Mems /\ t.ch = s.ch /\ b \in Chans
    BY <1>2, TouchFacts, Zenon
  <2> HIDE DEF t
  <2>2. CASE t.crashed
    <3>1. SendEnd(s, b) = t
      BY <1>2, <2>2, Zenon DEF SendEnd, t
    <3> QED
      BY <2>1, <3>1, Zenon DEF AlikeMem, Alike
  <2>3. CASE ~t.crashed
    <3> DEFINE p == b[2] # "BASE"
    <3>1. SendEnd(s, b) = [t EXCEPT !.ch[b].lock = None, !.ch[b].peer = p]
      BY <1>2, <2>3, Zenon DEF SendEnd, t
    <3>2. p \in BOOLEAN
      OBVIOUS
    <3> HIDE DEF p
    <3>3. SendEnd(s, b) = With(t, b, [t.ch[b] EXCEPT !.lock = None, !.peer = p])
      BY <2>1, <3>1, ZenonT(60) DEF With, Mems, ChanTypes
    <3>4. t.ch[b] \in ChanTypes
      BY <2>1, Zenon DEF Mems
    <3>5. AlikeMem(t, SendEnd(s, b))
      BY <2>1, <3>2, <3>3, <3>4, OtherFields, AlikeWith, ZenonT(40)
    <3> QED
      BY <2>1, <3>5, Zenon DEF AlikeMem
  <2> QED
    BY <2>2, <2>3, Zenon
<1> QED
  BY <1>1, <1>2, Zenon

\* The memory of a state, and a state whose memory is alike.
LEMMA MemType ==
    ASSUME Types
    PROVE  Mem \in Mems /\ Mem.ch = ch /\ Mem.crashed = crashed
  BY Zenon DEF Types, Mem, Mems

LEMMA AlikeState ==
    ASSUME Types, NEW t, AlikeMem(Mem, t), SetMem(t)
    PROVE  /\ ch' \in [Chans -> ChanTypes] /\ crashed' \in BOOLEAN
           /\ \A d \in Chans : SameCore(d)
  BY MemType, Zenon DEF AlikeMem, SetMem, Mems, SameCore

\* What a step of the thread of c says of the types.
LEMMA TaskTypesKept ==
    ASSUME Types, UNCHANGED <<main, mc>>, NEW c \in Tasked, NEW x \in TaskTypes,
           x.pc = "lock" => x.on \in Handles,
           task' = [task EXCEPT ![c] = x],
           ch' \in [Chans -> ChanTypes], crashed' \in BOOLEAN
    PROVE  /\ Types' /\ task'[c] = x
           /\ \A d \in Tasked : d # c => SameTask(d)
  BY Zenon DEF Types, SameTask

\* The thread goes from one place to another, without a message in hand or with
\* the same one.
LEMMA GotoKeeps ==
    ASSUME Types, AllOK, UNCHANGED <<main, mc>>, NEW c \in Tasked, NEW x \in TaskTypes,
           task' = [task EXCEPT ![c] = x],
           task[c].pc \notin {"off", "done"}, x.pc # "off",
           x.pc = "lock" => x.on \in Handles,
           x.for = task[c].for, x.pc \in InHand <=> task[c].pc \in InHand,
           ch' \in [Chans -> ChanTypes], crashed' \in BOOLEAN,
           \A d \in Chans : SameCore(d)
    PROVE  Types' /\ AllOK'
<1>1. Types' /\ task'[c] = x /\ \A d \in Tasked : d # c => SameTask(d)
  BY TaskTypesKept, Zenon
<1>2. PICK s \in Stages : HandleOK(s, c[1])
  BY HandleOfChan, TargetFacts, Zenon
<1>3. BaseOK(s, c, c = Target(c))
  BY <1>2, ActiveTask, Zenon
<1>4. x.pc \in TaskPcs
  BY Zenon DEF TaskTypes
<1>5. TaskMoved(c)
  BY <1>1, <1>3, <1>4, Zenon DEF TaskMoved, BaseOK
<1>6. AllOK'
  BY <1>1, <1>5, TaskMovesOn, Zenon
<1> QED
  BY <1>1, <1>6, Zenon

LEMMA GotoPc ==
    ASSUME Types, AllOK, UNCHANGED <<main, mc>>, NEW c \in Tasked,
           NEW p \in TaskPcs \ {"off", "lock"}, Goto(c, p),
           task[c].pc \notin {"off", "done"}, p \in InHand <=> task[c].pc \in InHand,
           ch' \in [Chans -> ChanTypes], crashed' \in BOOLEAN,
           \A d \in Chans : SameCore(d)
    PROVE  Types' /\ AllOK'
<1> DEFINE x == [task[c] EXCEPT !.pc = p]
<1>1. task[c] \in TaskTypes
  BY Zenon DEF Types
<1>2. x \in TaskTypes /\ x.pc = p /\ x.for = task[c].for
  BY <1>1, Zenon DEF TaskTypes
<1>3. task' = [task EXCEPT ![c] = x]
  BY Zenon DEF Goto
<1> HIDE DEF x
<1> QED
  BY <1>2, <1>3, GotoKeeps, Zenon

\* The steps of the thread that neither send nor take or drop a reference.
LEMMA QuietTaskKeeps ==
    ASSUME Types, AllOK, ~crashed, NEW c \in Tasked,
           \/ TaskStart(c) \/ TaskLoop(c) \/ TaskRecv(c) \/ TaskPoll(c)
           \/ TaskInterrupted(c) \/ TaskCall(c) \/ TaskEnd(c)
    PROVE  Types' /\ AllOK'
<1>1. c \in Chans /\ ch[c] \in ChanTypes /\ task[c] \in TaskTypes /\ crashed \in BOOLEAN
      /\ ch \in [Chans -> ChanTypes]
  BY TargetFacts, Zenon DEF Types
<1>2. ch' = ch => ch' \in [Chans -> ChanTypes] /\ \A d \in Chans : SameCore(d)
  BY <1>1, Zenon DEF SameCore, Alike
<1>3. ch' = [ch EXCEPT ![c].running = FALSE]
      => ch' \in [Chans -> ChanTypes] /\ \A d \in Chans : SameCore(d)
  <2> DEFINE y == [ch[c] EXCEPT !.running = FALSE]
  <2>1. y \in ChanTypes /\ Alike(ch[c], y)
    BY <1>1, OtherFields, Zenon
  <2> HIDE DEF y
  <2>2. ch' = [ch EXCEPT ![c] = y]
        => ch' \in [Chans -> ChanTypes] /\ \A d \in Chans : SameCore(d)
    BY <1>1, <2>1, Zenon DEF SameCore, Alike
  <2> QED
    BY <2>2, Zenon DEF y
<1>4. CASE TaskStart(c)
  BY <1>1, <1>2, <1>4, GotoPc, Zenon DEF TaskStart, InHand, TaskPcs
<1>5. CASE TaskLoop(c)
  <2> DEFINE p == IF ch[c].running THEN "recv" ELSE "stop"
             r == HasRoom(c)
             x == [task[c] EXCEPT !.pc = p, !.room = r]
  <2>1. p \in {"recv", "stop"}
    OBVIOUS
  <2>2. r \in BOOLEAN
    BY Zenon DEF HasRoom
  <2> HIDE DEF p, r
  <2>3. p \in TaskPcs
    BY <2>1, Zenon DEF TaskPcs
  <2>4. x \in TaskTypes /\ x.pc = p /\ x.for = task[c].for
    BY <1>1, <2>2, <2>3, Zenon DEF TaskTypes
  <2>5. task' = [task EXCEPT ![c] = x]
    BY <1>5, Zenon DEF TaskLoop, p, r
  <2> HIDE DEF x
  <2>6. task[c].pc = "loop" /\ UNCHANGED <<ch, main, mc, crashed>>
    BY <1>5, Zenon DEF TaskLoop
  <2>7. x.pc \notin InHand /\ task[c].pc \notin InHand /\ x.pc \notin {"off", "lock"}
        /\ task[c].pc \notin {"off", "done"}
    BY <2>1, <2>4, <2>6, Zenon DEF InHand
  <2> QED
    BY <1>1, <1>2, <2>4, <2>5, <2>6, <2>7, GotoKeeps, Zenon
<1>6. CASE TaskRecv(c)
  <2>1. task[c].pc = "recv" /\ UNCHANGED <<main, mc, crashed>>
    BY <1>6, Zenon DEF TaskRecv
  <2>2. \E p \in {"poll", "dispatch", "loop"} : Goto(c, p)
    BY <1>6, Zenon DEF TaskRecv
  <2>3. ch' = ch \/ ch' = [ch EXCEPT ![c].running = FALSE]
    BY <1>6, Zenon DEF TaskRecv
  <2> QED
    BY <1>1, <1>2, <1>3, <2>1, <2>2, <2>3, GotoPc, Zenon DEF InHand, TaskPcs
<1>7. CASE TaskPoll(c) \/ TaskInterrupted(c)
  <2>1. task[c].pc = "poll" /\ UNCHANGED <<main, mc, crashed>> /\ Goto(c, "loop")
    BY <1>7, Zenon DEF TaskPoll, TaskInterrupted
  <2>2. ch' = ch \/ ch' = [ch EXCEPT ![c].running = FALSE]
    BY <1>7, Zenon DEF TaskPoll, TaskInterrupted
  <2> QED
    BY <1>1, <1>2, <1>3, <2>1, <2>2, GotoPc, Zenon DEF InHand, TaskPcs
<1>8. CASE TaskCall(c)
  <2>1. task[c].pc = "call" /\ UNCHANGED <<ch, main, mc, crashed>>
    BY <1>8, Zenon DEF TaskCall
  <2>2. CASE Goto(c, "put")
    BY <1>1, <1>2, <2>1, <2>2, GotoPc, Zenon DEF InHand, TaskPcs
  <2>3. CASE ~Goto(c, "put")
    <3>1. PICK h \in Uses[c[1]] : task' = [task EXCEPT ![c].pc = "lock", ![c].on = h]
      BY <1>8, <2>3, Zenon DEF TaskCall
    <3>2. h \in Handles
      BY <1>1, MsgChannelAssumption, ChanFacts, Zenon
    <3> DEFINE x == [task[c] EXCEPT !.pc = "lock", !.on = h]
    <3>3. "lock" \in TaskPcs
      BY Zenon DEF TaskPcs
    <3>4. x \in TaskTypes /\ x.pc = "lock" /\ x.for = task[c].for /\ x.on = h
      BY <1>1, <3>2, <3>3, Zenon DEF TaskTypes
    <3>5. task' = [task EXCEPT ![c] = x]
      BY <3>1, Zenon
    <3> HIDE DEF x
    <3>6. x.pc \in InHand /\ task[c].pc \in InHand /\ x.pc # "off"
          /\ task[c].pc \notin {"off", "done"}
      BY <2>1, <3>4, Zenon DEF InHand
    <3> QED
      BY <1>1, <1>2, <2>1, <3>2, <3>4, <3>5, <3>6, GotoKeeps, Zenon
  <2> QED
    BY <2>2, <2>3, Zenon
<1>9. CASE TaskEnd(c)
  BY <1>1, <1>2, <1>9, GotoPc, Zenon DEF TaskEnd, InHand, TaskPcs
<1> QED
  BY <1>4, <1>5, <1>6, <1>7, <1>8, <1>9, Zenon

\* The callback's send, from both sides of the socket call.
LEMMA SendingTaskKeeps ==
    ASSUME Types, AllOK, ~crashed, NEW c \in Tasked, TaskSend(c) \/ TaskSent(c)
    PROVE  Types' /\ AllOK'
<1>1. c \in Chans /\ ch[c] \in ChanTypes /\ task[c] \in TaskTypes /\ crashed \in BOOLEAN
      /\ ch \in [Chans -> ChanTypes] /\ Mem \in Mems
  BY TargetFacts, MemType, Zenon DEF Types
<1>2. CASE TaskSend(c) /\ mc[task[c].on] = None
  <2>1. UNCHANGED <<ch, task, main, mc>> /\ crashed' = TRUE
    BY <1>2, Zenon DEF TaskSend
  <2>2. Types'
    BY <2>1, Zenon DEF Types
  <2>3. AllOK'
    BY <2>1, SameState, Zenon
  <2> QED
    BY <2>2, <2>3, Zenon
<1>3. CASE TaskSend(c) /\ mc[task[c].on] # None
  <2> DEFINE g == mc[task[c].on]
             l == LockOf(g)
             x == [task[c] EXCEPT !.pc = "sent", !.holds = l]
  <2>1. task[c].pc = "lock" /\ UNCHANGED <<main, mc>> /\ SetMem(SendBegin(Mem, g, c))
        /\ task' = [task EXCEPT ![c] = x]
    BY <1>3, Zenon DEF TaskSend
  <2>2. g \in Chans
    BY <1>3, <2>1, Zenon DEF Types
  <2>3. l \in Chans \cup {None}
    BY <2>2, ChanFacts, Zenon DEF LockOf
  <2> HIDE DEF g, l
  <2>4. AlikeMem(Mem, SendBegin(Mem, g, c))
    BY <1>1, <2>2, SendBeginAlike, Zenon
  <2>5. ch' \in [Chans -> ChanTypes] /\ crashed' \in BOOLEAN /\ \A d \in Chans : SameCore(d)
    BY <2>1, <2>4, AlikeState, Zenon
  <2>6. "sent" \in TaskPcs
    BY Zenon DEF TaskPcs
  <2>7. x \in TaskTypes /\ x.pc = "sent" /\ x.for = task[c].for
    BY <1>1, <2>3, <2>6, Zenon DEF TaskTypes
  <2> HIDE DEF x
  <2>8. x.pc \in InHand /\ task[c].pc \in InHand /\ x.pc \notin {"off", "lock"}
        /\ task[c].pc \notin {"off", "done"}
    BY <2>1, <2>7, Zenon DEF InHand
  <2> QED
    BY <2>1, <2>5, <2>7, <2>8, GotoKeeps, Zenon
<1>4. CASE TaskSent(c)
  <2> DEFINE x == [task[c] EXCEPT !.pc = "put", !.holds = None, !.on = "none"]
  <2>1. task[c].pc = "sent" /\ UNCHANGED <<main, mc>> /\ SetMem(SendEnd(Mem, task[c].holds))
        /\ task' = [task EXCEPT ![c] = x]
    BY <1>4, Zenon DEF TaskSent
  <2>2. task[c].holds \in Chans \cup {None}
    BY <1>1, Zenon DEF TaskTypes
  <2>3. AlikeMem(Mem, SendEnd(Mem, task[c].holds))
    BY <1>1, <2>2, SendEndAlike, Zenon
  <2>4. ch' \in [Chans -> ChanTypes] /\ crashed' \in BOOLEAN /\ \A d \in Chans : SameCore(d)
    BY <2>1, <2>3, AlikeState, Zenon
  <2>5. "put" \in TaskPcs
    BY Zenon DEF TaskPcs
  <2>6. x \in TaskTypes /\ x.pc = "put" /\ x.for = task[c].for
    BY <1>1, <2>5, Zenon DEF TaskTypes
  <2> HIDE DEF x
  <2>7. x.pc \in InHand /\ task[c].pc \in InHand /\ x.pc \notin {"off", "lock"}
        /\ task[c].pc \notin {"off", "done"}
    BY <2>1, <2>6, Zenon DEF InHand
  <2> QED
    BY <2>1, <2>4, <2>6, <2>7, GotoKeeps, Zenon
<1> QED
  BY <1>2, <1>3, <1>4, Zenon

\* The channels after a reference to the wrapper of c is taken or dropped.
LEMMA RefMoves ==
    ASSUME Types, NEW c \in Tasked, c[2] = "BASE", NEW n \in Nat,
           ch[c].st \in {"RUNNING", "STOPPED"},
           ch' = [ch EXCEPT ![Target(c)] = [ch[Target(c)] EXCEPT !.ref = n]],
           n = ch[Target(c)].ref - (IF task[c].for = Target(c) THEN 1 ELSE 0)
                                 + (IF task'[c].for = Target(c) THEN 1 ELSE 0)
    PROVE  ch' \in [Chans -> ChanTypes] /\ ChansFollow(c)
<1> DEFINE w == Target(c)
           y == [ch[w] EXCEPT !.ref = n]
<1>1. c \in Chans /\ w \in Chans /\ w # c /\ ch \in [Chans -> ChanTypes] /\ ch[w] \in ChanTypes
  BY TargetFacts, Zenon DEF Types
<1>2. y \in ChanTypes /\ y.ref = n /\ y.hashed = ch[w].hashed /\ y.join = ch[w].join
      /\ y.st = ch[w].st
  BY <1>1, Zenon DEF ChanTypes
<1>3. ch' = [ch EXCEPT ![w] = y]
  OBVIOUS
<1> HIDE DEF w, y
<1>4. ch' \in [Chans -> ChanTypes] /\ ch'[w] = y /\ \A d \in Chans : d # w => ch'[d] = ch[d]
  BY <1>1, <1>2, <1>3, Zenon
<1>5. \A d \in Chans : ch'[d].hashed = ch[d].hashed /\ ch'[d].join = ch[d].join
                       /\ ch'[d].st = ch[d].st
  BY <1>2, <1>4, Zenon
<1> QED
  BY <1>1, <1>2, <1>4, <1>5, Zenon DEF ChansFollow, w

\* The thread changes its channel or the message in hand.
LEMMA TurningTaskKeeps ==
    ASSUME Types, AllOK, ~crashed, NEW c \in Tasked,
           TaskDispatch(c) \/ TaskPut(c) \/ TaskStop(c)
    PROVE  Types' /\ AllOK'
<1>1. c \in Chans /\ ch[c] \in ChanTypes /\ task[c] \in TaskTypes /\ crashed \in BOOLEAN
      /\ ch \in [Chans -> ChanTypes] /\ Mem \in Mems /\ Mem.ch = ch /\ Mem.crashed = crashed
  BY TargetFacts, MemType, Zenon DEF Types
<1>2. task[c].pc \in {"dispatch", "put", "stop"} /\ UNCHANGED <<main, mc>>
  BY Zenon DEF TaskDispatch, TaskPut, TaskStop
<1>3. PICK w : w = Target(c)
  OBVIOUS
<1>4. w \in Chans /\ w # None /\ (c[2] = "BASE" => w # c /\ w[2] = "UDP")
      /\ (c[2] # "BASE" => w = c) /\ BaseOf(w) = c
  BY <1>3, TargetFacts
<1>5. PICK s \in Stages : HandleOK(s, c[1])
  BY <1>1, HandleOfChan, Zenon
<1>6. /\ BaseOK(s, c, c = w) /\ HasChannel(s, c[1], w) /\ s \in {"started", "based", "up"}
  BY <1>2, <1>3, <1>5, ActiveTask, Zenon
<1>7. ch[c].st \in {"RUNNING", "STOPPED"} /\ ch[w].ref \in Nat /\ ch[w] \in ChanTypes
  BY <1>1, <1>4, <1>6, Zenon DEF BaseOK, ChanTypes
<1>8. c[2] = "BASE" => WrapperOK(s, w, c)
  BY <1>4, <1>6, Zenon DEF HasChannel
<1>10. CASE TaskDispatch(c) /\ c[2] = "BASE" /\ ~ch[w].hashed
  <2>1. Goto(c, "loop") /\ UNCHANGED <<ch, crashed>> /\ task[c].pc = "dispatch"
    BY <1>3, <1>10, Zenon DEF TaskDispatch
  <2>2. \A d \in Chans : SameCore(d)
    BY <2>1, Zenon DEF SameCore, Alike
  <2> QED
    BY <1>1, <1>2, <2>1, <2>2, GotoPc, Zenon DEF InHand, TaskPcs
<1>11. CASE TaskDispatch(c) /\ ~(c[2] = "BASE" /\ ~ch[w].hashed)
  <2> DEFINE x == [task[c] EXCEPT !.pc = "call", !.for = w]
  <2>1. task' = [task EXCEPT ![c] = x] /\ ch' = Dispatched(Mem, c).ch /\ crashed' = crashed
        /\ task[c].pc = "dispatch"
    BY <1>3, <1>11, Zenon DEF TaskDispatch
  <2>2. "call" \in TaskPcs
    BY Zenon DEF TaskPcs
  <2>3. x \in TaskTypes /\ x.pc = "call" /\ x.for = w
    BY <1>1, <1>4, <2>2, Zenon DEF TaskTypes
  <2> HIDE DEF x
  <2>4. task'[c] = x /\ \A d \in Tasked : d # c => SameTask(d)
    BY <2>1, Zenon DEF Types, SameTask
  <2>5. TaskMoved(c)
    BY <1>3, <2>2, <2>3, <2>4, Zenon DEF TaskMoved, InHand
  <2>6. task[c].for = None
    BY <1>6, <2>1, Zenon DEF BaseOK, InHand
  <2>7. ch' \in [Chans -> ChanTypes] /\ ChansFollow(c)
    <3>1. CASE c[2] = "BASE"
      <4>1. ch' = [ch EXCEPT ![w] = [ch[w] EXCEPT !.ref = ch[w].ref + 1]]
        BY <1>1, <1>3, <2>1, <3>1, Zenon DEF Dispatched, hashelm_hold, Mem
      <4>2. PICK n \in Nat : n = ch[w].ref + 1
        BY <1>7
      <4>3. n = ch[w].ref - (IF task[c].for = w THEN 1 ELSE 0) + (IF task'[c].for = w THEN 1 ELSE 0)
        BY <1>4, <1>7, <2>3, <2>4, <2>6, <4>2
      <4>4. ch' = [ch EXCEPT ![w] = [ch[w] EXCEPT !.ref = n]]
        BY <4>1, <4>2, Zenon
      <4> QED
        BY <1>3, <1>7, <3>1, <4>3, <4>4, RefMoves, Zenon
    <3>2. CASE c[2] # "BASE"
      <4>1. ch' = ch
        BY <1>1, <2>1, <3>2, Zenon DEF Dispatched
      <4> QED
        BY <1>1, <1>3, <1>4, <1>7, <3>2, <4>1, Zenon DEF ChansFollow
    <3> QED
      BY <3>1, <3>2, Zenon
  <2>8. Types'
    BY <1>1, <1>2, <2>1, <2>3, <2>7, TaskTypesKept, Zenon
  <2> QED
    BY <1>2, <2>5, <2>7, <2>8, TaskMoves, Zenon
<1>12. CASE TaskPut(c)
  <2> DEFINE x == [task[c] EXCEPT !.pc = "loop", !.for = None, !.room = FALSE]
  <2>1. task' = [task EXCEPT ![c] = x] /\ SetMem(Done(Mem, c)) /\ task[c].pc = "put"
    BY <1>12, Zenon DEF TaskPut
  <2>2. "loop" \in TaskPcs
    BY Zenon DEF TaskPcs
  <2>3. x \in TaskTypes /\ x.pc = "loop" /\ x.for = None
    BY <1>1, <2>2, Zenon DEF TaskTypes
  <2> HIDE DEF x
  <2>4. task'[c] = x /\ \A d \in Tasked : d # c => SameTask(d)
    BY <2>1, Zenon DEF Types, SameTask
  <2>5. TaskMoved(c)
    BY <2>2, <2>3, <2>4, Zenon DEF TaskMoved, InHand
  <2>6. task[c].for = w
    BY <1>3, <1>6, <2>1, Zenon DEF BaseOK, InHand
  <2>7. ch' \in [Chans -> ChanTypes] /\ ChansFollow(c) /\ crashed' \in BOOLEAN
    <3>1. CASE c[2] = "BASE"
      <4>1. ch[w].ref > 1 /\ ch[w].st \notin Gone
        BY <1>8, <2>6, <3>1 DEF WrapperOK, Gone
      <4>2. Done(Mem, c) = With(Mem, w, [ch[w] EXCEPT !.ref = ch[w].ref - 1])
        BY <1>1, <1>4, <2>6, <3>1, <4>1, PutMore, Zenon DEF Done
      <4>3. ch' = [ch EXCEPT ![w] = [ch[w] EXCEPT !.ref = ch[w].ref - 1]] /\ crashed' = crashed
        BY <1>1, <2>1, <4>2 DEF SetMem, With
      <4>4. PICK n \in Nat : n = ch[w].ref - 1
        BY <1>7, <4>1
      <4>5. n = ch[w].ref - (IF task[c].for = w THEN 1 ELSE 0) + (IF task'[c].for = w THEN 1 ELSE 0)
        BY <1>4, <1>7, <2>3, <2>4, <2>6, <4>4
      <4>6. ch' = [ch EXCEPT ![w] = [ch[w] EXCEPT !.ref = n]]
        BY <4>3, <4>4, Zenon
      <4>7. crashed' \in BOOLEAN
        BY <1>1, <4>3, Zenon
      <4> QED
        BY <1>3, <1>7, <3>1, <4>5, <4>6, <4>7, RefMoves, Zenon
    <3>2. CASE c[2] # "BASE"
      <4>1. ch' = ch /\ crashed' = crashed
        BY <1>1, <2>1, <3>2, Zenon DEF Done, SetMem
      <4> QED
        BY <1>1, <1>3, <1>4, <1>7, <3>2, <4>1, Zenon DEF ChansFollow
    <3> QED
      BY <3>1, <3>2, Zenon
  <2>8. Types'
    BY <1>1, <1>2, <2>1, <2>3, <2>7, TaskTypesKept, Zenon
  <2> QED
    BY <1>2, <2>5, <2>7, <2>8, TaskMoves, Zenon
<1>13. CASE TaskStop(c)
  <2> DEFINE x == [task[c] EXCEPT !.pc = "end"]
             y == [ch[c] EXCEPT !.st = "STOPPED"]
  <2>1. task' = [task EXCEPT ![c] = x] /\ ch' = [ch EXCEPT ![c] = y] /\ task[c].pc = "stop"
        /\ crashed' = crashed
    BY <1>13, Zenon DEF TaskStop, Goto
  <2>2. "end" \in TaskPcs /\ "STOPPED" \in States
    BY Zenon DEF TaskPcs, States
  <2>3. x \in TaskTypes /\ x.pc = "end" /\ x.for = task[c].for
    BY <1>1, <2>2, Zenon DEF TaskTypes
  <2>4. y \in ChanTypes /\ y.st = "STOPPED" /\ y.ref = ch[c].ref /\ y.hashed = ch[c].hashed
        /\ y.join = ch[c].join
    BY <1>1, <2>2, Zenon DEF ChanTypes
  <2> HIDE DEF x, y
  <2>5. task'[c] = x /\ \A d \in Tasked : d # c => SameTask(d)
    BY <2>1, Zenon DEF Types, SameTask
  <2>6. ch' \in [Chans -> ChanTypes] /\ ch'[c] = y /\ \A d \in Chans : d # c => ch'[d] = ch[d]
    BY <1>1, <2>1, <2>4, Zenon
  <2>7. task[c].for = None
    BY <1>6, <2>1, Zenon DEF BaseOK, InHand
  <2>8. TaskMoved(c)
    BY <2>2, <2>3, <2>5, <2>7, Zenon DEF TaskMoved, InHand
  <2>9. ChansFollow(c)
    BY <1>3, <1>4, <1>7, <2>3, <2>4, <2>5, <2>6, <2>7 DEF ChansFollow
  <2>10. Types'
    BY <1>1, <1>2, <2>1, <2>3, <2>6, TaskTypesKept, Zenon
  <2> QED
    BY <1>2, <2>8, <2>9, <2>10, TaskMoves, Zenon
<1> QED
  BY <1>10, <1>11, <1>12, <1>13, Zenon

-----------------------------------------------------------------------------
\* The steps of main.

\* The step is about the handle with channel c and base b, and takes the one at
\* place k from stage s to stage t.
OnlyWith(c, b) == \A d \in Chans : d # c /\ d # b => SameCore(d) /\ SameTask(d)

Takes(k, t) ==
    /\ StageOf(k)' = t
    /\ \A j \in 1..Len(Order) : j # k => StageOf(j)' = StageOf(j)

LEMMA StageMoves ==
    ASSUME AllOK, NEW k \in 1..Len(Order), NEW s, NEW c, HasChannel(s, Order[k], c),
           mc' = mc, mc[Order[k]] = c, NEW t, t # "none",
           NEW b, b = BaseOf(c), OnlyWith(c, b), Takes(k, t),
           BaseOK(t, b, b = c)', c[2] = "UDP" => WrapperOK(t, c, b)'
    PROVE  AllOK'
<1> USE DEF OnlyWith, Takes
<1> SUFFICES ASSUME NEW j \in 1..Len(Order)
             PROVE  HandleOK(StageOf(j), Order[j])'
  BY Zenon DEF AllOK, StageOf
<1>0. c \in Chans /\ c[1] = Order[k] /\ BaseOf(c)[1] = c[1]
  BY ChanFacts, Zenon DEF HasChannel
<1>1. CASE j # k
  <2>1. PICK r : r = StageOf(j)
    OBVIOUS
  <2>2. HandleOK(r, Order[j])
    BY <2>1, Zenon DEF AllOK, StageOf
  <2>3. Order[j] # Order[k]
    BY <1>1, Places, Zenon
  <2>4. SameAt(Order[j])
    BY <1>0, <2>3, Zenon DEF SameAt
  <2>5. HandleOK(r, Order[j])'
    BY <2>2, <2>4, HandleSame, Zenon
  <2>6. StageOf(j)' = r
    BY <1>1, <2>1, Zenon
  <2> QED
    BY <2>5, <2>6, Zenon
<1>2. CASE j = k
  <2>1. \A d \in Chans : d[1] = Order[k] /\ d # c /\ d # BaseOf(c) => Unused(d)'
    BY UnusedSame, Zenon DEF HasChannel
  <2>2. HasChannel(t, Order[k], c)'
    BY <2>1, Zenon DEF HasChannel
  <2>3. HandleOK(t, Order[k])'
    BY <2>2, Zenon DEF HandleOK
  <2> QED
    BY <1>2, <2>3, Zenon
<1> QED
  BY <1>1, <1>2, Zenon

\* The handle at hand, while it has a channel.
HandPcs == {"start", "hashbase", "hash", "sending", "stop", "join", "unhashbase", "unhash", "put"}

StageAtHand ==
    CASE main.pc = "start" -> "made"
      [] main.pc = "hashbase" -> "started"
      [] main.pc = "hash" -> "based"
      [] main.pc \in {"sending", "stop", "join"} -> "up"
      [] main.pc = "unhashbase" -> "joined"
      [] main.pc = "unhash" -> "unbased"
      [] main.pc = "put" -> "unhashed"

LEMMA AtHandFacts ==
    ASSUME Types, AllOK,
           main.pc \in HandPcs
    PROVE  /\ main.k \in 1..Len(Order) /\ main.k \in Nat /\ Order[main.k] \in Handles
           /\ StageOf(main.k) = StageAtHand
           /\ HasChannel(StageOf(main.k), Order[main.k], AtHand)
           /\ AtHand \in Chans
<1>1. main.k \in 1..Len(Order) /\ main.k \in Nat
  BY OrderLen DEF Types, HandPcs
<1>2. Order[main.k] \in Handles
  BY <1>1, Places, Zenon
<1>3. HandleOK(StageOf(main.k), Order[main.k])
  BY <1>1, Zenon DEF AllOK, StageOf
<1>4. StageOf(main.k) = StageAtHand
  BY <1>1 DEF StageOf, Stage, StageAtHand, HandPcs
<1>5. StageOf(main.k) # "none"
  BY <1>4, Zenon DEF StageAtHand, HandPcs
<1>6. HasChannel(StageOf(main.k), Order[main.k], AtHand)
  BY <1>3, <1>5, Zenon DEF HandleOK, AtHand
<1> QED
  BY <1>1, <1>2, <1>4, <1>6, Zenon DEF HasChannel

\* Types of the steps of main.
LEMMA MainTypes ==
    ASSUME Types, task' = task, mc' \in [Handles -> Chans \cup {None}],
           ch' \in [Chans -> ChanTypes], crashed' \in BOOLEAN,
           NEW p \in MainPcs, NEW k \in 0..Len(Order), main' = [pc |-> p, k |-> k],
           p # "exit" => k \in 1..Len(Order)
    PROVE  Types'
  BY Zenon DEF Types

LEMMA MainRecord ==
    ASSUME Types, NEW p
    PROVE  /\ [main EXCEPT !.pc = p] = [pc |-> p, k |-> main.k]
           /\ main = [pc |-> main.pc, k |-> main.k]
           /\ main.k \in 0..Len(Order) /\ main.pc \in MainPcs
           /\ main.pc # "exit" => main.k \in 1..Len(Order)
  BY DEF Types

\* main sends, and decides to exit.
LEMMA SendingMainKeeps ==
    ASSUME Types, AllOK, ~crashed, \/ \E h \in Handles : MainSend(h)
                                   \/ MainSent \/ MainExits
    PROVE  Types' /\ AllOK'
<1>1. Mem \in Mems /\ mc \in [Handles -> Chans \cup {None}] /\ ch \in [Chans -> ChanTypes]
      /\ crashed \in BOOLEAN
  BY MemType, Zenon DEF Types
<1>2. ASSUME UNCHANGED <<task, mc>>, ch' \in [Chans -> ChanTypes], crashed' \in BOOLEAN,
             \A d \in Chans : SameCore(d), NEW p \in {"run", "sending", "stop"},
             NEW k \in 1..Len(Order), main' = [pc |-> p, k |-> k],
             main.pc \in {"run", "sending"}, p = "stop" => k = Len(Order)
      PROVE  Types' /\ AllOK'
  <2>1. \A j \in 1..Len(Order) : StageOf(j)' = StageOf(j)
    BY <1>2, OrderLen DEF StageOf, Stage
  <2>2. p \in MainPcs /\ k \in 0..Len(Order)
    BY <1>2, OrderLen DEF MainPcs
  <2> QED
    BY <1>1, <1>2, <2>1, <2>2, QuietMain, MainTypes, Zenon
<1>3. ASSUME NEW h \in Handles, MainSend(h)
      PROVE  Types' /\ AllOK'
  <2>1. mc[h] \in Chans
    BY <1>1, <1>3, Zenon DEF MainSend
  <2>2. AlikeMem(Mem, SendBegin(Mem, mc[h], Main))
    BY <1>1, <2>1, SendBeginAlike, Zenon
  <2>3. ch' \in [Chans -> ChanTypes] /\ crashed' \in BOOLEAN /\ \A d \in Chans : SameCore(d)
    BY <1>3, <2>2, AlikeState, Zenon DEF MainSend
  <2> DEFINE k == CHOOSE k \in DOMAIN Order : Order[k] = h
  <2>4. DOMAIN Order = 1..Len(Order)
    BY MsgChannelAssumption
  <2>5. k \in 1..Len(Order)
    BY <2>4, Places, Zenon
  <2>6. main.pc = "run" /\ main' = [pc |-> "sending", k |-> k] /\ UNCHANGED <<task, mc>>
    BY <1>3, Zenon DEF MainSend
  <2> HIDE DEF k
  <2> QED
    BY <1>2, <2>3, <2>5, <2>6, Zenon
<1>4. CASE MainSent
  <2>1. main.pc = "sending" /\ main' = [pc |-> "run", k |-> Len(Order)] /\ UNCHANGED <<task, mc>>
    BY <1>4, Zenon DEF MainSent
  <2>2. AtHand \in Chans
    BY <2>1, AtHandFacts, Zenon DEF HandPcs
  <2>3. LockOf(AtHand) \in Chans \cup {None}
    BY <2>2, ChanFacts, Zenon DEF LockOf
  <2>4. AlikeMem(Mem, SendEnd(Mem, LockOf(AtHand)))
    BY <1>1, <2>3, SendEndAlike, Zenon
  <2>5. ch' \in [Chans -> ChanTypes] /\ crashed' \in BOOLEAN /\ \A d \in Chans : SameCore(d)
    BY <1>4, <2>4, AlikeState, Zenon DEF MainSent
  <2> QED
    BY <1>2, <2>1, <2>5, OrderLen
<1>5. CASE MainExits
  <2>1. main.pc = "run" /\ main' = [pc |-> "stop", k |-> Len(Order)]
        /\ UNCHANGED <<ch, task, mc, crashed>>
    BY <1>5, Zenon DEF MainExits
  <2>2. \A d \in Chans : SameCore(d)
    BY <2>1, Zenon DEF SameCore, Alike
  <2> QED
    BY <1>1, <1>2, <2>1, <2>2, OrderLen
<1> QED
  BY <1>3, <1>4, <1>5, Zenon

\* message_channel_base_stop up to the join.
LEMMA StopKeeps ==
    ASSUME Types, AllOK, ~crashed, message_channel_base_stop
    PROVE  Types' /\ AllOK'
<1>1. Mem \in Mems /\ mc \in [Handles -> Chans \cup {None}] /\ Mem.ch = ch
  BY MemType, Zenon DEF Types
<1> DEFINE b == BaseOf(AtHand)
<1>2. main.pc = "stop" /\ main' = [main EXCEPT !.pc = "join"] /\ UNCHANGED <<task, mc>>
      /\ SetMem(IF Touch(Mem, b).crashed THEN Touch(Mem, b) ELSE StopRequest(Mem, b))
  BY Zenon DEF message_channel_base_stop
<1>3. AtHand \in Chans
  BY <1>2, AtHandFacts, Zenon DEF HandPcs
<1>4. b \in Chans
  BY <1>3, ChanFacts, Zenon
<1> HIDE DEF b
<1>5. Mem.ch[b] \in ChanTypes
  BY <1>1, <1>4, Zenon DEF Mems
<1>6. AlikeMem(Mem, Touch(Mem, b))
  BY <1>1, TouchFacts, Zenon DEF AlikeMem, Alike
<1>7. AlikeMem(Mem, StopRequest(Mem, b))
  <2>1. CASE Mem.ch[b].st = "RUNNING"
    <3>1. StopRequest(Mem, b) = [Mem EXCEPT !.ch[b].running = FALSE, !.ch[b].sig = TRUE]
      BY <2>1, Zenon DEF StopRequest
    <3>2. StopRequest(Mem, b) = With(Mem, b, [Mem.ch[b] EXCEPT !.running = FALSE, !.sig = TRUE])
      BY <1>1, <1>4, <3>1, ZenonT(60) DEF With, Mems, ChanTypes
    <3> QED
      BY <1>1, <1>4, <1>5, <3>2, OtherFields, AlikeWith, ZenonT(40)
  <2>2. CASE Mem.ch[b].st # "RUNNING"
    <3>1. StopRequest(Mem, b) = With(Mem, b, [Mem.ch[b] EXCEPT !.lock = Main])
      BY <1>1, <1>4, <2>2, Zenon DEF With, Mems, StopRequest
    <3> QED
      BY <1>1, <1>4, <1>5, <3>1, OtherFields, AlikeWith, ZenonT(40)
  <2> QED
    BY <2>1, <2>2, Zenon
<1>8. ch' \in [Chans -> ChanTypes] /\ crashed' \in BOOLEAN /\ \A d \in Chans : SameCore(d)
  BY <1>2, <1>6, <1>7, AlikeState, Zenon
<1>9. main' = [pc |-> "join", k |-> main.k] /\ main.k \in 1..Len(Order) /\ "join" \in MainPcs
  BY <1>2, MainRecord, Zenon DEF MainPcs
<1>10. \A j \in 1..Len(Order) : StageOf(j)' = StageOf(j)
  BY <1>2, <1>9, OrderLen, Zenon DEF StageOf, Stage
<1>11. main.k \in 0..Len(Order)
  BY MainRecord, Zenon
<1> QED
  BY <1>1, <1>2, <1>8, <1>9, <1>10, <1>11, QuietMain, MainTypes, Zenon

\* message_channel_base_start: the thread comes into being.
LEMMA StartKeeps ==
    ASSUME Types, AllOK, ~crashed, message_channel_base_start
    PROVE  Types' /\ AllOK'
<1>1. PICK c : c = AtHand
  OBVIOUS
<1>2. PICK b : b = BaseOf(c)
  OBVIOUS
<1>0. PICK k : k = main.k
  OBVIOUS
<1> DEFINE x == [NoTask EXCEPT !.pc = "start"]
           y == [ch[b] EXCEPT !.st = "RUNNING", !.join = TRUE]
<1>3. main.pc = "start" /\ ch' = [ch EXCEPT ![b] = y] /\ task' = [task EXCEPT ![b] = x]
      /\ main' = [main EXCEPT !.pc = "hashbase"] /\ UNCHANGED <<mc, crashed>>
  BY <1>1, <1>2, Zenon DEF message_channel_base_start
<1>4. k \in 1..Len(Order) /\ k \in Nat /\ HasChannel("made", Order[k], c) /\ c \in Chans
      /\ mc[Order[k]] = c
  BY <1>0, <1>1, <1>3, AtHandFacts, Zenon DEF StageAtHand, AtHand, HandPcs
<1>5. b \in Tasked /\ b \in Chans /\ (c[2] # "UDP" => b = c) /\ (c[2] = "UDP" => b # c)
  BY <1>2, <1>4, ChanFacts, Zenon
<1>6. BaseOK("made", b, b = c) /\ (c[2] = "UDP" => WrapperOK("made", c, b))
  BY <1>2, <1>4, Zenon DEF HasChannel
<1>7. ch[b] \in ChanTypes /\ ch \in [Chans -> ChanTypes] /\ task \in [Tasked -> TaskTypes]
  BY <1>5, Zenon DEF Types
<1>8. x \in TaskTypes /\ x.pc = "start" /\ x.for = None
  BY Zenon DEF NoTask, TaskTypes, TaskPcs
<1>9. "RUNNING" \in States
  BY Zenon DEF States
<1>10. y \in ChanTypes /\ y.st = "RUNNING" /\ y.join = TRUE /\ y.ref = ch[b].ref
       /\ y.hashed = ch[b].hashed
  BY <1>7, <1>9, Zenon DEF ChanTypes
<1> HIDE DEF x, y
<1>11. ch' \in [Chans -> ChanTypes] /\ ch'[b] = y /\ \A d \in Chans : d # b => ch'[d] = ch[d]
  BY <1>3, <1>5, <1>7, <1>10, Zenon
<1>12. task' \in [Tasked -> TaskTypes] /\ task'[b] = x
       /\ \A d \in Tasked : d # b => task'[d] = task[d]
  BY <1>3, <1>5, <1>7, <1>8, Zenon
<1>13. main' = [pc |-> "hashbase", k |-> k] /\ k \in 0..Len(Order)
  BY <1>0, <1>3, MainRecord, Zenon
<1>14. Types'
  BY <1>3, <1>4, <1>8, <1>11, <1>12, <1>13, Zenon DEF Types, MainPcs
<1>15. BaseOK("started", b, b = c)'
  BY <1>6, <1>8, <1>10, <1>11, <1>12, Zenon DEF BaseOK, BasePcs, BaseHashed, TaskPcs, InHand
<1>16. c[2] = "UDP" => WrapperOK("started", c, b)'
  <2> SUFFICES ASSUME c[2] = "UDP"
               PROVE  WrapperOK("started", c, b)'
    OBVIOUS
  <2>1. task[b].for = None /\ c # None
    BY <1>4, <1>6, ChanFacts, Zenon DEF BaseOK, BasePcs, InHand
  <2> QED
    BY <1>4, <1>5, <1>6, <1>8, <1>11, <1>12, <2>1, Zenon DEF WrapperOK, WrapperHashed
<1>17. OnlyWith(c, b)
  BY <1>11, <1>12, Zenon DEF OnlyWith, SameCore, Alike, SameTask
<1>18. Takes(k, "started")
  BY <1>0, <1>3, <1>4, <1>13, OrderLen DEF Takes, StageOf, Stage
<1>19. "started" # "none"
  OBVIOUS
<1>20. AllOK'
  BY <1>2, <1>3, <1>4, <1>15, <1>16, <1>17, <1>18, <1>19, StageMoves, Zenon
<1> QED
  BY <1>14, <1>20, Zenon

\* message_channel_hash of a channel that is not in the table.
LEMMA HashNew ==
    ASSUME NEW s \in Mems, NEW c \in Chans, ~s.ch[c].hashed
    PROVE  /\ message_channel_hash(s, c)
              = With(s, c, [s.ch[c] EXCEPT !.ref = s.ch[c].ref + 1, !.hashed = TRUE])
           /\ [s.ch[c] EXCEPT !.ref = s.ch[c].ref + 1, !.hashed = TRUE] \in ChanTypes
<1> DEFINE n == s.ch[c].ref + 1
<1>1. hashelm_hold(s, c) = [s EXCEPT !.ch[c].ref = n]
  BY Zenon DEF hashelm_hold
<1>2. n \in Nat /\ s.ch[c] \in ChanTypes
  BY DEF Mems, ChanTypes
<1> HIDE DEF n
<1>3. message_channel_hash(s, c) = [[s EXCEPT !.ch[c].ref = n] EXCEPT !.ch[c].hashed = TRUE]
  BY <1>1, Zenon DEF message_channel_hash
<1>4. message_channel_hash(s, c) = With(s, c, [s.ch[c] EXCEPT !.ref = n, !.hashed = TRUE])
  <2> DEFINE f == [s.ch EXCEPT ![c].ref = n]
             g == [f EXCEPT ![c].hashed = TRUE]
  <2>1. [s EXCEPT !.ch[c].ref = n] = [s EXCEPT !.ch = f]
    OBVIOUS
  <2>2. g = [s.ch EXCEPT ![c] = [s.ch[c] EXCEPT !.ref = n, !.hashed = TRUE]]
    BY <1>2, Zenon DEF Mems, ChanTypes
  <2>3. [[ch |-> f, crashed |-> s.crashed] EXCEPT !.ch[c].hashed = TRUE]
        = [ch |-> g, crashed |-> s.crashed]
    OBVIOUS
  <2> HIDE DEF g, f
  <2>4. [s EXCEPT !.ch = f] = [ch |-> f, crashed |-> s.crashed]
    BY DEF Mems
  <2> QED
    BY <1>3, <2>1, <2>2, <2>3, <2>4, Zenon DEF With
<1>5. [s.ch[c] EXCEPT !.ref = n, !.hashed = TRUE] \in ChanTypes
  BY <1>2, Zenon DEF ChanTypes
<1> QED
  BY <1>4, <1>5, Zenon DEF n

\* main takes the handle at hand from one stage to the next.
LEMMA MainMoves ==
    ASSUME Types, AllOK,
           main.pc \in HandPcs,
           NEW c, c = AtHand, NEW b, b = BaseOf(c), UNCHANGED <<task, mc>>,
           ch' \in [Chans -> ChanTypes], crashed' \in BOOLEAN, OnlyWith(c, b),
           NEW p \in MainPcs \ {"exit"}, NEW k \in 1..Len(Order), main' = [pc |-> p, k |-> k],
           NEW t, t # "none", NEW i, i = main.k, Takes(i, t),
           BaseOK(t, b, b = c)', c[2] = "UDP" => WrapperOK(t, c, b)'
    PROVE  Types' /\ AllOK'
<1>1. i \in 1..Len(Order) /\ HasChannel(StageOf(i), Order[i], c) /\ mc[Order[i]] = c
  BY AtHandFacts, Zenon DEF AtHand
<1>2. AllOK'
  <2>1. PICK s : s = StageOf(i)
    OBVIOUS
  <2>2. HasChannel(s, Order[i], c) /\ mc' = mc
    BY <1>1, <2>1, Zenon
  <2> QED
    BY <1>1, <2>2, StageMoves, Zenon
<1>3. k \in 0..Len(Order) /\ mc' \in [Handles -> Chans \cup {None}]
  BY OrderLen DEF Types
<1> QED
  BY <1>2, <1>3, MainTypes, Zenon

\* What the invariant says of the handle at hand.
LEMMA HandFacts ==
    ASSUME Types, AllOK,
           main.pc \in HandPcs,
           NEW c, c = AtHand, NEW b, b = BaseOf(c)
    PROVE  /\ main.k \in 1..Len(Order) /\ main.k \in Nat
           /\ mc[Order[main.k]] = c /\ c \in Chans /\ c[1] = Order[main.k] /\ c # None
           /\ b \in Tasked /\ b \in Chans
           /\ c[2] # "UDP" => b = c
           /\ c[2] = "UDP" => b # c /\ WrapperOK(StageAtHand, c, b)
           /\ BaseOK(StageAtHand, b, b = c)
           /\ ch \in [Chans -> ChanTypes] /\ ch[b] \in ChanTypes /\ ch[c] \in ChanTypes
           /\ Mem \in Mems /\ Mem.ch = ch /\ Mem.crashed = crashed /\ crashed \in BOOLEAN
           /\ \A p : [main EXCEPT !.pc = p] = [pc |-> p, k |-> main.k]
<1>1. main.k \in 1..Len(Order) /\ main.k \in Nat /\ HasChannel(StageAtHand, Order[main.k], c)
      /\ mc[Order[main.k]] = c /\ c \in Chans
  BY AtHandFacts, Zenon DEF AtHand
<1>2. c[1] = Order[main.k] /\ BaseOK(StageAtHand, b, b = c)
      /\ (c[2] = "UDP" => WrapperOK(StageAtHand, c, b))
  BY <1>1, Zenon DEF HasChannel
<1>3. b \in Tasked /\ b \in Chans /\ (c[2] # "UDP" => b = c) /\ (c[2] = "UDP" => b # c)
      /\ c # None
  BY <1>1, ChanFacts, Zenon
<1>4. ch \in [Chans -> ChanTypes] /\ ch[b] \in ChanTypes /\ ch[c] \in ChanTypes
      /\ crashed \in BOOLEAN
  BY <1>1, <1>3, Zenon DEF Types
<1>5. Mem \in Mems /\ Mem.ch = ch /\ Mem.crashed = crashed
  BY MemType, Zenon
<1>6. \A p : [main EXCEPT !.pc = p] = [pc |-> p, k |-> main.k]
  BY MainRecord, Zenon
<1> QED
  BY <1>1, <1>2, <1>3, <1>4, <1>5, <1>6, Zenon

\* The rest of message_channel_start for the base.
LEMMA HashBaseKeeps ==
    ASSUME Types, AllOK, ~crashed, HashBase
    PROVE  Types' /\ AllOK'
<1>1. PICK c : c = AtHand
  OBVIOUS
<1>2. PICK b : b = BaseOf(c)
  OBVIOUS
<1>0. PICK i : i = main.k
  OBVIOUS
<1>3. main.pc = "hashbase" /\ SetMem(message_channel_hash(Mem, b))
      /\ main' = [main EXCEPT !.pc = "hash"] /\ UNCHANGED <<task, mc>>
  BY <1>1, <1>2, Zenon DEF HashBase
<1>4. StageAtHand = "started" /\ main.pc \in HandPcs
  BY <1>3, Zenon DEF StageAtHand, HandPcs
<1>5. /\ main.k \in 1..Len(Order) /\ main.k \in Nat /\ b \in Chans /\ b \in Tasked
      /\ c \in Chans /\ (c[2] # "UDP" => b = c)
      /\ (c[2] = "UDP" => b # c /\ WrapperOK("started", c, b)) /\ BaseOK("started", b, b = c)
      /\ ch \in [Chans -> ChanTypes] /\ ch[b] \in ChanTypes /\ Mem \in Mems /\ Mem.ch = ch
      /\ Mem.crashed = crashed /\ crashed \in BOOLEAN
      /\ main' = [pc |-> "hash", k |-> main.k]
  BY <1>1, <1>2, <1>3, <1>4, HandFacts, Zenon
<1>6. ~ch[b].hashed /\ ch[b].ref = 1
  BY <1>5, Zenon DEF BaseOK, BaseHashed
<1> DEFINE y == [ch[b] EXCEPT !.ref = ch[b].ref + 1, !.hashed = TRUE]
<1>7. message_channel_hash(Mem, b) = With(Mem, b, y) /\ y \in ChanTypes
  BY <1>5, <1>6, HashNew, Zenon
<1>8. y.ref = 2 /\ y.hashed /\ y.st = ch[b].st /\ y.join = ch[b].join
  <2>1. y.ref = ch[b].ref + 1 /\ y.hashed /\ y.st = ch[b].st /\ y.join = ch[b].join
    BY <1>5, Zenon DEF ChanTypes
  <2> QED
    BY <1>6, <2>1
<1> HIDE DEF y
<1>9. /\ ch' \in [Chans -> ChanTypes] /\ crashed' \in BOOLEAN /\ ch'[b] = y
      /\ \A d \in Chans : d # b => ch'[d] = ch[d]
  BY <1>3, <1>5, <1>7 DEF SetMem, With
<1>10. BaseOK("based", b, b = c)'
  BY <1>3, <1>5, <1>8, <1>9, Zenon DEF BaseOK, BasePcs, BaseHashed
<1>11. c[2] = "UDP" => WrapperOK("based", c, b)'
  BY <1>3, <1>5, <1>9, Zenon DEF WrapperOK, WrapperHashed
<1>12. OnlyWith(c, b)
  BY <1>3, <1>9, Zenon DEF OnlyWith, SameCore, Alike, SameTask
<1>13. Takes(i, "based")
  BY <1>0, <1>3, <1>5, OrderLen DEF Takes, StageOf, Stage
<1>14. "hash" \in MainPcs \ {"exit"} /\ "based" # "none"
  BY Zenon DEF MainPcs
<1> QED
  BY <1>0, <1>1, <1>2, <1>3, <1>4, <1>5, <1>9, <1>10, <1>11, <1>12, <1>13, <1>14, MainMoves, Zenon

\* The rest of message_channel_start for the channel of the handle, which may be
\* its own base.
LEMMA HashChannelKeeps ==
    ASSUME Types, AllOK, ~crashed, HashChannel
    PROVE  Types' /\ AllOK'
<1>1. PICK c : c = AtHand
  OBVIOUS
<1>2. PICK b : b = BaseOf(c)
  OBVIOUS
<1>0. PICK i : i = main.k
  OBVIOUS
<1>3. main.pc = "hash" /\ SetMem(message_channel_hash(Mem, c)) /\ UNCHANGED <<task, mc>>
      /\ main' = IF main.k = 1 THEN [pc |-> "run", k |-> Len(Order)]
                 ELSE [pc |-> "start", k |-> main.k - 1]
  BY <1>1, Zenon DEF HashChannel
<1>4. StageAtHand = "based" /\ main.pc \in HandPcs
  BY <1>3, Zenon DEF StageAtHand, HandPcs
<1>5. /\ main.k \in 1..Len(Order) /\ main.k \in Nat /\ b \in Chans /\ b \in Tasked
      /\ c \in Chans /\ (c[2] # "UDP" => b = c)
      /\ (c[2] = "UDP" => b # c /\ WrapperOK("based", c, b)) /\ BaseOK("based", b, b = c)
      /\ ch \in [Chans -> ChanTypes] /\ ch[c] \in ChanTypes /\ Mem \in Mems /\ Mem.ch = ch
      /\ Mem.crashed = crashed /\ crashed \in BOOLEAN
  BY <1>1, <1>2, <1>3, <1>4, HandFacts, Zenon
<1>6. /\ ch' \in [Chans -> ChanTypes] /\ crashed' \in BOOLEAN
      /\ \A d \in Chans : d # c => ch'[d] = ch[d]
      /\ BaseOK("up", b, b = c)' /\ (c[2] = "UDP" => WrapperOK("up", c, b)')
  <2>1. CASE c[2] # "UDP"
    <3>1. ch[c].hashed
      BY <1>5, <2>1, Zenon DEF BaseOK, BaseHashed
    <3>2. ch' = ch /\ crashed' = crashed
      BY <1>3, <1>5, <3>1, Zenon DEF message_channel_hash, SetMem
    <3>3. BaseOK("up", b, b = c)'
      BY <1>3, <1>5, <3>2, Zenon DEF BaseOK, BasePcs, BaseHashed
    <3> QED
      BY <1>5, <2>1, <3>2, <3>3, Zenon
  <2>2. CASE c[2] = "UDP"
    <3>1. ~ch[c].hashed /\ ch[c].ref = 1 + (IF task[b].for = c THEN 1 ELSE 0)
      BY <1>5, <2>2, Zenon DEF WrapperOK, WrapperHashed
    <3> DEFINE y == [ch[c] EXCEPT !.ref = ch[c].ref + 1, !.hashed = TRUE]
    <3>2. message_channel_hash(Mem, c) = With(Mem, c, y) /\ y \in ChanTypes
      BY <1>5, <3>1, HashNew, Zenon
    <3>3. y.ref = ch[c].ref + 1 /\ y.hashed /\ y.st = ch[c].st
      BY <1>5, Zenon DEF ChanTypes
    <3> HIDE DEF y
    <3>4. /\ ch' \in [Chans -> ChanTypes] /\ crashed' \in BOOLEAN /\ ch'[c] = y
          /\ \A d \in Chans : d # c => ch'[d] = ch[d]
      <4>1. ch' = [ch EXCEPT ![c] = y] /\ crashed' = crashed
        <5>1. With(Mem, c, y).ch = [Mem.ch EXCEPT ![c] = y] /\ With(Mem, c, y).crashed = Mem.crashed
          BY Zenon DEF With
        <5>2. SetMem(With(Mem, c, y))
          BY <1>3, <3>2, Zenon
        <5> QED
          BY <1>5, <5>1, <5>2, Zenon DEF SetMem
      <4> QED
        BY <1>5, <3>2, <4>1, Zenon
    <3>5. BaseOK("up", b, b = c)'
      BY <1>3, <1>5, <2>2, <3>4, Zenon DEF BaseOK, BasePcs, BaseHashed
    <3>6. WrapperOK("up", c, b)'
      <4>1. task' = task /\ ch[c].st = "CREATED"
        BY <1>3, <1>5, <2>2, Zenon DEF WrapperOK
      <4>2. ch'[c].hashed /\ ch'[c].st = "CREATED"
        BY <3>3, <3>4, <4>1, Zenon
      <4>3. ch'[c].ref = 2 + (IF task'[b].for = c THEN 1 ELSE 0)
        <5>1. ch'[c].ref = (1 + (IF task[b].for = c THEN 1 ELSE 0)) + 1
          BY <3>1, <3>3, <3>4, Zenon
        <5> QED
          BY <4>1, <5>1, WrapperCounts, Zenon
      <4> QED
        BY <4>2, <4>3, Zenon DEF WrapperOK, WrapperHashed
    <3> QED
      BY <3>4, <3>5, <3>6, Zenon
  <2> QED
    BY <2>1, <2>2, Zenon
<1>7. OnlyWith(c, b)
  BY <1>3, <1>6, Zenon DEF OnlyWith, SameCore, Alike, SameTask
<1>8. Takes(i, "up")
  <2>1. i \in Int /\ Len(Order) \in Int /\ main.pc = "hash"
    <3>1. i \in Nat /\ main.pc = "hash"
      BY <1>0, <1>3, <1>5, Zenon
    <3> QED
      BY <3>1, OrderLen
  <2>2. CASE i = 1
    <3>1. main'.pc = "run"
      BY <1>0, <1>3, <2>2, Zenon
    <3> QED
      BY <1>0, <2>1, <2>2, <3>1 DEF Takes, StageOf, Stage
  <2>3. CASE i # 1
    <3>1. main'.pc = "start" /\ main'.k = i - 1
      BY <1>0, <1>3, <2>3, Zenon
    <3> QED
      BY <1>0, <2>1, <3>1 DEF Takes, StageOf, Stage
  <2> QED
    BY <2>2, <2>3, Zenon
<1>9. \E p \in MainPcs \ {"exit"}, k \in 1..Len(Order) : main' = [pc |-> p, k |-> k]
  <2>1. CASE main.k = 1
    <3>1. "run" \in MainPcs \ {"exit"} /\ Len(Order) \in 1..Len(Order)
      BY OrderLen DEF MainPcs
    <3> QED
      BY <1>3, <2>1, <3>1, Zenon
  <2>2. CASE main.k # 1
    <3>1. "start" \in MainPcs \ {"exit"} /\ main.k - 1 \in 1..Len(Order)
      BY <1>5, <2>2, OrderLen DEF MainPcs
    <3> QED
      BY <1>3, <2>2, <3>1, Zenon
  <2> QED
    BY <2>1, <2>2, Zenon
<1>10. PICK p \in MainPcs \ {"exit"}, k \in 1..Len(Order) : main' = [pc |-> p, k |-> k]
  BY <1>9, Zenon
<1>11. "up" # "none"
  OBVIOUS
<1> QED
  BY <1>0, <1>1, <1>2, <1>3, <1>4, <1>5, <1>6, <1>7, <1>8, <1>10, <1>11, MainMoves, ZenonT(40)

\* The end of message_channel_base_stop: the thread is done.
LEMMA JoinKeeps ==
    ASSUME Types, AllOK, ~crashed, StopJoin
    PROVE  Types' /\ AllOK'
<1>1. PICK c : c = AtHand
  OBVIOUS
<1>2. PICK b : b = BaseOf(c)
  OBVIOUS
<1>0. PICK i : i = main.k
  OBVIOUS
<1> DEFINE p == IF c[2] = "UDP" THEN "unhashbase" ELSE "unhash"
           t == IF c[2] = "UDP" THEN "joined" ELSE "unbased"
           y == [ch[b] EXCEPT !.lock = None]
<1>3. main.pc = "join" /\ Joined(b) /\ ch' = [ch EXCEPT ![b] = y] /\ UNCHANGED <<task, mc, crashed>>
      /\ main' = [main EXCEPT !.pc = p]
  BY <1>1, <1>2, Zenon DEF StopJoin
<1>4. StageAtHand = "up" /\ main.pc \in HandPcs
  BY <1>3, Zenon DEF StageAtHand, HandPcs
<1>5. /\ main.k \in 1..Len(Order) /\ main.k \in Nat /\ b \in Chans /\ b \in Tasked
      /\ c \in Chans /\ (c[2] # "UDP" => b = c)
      /\ (c[2] = "UDP" => b # c /\ WrapperOK("up", c, b)) /\ BaseOK("up", b, b = c)
      /\ ch \in [Chans -> ChanTypes] /\ ch[b] \in ChanTypes /\ crashed \in BOOLEAN
      /\ main' = [pc |-> p, k |-> main.k]
  BY <1>1, <1>2, <1>3, <1>4, HandFacts
<1>6. task[b].pc = "done"
  BY <1>3, <1>5, Zenon DEF BaseOK, Joined
<1>7. y \in ChanTypes /\ Alike(ch[b], y)
  BY <1>5, OtherFields, Zenon
<1> HIDE DEF y
<1>8. ch' \in [Chans -> ChanTypes] /\ ch'[b] = y /\ \A d \in Chans : d # b => ch'[d] = ch[d]
  BY <1>3, <1>5, <1>7, Zenon
<1>9. BaseOK(t, b, b = c)'
  BY <1>3, <1>5, <1>6, <1>7, <1>8, Zenon DEF BaseOK, BasePcs, BaseHashed, Alike
<1>10. c[2] = "UDP" => WrapperOK(t, c, b)'
  BY <1>3, <1>5, <1>8, Zenon DEF WrapperOK, WrapperHashed
<1>11. OnlyWith(c, b)
  BY <1>3, <1>8, Zenon DEF OnlyWith, SameCore, Alike, SameTask
<1>12. Takes(i, t)
  BY <1>0, <1>3, <1>5, OrderLen DEF Takes, StageOf, Stage
<1>13. p \in MainPcs \ {"exit"} /\ t # "none"
  BY Zenon DEF MainPcs
<1> HIDE DEF p, t
<1>14. crashed' \in BOOLEAN /\ UNCHANGED <<task, mc>>
  BY <1>3, <1>5, Zenon
<1> QED
  BY <1>0, <1>1, <1>2, <1>4, <1>5, <1>8, <1>9, <1>10, <1>11, <1>12, <1>13, <1>14, MainMoves, Zenon

\* message_channel_unhash of a channel that has another reference.
LEMMA UnhashMore ==
    ASSUME NEW s \in Mems, NEW c \in Chans, ~s.crashed, s.ch[c].st \notin Gone, s.ch[c].ref > 1
    PROVE  \E y \in ChanTypes :
              /\ y.ref = s.ch[c].ref - 1 /\ y.hashed = FALSE
              /\ y.st = s.ch[c].st /\ y.join = s.ch[c].join
              /\ message_channel_unhash(s, c).ch = [s.ch EXCEPT ![c] = y]
              /\ message_channel_unhash(s, c).crashed = FALSE
<1> DEFINE z == [s.ch[c] EXCEPT !.hashed = FALSE]
           u == [s EXCEPT !.ch[c].hashed = FALSE]
<1>1. s.ch[c] \in ChanTypes /\ s.ch \in [Chans -> ChanTypes]
  BY Zenon DEF Mems
<1>2. z \in ChanTypes /\ z.hashed = FALSE /\ z.ref = s.ch[c].ref /\ z.st = s.ch[c].st
      /\ z.join = s.ch[c].join
  BY <1>1, Zenon DEF ChanTypes
<1>3. u = With(s, c, z)
  <2>1. u = [s EXCEPT !.ch = [s.ch EXCEPT ![c] = z]]
    OBVIOUS
  <2> DEFINE f == [s.ch EXCEPT ![c] = z]
  <2> HIDE DEF f
  <2>2. [s EXCEPT !.ch = f] = [ch |-> f, crashed |-> s.crashed]
    BY DEF Mems
  <2> QED
    BY <2>1, <2>2, Zenon DEF With, f
<1>4. message_channel_unhash(s, c) = hashelm_put(u, c)
  BY TouchFacts, Zenon DEF message_channel_unhash
<1> HIDE DEF z, u
<1>5. u \in Mems /\ u.ch[c] = z /\ u.crashed = FALSE /\ u.ch = [s.ch EXCEPT ![c] = z]
  <2>1. u \in Mems /\ u.ch[c] = z /\ u.crashed = s.crashed
    BY <1>2, <1>3, WithType
  <2>2. s.crashed = FALSE
    BY Zenon DEF Mems
  <2>3. u.ch = [s.ch EXCEPT ![c] = z]
    BY <1>3, Zenon DEF With
  <2> QED
    BY <2>1, <2>2, <2>3, Zenon
<1> DEFINE n == z.ref - 1
           y == [z EXCEPT !.ref = n]
<1>6. n \in Nat /\ n = s.ch[c].ref - 1
  BY <1>1, <1>2 DEF ChanTypes
<1>7. hashelm_put(u, c) = With(u, c, y)
  BY <1>2, <1>5, PutMore, Zenon
<1> HIDE DEF n
<1>8. y \in ChanTypes /\ y.ref = n /\ y.hashed = z.hashed /\ y.st = z.st /\ y.join = z.join
  BY <1>2, <1>6, Zenon DEF ChanTypes
<1> HIDE DEF y
<1>9. hashelm_put(u, c).ch = [s.ch EXCEPT ![c] = y] /\ hashelm_put(u, c).crashed = FALSE
  BY <1>1, <1>5, <1>7 DEF With
<1>10. y.ref = s.ch[c].ref - 1 /\ y.hashed = FALSE /\ y.st = s.ch[c].st /\ y.join = s.ch[c].join
  BY <1>2, <1>6, <1>8, Zenon
<1> QED
  BY <1>4, <1>8, <1>9, <1>10, Zenon

\* message_channel_stop after the join, for the base of a UDP channel.
LEMMA UnhashBaseKeeps ==
    ASSUME Types, AllOK, ~crashed, UnhashBase
    PROVE  Types' /\ AllOK'
<1>1. PICK c : c = AtHand
  OBVIOUS
<1>2. PICK b : b = BaseOf(c)
  OBVIOUS
<1>0. PICK i : i = main.k
  OBVIOUS
<1>3. main.pc = "unhashbase" /\ SetMem(message_channel_unhash(Mem, b))
      /\ main' = [main EXCEPT !.pc = "unhash"] /\ UNCHANGED <<task, mc>>
  BY <1>1, <1>2, Zenon DEF UnhashBase
<1>4. StageAtHand = "joined" /\ main.pc \in HandPcs
  BY <1>3, Zenon DEF StageAtHand, HandPcs
<1>5. /\ main.k \in 1..Len(Order) /\ main.k \in Nat /\ b \in Chans /\ b \in Tasked
      /\ c \in Chans /\ (c[2] # "UDP" => b = c)
      /\ (c[2] = "UDP" => b # c /\ WrapperOK("joined", c, b)) /\ BaseOK("joined", b, b = c)
      /\ ch \in [Chans -> ChanTypes] /\ Mem \in Mems /\ Mem.ch = ch
      /\ Mem.crashed = crashed /\ crashed \in BOOLEAN
      /\ main' = [pc |-> "unhash", k |-> main.k]
  BY <1>1, <1>2, <1>3, <1>4, HandFacts, Zenon
<1>6. ch[b].ref = 2 /\ ch[b].st \notin Gone
  BY <1>5, Zenon DEF BaseOK, BaseHashed, Gone
<1>7. PICK y \in ChanTypes :
         /\ y.ref = 1 /\ y.hashed = FALSE /\ y.st = ch[b].st /\ y.join = ch[b].join
         /\ ch' = [ch EXCEPT ![b] = y] /\ crashed' = FALSE
  <2>1. Mem.ch[b].ref > 1 /\ Mem.ch[b].st \notin Gone /\ ~Mem.crashed
    BY <1>5, <1>6
  <2>2. PICK y \in ChanTypes :
           /\ y.ref = Mem.ch[b].ref - 1 /\ y.hashed = FALSE
           /\ y.st = Mem.ch[b].st /\ y.join = Mem.ch[b].join
           /\ message_channel_unhash(Mem, b).ch = [Mem.ch EXCEPT ![b] = y]
           /\ message_channel_unhash(Mem, b).crashed = FALSE
    BY <1>5, <2>1, UnhashMore, Zenon
  <2>3. y.ref = 1
    BY <1>5, <1>6, <2>2
  <2>4. ch' = [ch EXCEPT ![b] = y] /\ crashed' = FALSE
    BY <1>3, <1>5, <2>2, Zenon DEF SetMem
  <2> QED
    BY <1>5, <2>2, <2>3, <2>4, Zenon
<1>8. ch' \in [Chans -> ChanTypes] /\ crashed' \in BOOLEAN /\ ch'[b] = y
      /\ \A d \in Chans : d # b => ch'[d] = ch[d]
  BY <1>5, <1>7, Zenon
<1>9. b # c
  BY <1>5, Zenon DEF BaseOK
<1>10. BaseOK("unbased", b, b = c)'
  BY <1>3, <1>5, <1>7, <1>8, <1>9, Zenon DEF BaseOK, BasePcs, BaseHashed
<1>11. c[2] = "UDP" => WrapperOK("unbased", c, b)'
  BY <1>3, <1>5, <1>8, Zenon DEF WrapperOK, WrapperHashed
<1>12. OnlyWith(c, b)
  BY <1>3, <1>8, Zenon DEF OnlyWith, SameCore, Alike, SameTask
<1>13. Takes(i, "unbased")
  BY <1>0, <1>3, <1>5, OrderLen DEF Takes, StageOf, Stage
<1>14. "unhash" \in MainPcs \ {"exit"} /\ "unbased" # "none"
  BY Zenon DEF MainPcs
<1> QED
  BY <1>0, <1>1, <1>2, <1>3, <1>4, <1>5, <1>8, <1>10, <1>11, <1>12, <1>13, <1>14, MainMoves, Zenon

\* message_channel_stop after the join, for the channel of the handle.
LEMMA UnhashChannelKeeps ==
    ASSUME Types, AllOK, ~crashed, UnhashChannel
    PROVE  Types' /\ AllOK'
<1>1. PICK c : c = AtHand
  OBVIOUS
<1>2. PICK b : b = BaseOf(c)
  OBVIOUS
<1>0. PICK i : i = main.k
  OBVIOUS
<1>3. main.pc = "unhash" /\ SetMem(message_channel_unhash(Mem, c))
      /\ main' = [main EXCEPT !.pc = "put"] /\ UNCHANGED <<task, mc>>
  BY <1>1, Zenon DEF UnhashChannel
<1>4. StageAtHand = "unbased" /\ main.pc \in HandPcs
  BY <1>3, Zenon DEF StageAtHand, HandPcs
<1>5. /\ main.k \in 1..Len(Order) /\ main.k \in Nat /\ b \in Chans /\ b \in Tasked
      /\ c \in Chans /\ (c[2] # "UDP" => b = c) /\ c # None
      /\ (c[2] = "UDP" => b # c /\ WrapperOK("unbased", c, b)) /\ BaseOK("unbased", b, b = c)
      /\ ch \in [Chans -> ChanTypes] /\ Mem \in Mems /\ Mem.ch = ch
      /\ Mem.crashed = crashed /\ crashed \in BOOLEAN
      /\ main' = [pc |-> "put", k |-> main.k]
  BY <1>1, <1>2, <1>3, <1>4, HandFacts, Zenon
<1>6. task[b].for = None
  BY <1>5, Zenon DEF BaseOK, BasePcs, InHand
<1>7. ch[c].ref = 2 /\ ch[c].st \notin Gone
  <2>1. CASE c[2] = "UDP"
    BY <1>5, <1>6, <2>1 DEF WrapperOK, WrapperHashed, Gone
  <2>2. CASE c[2] # "UDP"
    BY <1>5, <2>2, Zenon DEF BaseOK, BaseHashed, Gone
  <2> QED
    BY <2>1, <2>2, Zenon
<1>8. PICK y \in ChanTypes :
         /\ y.ref = 1 /\ y.hashed = FALSE /\ y.st = ch[c].st /\ y.join = ch[c].join
         /\ ch' = [ch EXCEPT ![c] = y] /\ crashed' = FALSE
  <2>1. Mem.ch[c].ref > 1 /\ Mem.ch[c].st \notin Gone /\ ~Mem.crashed
    BY <1>5, <1>7
  <2>2. PICK y \in ChanTypes :
           /\ y.ref = Mem.ch[c].ref - 1 /\ y.hashed = FALSE
           /\ y.st = Mem.ch[c].st /\ y.join = Mem.ch[c].join
           /\ message_channel_unhash(Mem, c).ch = [Mem.ch EXCEPT ![c] = y]
           /\ message_channel_unhash(Mem, c).crashed = FALSE
    BY <1>5, <2>1, UnhashMore, Zenon
  <2>3. y.ref = 1
    BY <1>5, <1>7, <2>2
  <2>4. ch' = [ch EXCEPT ![c] = y] /\ crashed' = FALSE
    BY <1>3, <1>5, <2>2, Zenon DEF SetMem
  <2> QED
    BY <1>5, <2>2, <2>3, <2>4, Zenon
<1>9. ch' \in [Chans -> ChanTypes] /\ crashed' \in BOOLEAN /\ ch'[c] = y
      /\ \A d \in Chans : d # c => ch'[d] = ch[d]
  BY <1>5, <1>8, Zenon
<1>10. BaseOK("unhashed", b, b = c)'
  <2>1. CASE c[2] = "UDP"
    BY <1>3, <1>5, <1>9, <2>1, Zenon DEF BaseOK, BasePcs, BaseHashed
  <2>2. CASE c[2] # "UDP"
    BY <1>3, <1>5, <1>8, <1>9, <2>2, Zenon DEF BaseOK, BasePcs, BaseHashed
  <2> QED
    BY <2>1, <2>2, Zenon
<1>11. c[2] = "UDP" => WrapperOK("unhashed", c, b)'
  BY <1>3, <1>5, <1>6, <1>8, <1>9 DEF WrapperOK, WrapperHashed
<1>12. OnlyWith(c, b)
  BY <1>3, <1>9, Zenon DEF OnlyWith, SameCore, Alike, SameTask
<1>13. Takes(i, "unhashed")
  BY <1>0, <1>3, <1>5, OrderLen DEF Takes, StageOf, Stage
<1>14. "put" \in MainPcs \ {"exit"} /\ "unhashed" # "none"
  BY Zenon DEF MainPcs
<1> QED
  BY <1>0, <1>1, <1>2, <1>3, <1>4, <1>5, <1>9, <1>10, <1>11, <1>12, <1>13, <1>14, MainMoves, Zenon

\* A step about handle h only.
OnlyAt(h) ==
    /\ \A d \in Chans : d[1] # h => SameCore(d) /\ SameTask(d)
    /\ \A g \in Handles : g # h => mc'[g] = mc[g]

LEMMA PlaceMoves ==
    ASSUME AllOK, NEW i \in 1..Len(Order), OnlyAt(Order[i]), NEW t, Takes(i, t),
           HandleOK(t, Order[i])'
    PROVE  AllOK'
<1> SUFFICES ASSUME NEW j \in 1..Len(Order)
             PROVE  HandleOK(StageOf(j), Order[j])'
  BY Zenon DEF AllOK, StageOf
<1>1. CASE j # i
  <2>1. PICK r : r = StageOf(j)
    OBVIOUS
  <2>2. HandleOK(r, Order[j])
    BY <2>1, Zenon DEF AllOK, StageOf
  <2>3. Order[j] # Order[i] /\ Order[j] \in Handles
    BY <1>1, Places, Zenon
  <2>4. SameAt(Order[j])
    BY <2>3, Zenon DEF SameAt, OnlyAt
  <2>5. HandleOK(r, Order[j])'
    BY <2>2, <2>4, HandleSame, Zenon
  <2>6. StageOf(j)' = r
    BY <1>1, <2>1, Zenon DEF Takes
  <2> QED
    BY <2>5, <2>6, Zenon
<1>2. CASE j = i
  BY <1>2, Zenon DEF Takes
<1> QED
  BY <1>1, <1>2, Zenon

\* The last put of a channel of a handle, and of its base.
BothFreed(s, t, c, b) ==
    /\ t \in Mems /\ t.crashed = FALSE /\ t.ch[c] = Freed /\ t.ch[b] = Freed
    /\ \A d \in Chans : d # c /\ d # b => t.ch[d] = s.ch[d]

LEMMA FreeFacts ==
    ASSUME NEW s \in Mems, NEW c \in Chans, NEW b, b = BaseOf(c), ~s.crashed,
           s.ch[c].st \notin Gone, s.ch[c].ref = 1, s.ch[b].st \notin Gone, s.ch[b].ref = 1
    PROVE  BothFreed(s, hashelm_put(s, c), c, b)
<1> USE DEF BothFreed
<1>1. Freed \in ChanTypes /\ s.crashed = FALSE
  BY NoChanType, Zenon DEF Mems
<1>2. CASE c[2] # "UDP"
  <2>1. b = c
    BY <1>2, ChanFacts, Zenon
  <2>2. hashelm_put(s, c) = With(s, c, Freed)
    BY <1>2, PutLast
  <2> QED
    BY <1>1, <2>1, <2>2, WithType
<1>3. CASE c[2] = "UDP"
  <2>1. b # c /\ b \in Chans
    BY <1>3, ChanFacts, Zenon
  <2> DEFINE t == With(s, c, Freed)
  <2>2. t \in Mems /\ t.crashed = FALSE /\ t.ch[c] = Freed /\ \A d \in Chans : d # c => t.ch[d] = s.ch[d]
    BY <1>1, WithType
  <2>3. hashelm_put(s, c) = PutBase(t, b)
    BY <1>3, PutLastWrapper
  <2> HIDE DEF t
  <2>4. t.ch[b].st \notin Gone /\ t.ch[b].ref <= 1
    BY <2>1, <2>2
  <2>5. PutBase(t, b) = With(t, b, Freed)
    BY <2>1, <2>2, <2>4, PutBaseLast, Zenon
  <2>6. With(t, b, Freed) \in Mems /\ With(t, b, Freed).crashed = t.crashed
        /\ With(t, b, Freed).ch[b] = Freed
        /\ \A d \in Chans : d # b => With(t, b, Freed).ch[d] = t.ch[d]
    <3>1. t.ch \in [Chans -> ChanTypes] /\ t.crashed \in BOOLEAN
      BY <2>2, Zenon DEF Mems
    <3>2. With(t, b, Freed).ch = [t.ch EXCEPT ![b] = Freed] /\ With(t, b, Freed).crashed = t.crashed
      BY Zenon DEF With
    <3>3. [t.ch EXCEPT ![b] = Freed] \in [Chans -> ChanTypes]
      BY <1>1, <2>1, <3>1, Zenon
    <3>4. With(t, b, Freed) \in Mems
      BY <3>1, <3>3, Zenon DEF With, Mems
    <3> QED
      BY <2>1, <3>1, <3>2, <3>4, Zenon
  <2> QED
    BY <2>1, <2>2, <2>3, <2>5, <2>6, Zenon
<1> QED
  BY <1>2, <1>3, Zenon

LEMMA UnregisterAlike ==
    ASSUME NEW s \in Mems, NEW c \in Chans, s.ch[c].st \notin Gone
    PROVE  AlikeMem(s, Unregister(s, c)) /\ Unregister(s, c).crashed = s.crashed
<1>1. Touch(s, c) = s
  BY TouchFacts, Zenon
<1>2. CASE s.crashed \/ s.ch[c].st = "RUNNING"
  BY <1>1, <1>2, AlikeSelf, Zenon DEF Unregister
<1>3. CASE ~(s.crashed \/ s.ch[c].st = "RUNNING")
  <2> DEFINE y == [s.ch[c] EXCEPT !.cb = FALSE]
             f == [s.ch EXCEPT ![c] = y]
  <2>1. Unregister(s, c) = [s EXCEPT !.ch = f]
    BY <1>1, <1>3, Zenon DEF Unregister
  <2>2. s.ch[c] \in ChanTypes
    BY Zenon DEF Mems
  <2>3. y \in ChanTypes /\ Alike(s.ch[c], y)
    BY <2>2, OtherFields, Zenon
  <2> HIDE DEF y, f
  <2>4. [s EXCEPT !.ch = f] = [ch |-> f, crashed |-> s.crashed]
    BY DEF Mems
  <2>5. Unregister(s, c) = With(s, c, y)
    BY <2>1, <2>4, Zenon DEF With, f
  <2> QED
    BY <2>3, <2>5, AlikeWith, WithType
<1> QED
  BY <1>2, <1>3, Zenon

\* The rest of hostctrl_free.
LEMMA FreeKeeps ==
    ASSUME Types, AllOK, ~crashed, FreeHandle
    PROVE  Types' /\ AllOK'
<1>1. PICK c : c = AtHand
  OBVIOUS
<1>2. PICK b : b = BaseOf(c)
  OBVIOUS
<1>0. PICK i : i = main.k
  OBVIOUS
<1> DEFINE u == Unregister(Mem, c)
<1>3. main.pc = "put" /\ SetMem(hashelm_put(u, c)) /\ mc' = [mc EXCEPT ![Order[i]] = None]
      /\ main' = [pc |-> IF main.k = 1 THEN "exit" ELSE "stop", k |-> main.k - 1] /\ task' = task
  BY <1>0, <1>1, Zenon DEF FreeHandle
<1>4. StageAtHand = "unhashed" /\ main.pc \in HandPcs
  BY <1>3, Zenon DEF StageAtHand, HandPcs
<1>5. /\ i \in 1..Len(Order) /\ i \in Nat /\ b \in Chans /\ b \in Tasked
      /\ c \in Chans /\ (c[2] # "UDP" => b = c) /\ c # None /\ c[1] = Order[i]
      /\ (c[2] = "UDP" => b # c /\ WrapperOK("unhashed", c, b)) /\ BaseOK("unhashed", b, b = c)
      /\ ch \in [Chans -> ChanTypes] /\ Mem \in Mems /\ Mem.ch = ch
      /\ Mem.crashed = crashed /\ crashed \in BOOLEAN
  BY <1>0, <1>1, <1>2, <1>3, <1>4, HandFacts, Zenon
<1>6. task[b].for = None /\ task[b].pc = "done"
  BY <1>5, Zenon DEF BaseOK, BasePcs, InHand
<1>7. ch[b].ref = 1 /\ ch[b].st \notin Gone
  BY <1>5, Zenon DEF BaseOK, BaseHashed, Gone
<1>8. ch[c].ref = 1 /\ ch[c].st \notin Gone
  <2>1. CASE c[2] = "UDP"
    <3>1. ~WrapperHashed("unhashed") /\ "CREATED" \notin Gone
      BY Zenon DEF WrapperHashed, Gone
    <3>2. ch[c].st = "CREATED" /\ ch[c].ref = 1 + (IF task[b].for = c THEN 1 ELSE 0)
      BY <1>5, <2>1, <3>1, Zenon DEF WrapperOK
    <3> QED
      BY <1>5, <1>6, <3>1, <3>2, WrapperCounts, Zenon
  <2>2. CASE c[2] # "UDP"
    BY <1>5, <1>7, <2>2, Zenon
  <2> QED
    BY <2>1, <2>2, Zenon
<1>9. AlikeMem(Mem, u) /\ u.crashed = Mem.crashed
  BY <1>5, <1>8, UnregisterAlike, Zenon
<1> HIDE DEF u
<1>10. u \in Mems /\ ~u.crashed /\ \A d \in Chans : Alike(ch[d], u.ch[d])
  BY <1>5, <1>9, Zenon DEF AlikeMem
<1>11. u.ch[c].ref = 1 /\ u.ch[c].st \notin Gone /\ u.ch[b].ref = 1 /\ u.ch[b].st \notin Gone
  BY <1>5, <1>7, <1>8, <1>10, Zenon DEF Alike
<1>12. /\ hashelm_put(u, c) \in Mems /\ hashelm_put(u, c).crashed = FALSE
       /\ hashelm_put(u, c).ch[c] = Freed /\ hashelm_put(u, c).ch[b] = Freed
       /\ \A d \in Chans : d # c /\ d # b => hashelm_put(u, c).ch[d] = u.ch[d]
  <2>1. BothFreed(u, hashelm_put(u, c), c, b)
    BY <1>2, <1>5, <1>10, <1>11, FreeFacts, Zenon
  <2> QED
    BY <2>1, Zenon DEF BothFreed
<1>13. /\ ch' \in [Chans -> ChanTypes] /\ crashed' = FALSE /\ ch'[c] = Freed /\ ch'[b] = Freed
       /\ \A d \in Chans : d # c /\ d # b => SameCore(d) /\ SameTask(d)
  <2>1. ch' = hashelm_put(u, c).ch /\ crashed' = hashelm_put(u, c).crashed
    BY <1>3, Zenon DEF SetMem
  <2>2. \A d \in Chans : d # c /\ d # b => ch'[d] = u.ch[d]
    BY <1>12, <2>1, Zenon
  <2>3. \A d \in Chans : d # c /\ d # b => SameCore(d)
    BY <1>10, <2>2, Zenon DEF SameCore
  <2>4. \A d \in Chans : SameTask(d)
    BY <1>3, Zenon DEF SameTask
  <2>5. ch' \in [Chans -> ChanTypes]
    BY <1>12, <2>1, Zenon DEF Mems
  <2> QED
    BY <1>12, <2>1, <2>3, <2>4, <2>5, Zenon
<1>14. Freed.ref = 0 /\ Freed.hashed = FALSE
  BY Zenon DEF Freed, NoChan
<1>15. Order[i] \in Handles /\ mc \in [Handles -> Chans \cup {None}]
  BY <1>5, Places, Zenon DEF Types
<1>16. mc'[Order[i]] = None /\ mc' \in [Handles -> Chans \cup {None}]
       /\ \A g \in Handles : g # Order[i] => mc'[g] = mc[g]
  BY <1>3, <1>15, Zenon
<1>17. \A d \in Chans : d[1] = Order[i] => Unused(d)'
  <2> SUFFICES ASSUME NEW d \in Chans, d[1] = Order[i]
               PROVE  Unused(d)'
    BY Zenon
  <2>1. CASE d = c \/ d = b
    <3>1. d \in Tasked => d = b
      BY <1>5, <2>1, ChanFacts, Zenon
    <3> QED
      BY <1>3, <1>6, <1>13, <1>14, <2>1, <3>1, Zenon DEF Unused
  <2>2. CASE d # c /\ d # b
    <3>1. HasChannel(StageOf(main.k), Order[main.k], AtHand)
      BY <1>4, AtHandFacts, Zenon
    <3>2. Unused(d)
      BY <1>0, <1>1, <1>2, <2>2, <3>1, Zenon DEF HasChannel
    <3> QED
      BY <1>13, <2>2, <3>2, UnusedSame, Zenon
  <2> QED
    BY <2>1, <2>2, Zenon
<1>18. HandleOK("none", Order[i])'
  BY <1>16, <1>17, Zenon DEF HandleOK, HasNone
<1>19. OnlyAt(Order[i])
  <2>1. b[1] = Order[i] /\ c[1] = Order[i]
    BY <1>2, <1>5, ChanFacts, Zenon
  <2> QED
    BY <1>13, <1>16, <2>1, Zenon DEF OnlyAt
<1>20. /\ main'.k = i - 1 /\ (i = 1 => main'.pc = "exit") /\ (i # 1 => main'.pc = "stop")
       /\ i \in Int /\ Len(Order) \in Int
  BY <1>0, <1>3, <1>5, OrderLen
<1>21. Takes(i, "none")
  BY <1>0, <1>3, <1>20 DEF Takes, StageOf, Stage
<1>22. AllOK'
  BY <1>5, <1>18, <1>19, <1>21, PlaceMoves, Zenon
<1>23. Types'
  <2> DEFINE p == IF i = 1 THEN "exit" ELSE "stop"
  <2>1. main' = [pc |-> p, k |-> i - 1]
    BY <1>0, <1>3, Zenon
  <2>2. p \in MainPcs /\ i - 1 \in 0..Len(Order) /\ (p # "exit" => i - 1 \in 1..Len(Order))
    BY <1>5, <1>20 DEF MainPcs
  <2>3. crashed' \in BOOLEAN
    BY <1>13, Zenon
  <2> HIDE DEF p
  <2> QED
    BY <1>3, <1>13, <1>16, <2>1, <2>2, <2>3, MainTypes, Zenon
<1> QED
  BY <1>22, <1>23, Zenon

-----------------------------------------------------------------------------
\* Creation.

\* A channel with its first reference.
Fresh(x, st) == x \in ChanTypes /\ x.ref = 1 /\ ~x.hashed /\ ~x.join /\ ~x.cb /\ x.st = st

LEMMA CreatedFacts ==
    ASSUME NEW s \in Mems, NEW c \in Chans, NEW ok \in BOOLEAN
    PROVE  \E x : /\ Fresh(x, IF ok THEN "INITIALIZED" ELSE "CREATED")
                  /\ Created(s, c, ok) = With(s, c, x)
<1> DEFINE st == IF ok THEN "INITIALIZED" ELSE "CREATED"
           p == c[2] # "BASE"
           x == [NoChan EXCEPT !.ref = 1, !.running = ok, !.peer = p, !.st = st]
           f == [s.ch EXCEPT ![c] = x]
<1>1. st \in States /\ p \in BOOLEAN
  BY Zenon DEF States
<1>2. Created(s, c, ok) = [s EXCEPT !.ch = f]
  BY Zenon DEF Created
<1> HIDE DEF st, p
<1>3. x \in ChanTypes /\ x.ref = 1 /\ x.hashed = FALSE /\ x.join = FALSE /\ x.cb = FALSE /\ x.st = st
  BY <1>1, Zenon DEF NoChan, ChanTypes
<1> HIDE DEF x, f
<1>4. [s EXCEPT !.ch = f] = [ch |-> f, crashed |-> s.crashed]
  BY DEF Mems
<1>5. Created(s, c, ok) = With(s, c, x)
  BY <1>2, <1>4, Zenon DEF With, f
<1> QED
  BY <1>3, <1>5, Zenon DEF Fresh, st

\* message_channel_register_callback.
LEMMA RegisterFacts ==
    ASSUME NEW s \in Mems, NEW c \in Chans, NEW x, NEW st \in {"INITIALIZED", "CREATED"},
           Fresh(x, st)
    PROVE  \E y \in ChanTypes :
              /\ Alike(x, y)
              /\ message_channel_register_callback(With(s, c, x), c) = With(s, c, y)
<1> DEFINE t == With(s, c, x)
           y == [x EXCEPT !.cb = TRUE]
           f == [t.ch EXCEPT ![c] = y]
<1>1. x \in ChanTypes /\ x.st # "RUNNING" /\ ~x.cb
  BY Zenon DEF Fresh
<1>2. t \in Mems /\ t.ch[c] = x /\ t.crashed = s.crashed /\ t.ch = [s.ch EXCEPT ![c] = x]
  BY <1>1, WithType DEF With
<1>3. y \in ChanTypes /\ Alike(x, y)
  BY <1>1, OtherFields, Zenon
<1> HIDE DEF t
<1>4. message_channel_register_callback(t, c) = [t EXCEPT !.ch[c].cb = TRUE]
  BY <1>1, <1>2, Zenon DEF message_channel_register_callback
<1>5. [t EXCEPT !.ch[c].cb = TRUE] = [t EXCEPT !.ch = [t.ch EXCEPT ![c] = [t.ch[c] EXCEPT !.cb = TRUE]]]
  OBVIOUS
<1>6. message_channel_register_callback(t, c) = [t EXCEPT !.ch = f]
  BY <1>2, <1>4, <1>5, Zenon
<1> HIDE DEF y
<1>7. f = [s.ch EXCEPT ![c] = y]
  BY <1>2, Zenon DEF Mems
<1> HIDE DEF f
<1>8. [t EXCEPT !.ch = f] = [ch |-> f, crashed |-> t.crashed]
  BY <1>2 DEF Mems
<1>9. message_channel_register_callback(t, c) = With(s, c, y)
  BY <1>2, <1>6, <1>7, <1>8, Zenon DEF With
<1> QED
  BY <1>3, <1>9, Zenon DEF t

\* A local channel: had, with the callback of the handle, or gone again.
LEMMA GetLocalHas ==
    ASSUME NEW s \in Mems, NEW c \in Chans
    PROVE  \E y \in ChanTypes :
              /\ y.ref = 1 /\ ~y.hashed /\ ~y.join /\ y.st = "INITIALIZED"
              /\ message_channel_register_callback(GetLocal(s, c, TRUE), c) = With(s, c, y)
<1>1. PICK x : Fresh(x, "INITIALIZED") /\ Created(s, c, TRUE) = With(s, c, x)
  <2>1. \E x : Fresh(x, IF TRUE THEN "INITIALIZED" ELSE "CREATED") /\ Created(s, c, TRUE) = With(s, c, x)
    BY CreatedFacts, Zenon
  <2> QED
    BY <2>1, Zenon
<1>2. GetLocal(s, c, TRUE) = With(s, c, x)
  BY <1>1, Zenon DEF GetLocal
<1>3. PICK y \in ChanTypes :
         Alike(x, y) /\ message_channel_register_callback(With(s, c, x), c) = With(s, c, y)
  BY <1>1, RegisterFacts, Zenon
<1> QED
  BY <1>1, <1>2, <1>3, Zenon DEF Alike, Fresh

LEMMA GetLocalFails ==
    ASSUME NEW s \in Mems, NEW c \in Chans, ~s.crashed, c[2] # "UDP"
    PROVE  GetLocal(s, c, FALSE) = With(s, c, Freed)
<1>1. PICK x : Fresh(x, "CREATED") /\ Created(s, c, FALSE) = With(s, c, x)
  <2>1. \E x : Fresh(x, IF FALSE THEN "INITIALIZED" ELSE "CREATED") /\ Created(s, c, FALSE) = With(s, c, x)
    BY CreatedFacts, Zenon
  <2> QED
    BY <2>1, Zenon
<1> DEFINE t == With(s, c, x)
<1>2. x \in ChanTypes /\ x.ref = 1 /\ x.st \notin Gone
  BY <1>1, Zenon DEF Fresh, Gone
<1>3. t \in Mems /\ t.ch[c] = x /\ t.crashed = s.crashed /\ t.ch = [s.ch EXCEPT ![c] = x]
  BY <1>2, WithType DEF With
<1> HIDE DEF t
<1>4. hashelm_put(t, c) = With(t, c, Freed)
  <2>1. t.ch[c].st \notin Gone /\ t.ch[c].ref <= 1 /\ ~t.crashed
    BY <1>2, <1>3
  <2> QED
    BY <1>3, <2>1, PutLast, Zenon
<1>5. [t.ch EXCEPT ![c] = Freed] = [s.ch EXCEPT ![c] = Freed]
  BY <1>3, Zenon DEF Mems
<1>6. With(t, c, Freed) = With(s, c, Freed)
  BY <1>3, <1>5, Zenon DEF With
<1> QED
  BY <1>1, <1>4, <1>6, Zenon DEF GetLocal, t

\* The handle after its creation: it has a channel that has not been started.
LEMMA MadeHandle ==
    ASSUME Types, NEW h \in Handles, HasNone(h), task' = task,
           NEW c \in Chans, c[1] = h, c[2] # "BASE", mc'[h] = c, NEW b, b = BaseOf(c),
           ch' \in [Chans -> ChanTypes],
           ch'[b].ref = 1, ~ch'[b].hashed, ~ch'[b].join, ch'[b].st = "INITIALIZED",
           c[2] = "UDP" => ch'[c].ref = 1 /\ ~ch'[c].hashed /\ ch'[c].st = "CREATED",
           \A d \in Chans : d[1] = h /\ d # c /\ d # b =>
              ch'[d] = Freed \/ SameCore(d)
    PROVE  HandleOK("made", h)'
<1>1. b \in Chans /\ b \in Tasked /\ b[1] = h /\ c # None
  BY ChanFacts, Zenon
<1>2. task[b].for = None /\ task[b].pc \in {"off", "done"}
  BY <1>1, Zenon DEF HasNone, Unused
<1>3. BaseOK("made", b, b = c)'
  BY <1>2, Zenon DEF BaseOK, BasePcs, BaseHashed, InHand
<1>4. c[2] = "UDP" => WrapperOK("made", c, b)'
  <2>1. ~WrapperHashed("made") /\ task'[b].for # c
    BY <1>1, <1>2, Zenon DEF WrapperHashed
  <2>2. 1 + (IF task'[b].for = c THEN 1 ELSE 0) = 1
    BY <2>1, WrapperCounts, Zenon
  <2> QED
    BY <2>1, <2>2, Zenon DEF WrapperOK, WrapperHashed
<1>5. ASSUME NEW d \in Chans, d[1] = h, d # c, d # b
      PROVE  Unused(d)'
  <2>1. Unused(d)
    BY <1>5, Zenon DEF HasNone
  <2>2. CASE SameCore(d)
    <3>1. SameTask(d)
      BY Zenon DEF SameTask
    <3> QED
      BY <2>1, <2>2, <3>1, UnusedSame, Zenon
  <2>3. CASE ch'[d] = Freed
    <3>1. Freed.ref = 0 /\ Freed.hashed = FALSE
      BY Zenon DEF Freed, NoChan
    <3> QED
      BY <2>1, <2>3, <3>1, Zenon DEF Unused
  <2> QED
    BY <1>5, <2>2, <2>3, Zenon
<1>6. HasChannel("made", h, c)'
  BY <1>3, <1>4, <1>5, Zenon DEF HasChannel
<1> QED
  BY <1>6, Zenon DEF HandleOK

\* The handle that main is about to create has nothing.
LEMMA NothingYet ==
    ASSUME Types, AllOK, main.pc = "create", NEW i, i = main.k
    PROVE  HasNone(Order[i]) /\ i \in 1..Len(Order) /\ Order[i] \in Handles
<1>1. i \in 1..Len(Order) /\ i \in Int /\ Len(Order) \in Int /\ Order[i] \in Handles
  <2>1. i \in 1..Len(Order)
    BY Zenon DEF Types
  <2>2. i \in Int /\ Len(Order) \in Int
    BY <2>1, PlaceInt, Zenon
  <2> QED
    BY <2>1, <2>2, Places, Zenon
<1>2. StageOf(i) = "none"
  BY <1>1 DEF StageOf, Stage
<1>3. HandleOK("none", Order[i])
  BY <1>1, <1>2, Zenon DEF AllOK, StageOf
<1> QED
  BY <1>1, <1>3, Zenon DEF HandleOK

\* main, once it has the handle at place i.
LEMMA CreatedKeeps ==
    ASSUME Types, AllOK, main.pc = "create", NEW i, i = main.k,
           NEW c \in Chans, AfterCreate(Order[i], c), task' = task,
           ch' \in [Chans -> ChanTypes], crashed' \in BOOLEAN,
           HandleOK("made", Order[i])',
           \A d \in Chans : d[1] # Order[i] => SameCore(d)
    PROVE  Types' /\ AllOK'
<1>1. i \in 1..Len(Order) /\ i \in Int /\ Len(Order) \in Int /\ Order[i] \in Handles
  <2>1. i \in 1..Len(Order)
    BY Zenon DEF Types
  <2>2. i \in Int /\ Len(Order) \in Int
    BY <2>1, PlaceInt, Zenon
  <2> QED
    BY <2>1, <2>2, Places, ZenonT(40)
<1>2. c # None
  BY ChanFacts, Zenon
<1>3. mc' = [mc EXCEPT ![Order[i]] = c] /\ mc \in [Handles -> Chans \cup {None}]
  BY Zenon DEF AfterCreate, Types
<1>4. mc' \in [Handles -> Chans \cup {None}]
  BY <1>1, <1>3, Zenon
<1>5. "start" \in MainPcs /\ "create" \in MainPcs
  BY Zenon DEF MainPcs
<1>6. OnlyAt(Order[i])
  BY <1>3, Zenon DEF OnlyAt, SameTask
<1>7. CASE i = Len(Order)
  <2>1. main' = [pc |-> "start", k |-> i]
    BY <1>2, <1>7, Zenon DEF AfterCreate
  <2>2. Takes(i, "made")
    BY <1>1, <1>7, <2>1 DEF Takes, StageOf, Stage
  <2>3. i \in 0..Len(Order)
    BY <1>1, NextPlace, Zenon
  <2>4. Types'
    BY <1>1, <1>4, <1>5, <2>1, <2>3, MainTypes, ZenonT(40)
  <2> QED
    BY <1>1, <1>6, <2>2, <2>4, PlaceMoves, Zenon
<1>8. CASE i # Len(Order)
  <2>1. main' = [main EXCEPT !.k = i + 1]
    BY <1>2, <1>8, Zenon DEF AfterCreate
  <2>2. main' = [pc |-> "create", k |-> i + 1]
    BY <2>1, Zenon DEF Types
  <2>3. Takes(i, "made")
    <3>1. main'.pc = "create" /\ main'.k = i + 1
      BY <2>2, Zenon
    <3> QED
      BY <1>1, <3>1, CreateStages, Zenon DEF Takes, StageOf
  <2>4. i + 1 \in 0..Len(Order) /\ i + 1 \in 1..Len(Order)
    BY <1>1, <1>8, NextPlace, Zenon
  <2>5. Types'
    BY <1>4, <1>5, <2>2, <2>4, MainTypes, ZenonT(40)
  <2> QED
    BY <1>1, <1>6, <2>3, <2>5, PlaceMoves, Zenon
<1> QED
  BY <1>7, <1>8, Zenon

LEMMA SetWith ==
    ASSUME NEW s, NEW c, NEW x, NEW t, t = With(s, c, x), SetMem(t)
    PROVE  ch' = [s.ch EXCEPT ![c] = x] /\ crashed' = s.crashed
  BY Zenon DEF SetMem, With

\* Every local handle after the first has a kind of socket that does not fail.
\* With a second one that may have none, main frees channels that were never
\* started, and message_channel_unhash drops their last reference.
OnlyFirstFails ==
    \A k \in 2..Len(Order) : Order[k] \in Remote \/ "NETLINK" \notin Fails \/ "UNIX" \notin Fails

LEMMA LocalKeeps ==
    ASSUME Types, AllOK, ~crashed, OnlyFirstFails, NEW h \in Handles, hostctrl_local_create(h)
    PROVE  Types' /\ AllOK'
<1>1. PICK i : i = main.k
  BY Zenon
<1> DEFINE n == <<h, "NETLINK">>
           u == <<h, "UNIX">>
<1>2. main.pc = "create" /\ Order[i] = h /\ h \notin Remote /\ task' = task
  BY <1>1, Zenon DEF hostctrl_local_create
<1>3. HasNone(h) /\ i \in 1..Len(Order)
  BY <1>1, <1>2, NothingYet, Zenon
<1>4. n \in Chans /\ u \in Chans /\ n # u /\ n[1] = h /\ u[1] = h /\ n[2] = "NETLINK" /\ u[2] = "UNIX"
      /\ BaseOf(n) = n /\ BaseOf(u) = u /\ n # None /\ u # None
  BY <1>2, Zenon DEF Chans, BaseOf, None
<1>5. \A d \in Chans : d[1] = h => d = n \/ d = u
  BY <1>2, ChanFacts, Zenon
<1>6. Mem \in Mems /\ Mem.ch = ch /\ Mem.crashed = crashed /\ ch \in [Chans -> ChanTypes]
      /\ crashed \in BOOLEAN /\ mc \in [Handles -> Chans \cup {None}]
  BY MemType, Zenon DEF Types
<1>7. Freed \in ChanTypes
  BY NoChanType, Zenon
<1>8. PICK nl \in Outcomes("NETLINK"), un \in Outcomes("UNIX") :
         LET s == GetLocal(Mem, n, nl)
             t == IF nl THEN s ELSE GetLocal(s, u, un)
             c == IF nl THEN n ELSE IF un THEN u ELSE None
         IN  /\ SetMem(IF c = None THEN t ELSE message_channel_register_callback(t, c))
             /\ AfterCreate(h, c)
  BY Zenon DEF hostctrl_local_create
<1>9. nl \in BOOLEAN /\ un \in BOOLEAN
  BY ZenonT(40) DEF Outcomes
<1> HIDE DEF n, u
<1>10. CASE nl = TRUE
  <2>1. SetMem(message_channel_register_callback(GetLocal(Mem, n, TRUE), n)) /\ AfterCreate(h, n)
    BY <1>4, <1>8, <1>10, Zenon
  <2>2. PICK y \in ChanTypes :
           /\ y.ref = 1 /\ ~y.hashed /\ ~y.join /\ y.st = "INITIALIZED"
           /\ message_channel_register_callback(GetLocal(Mem, n, TRUE), n) = With(Mem, n, y)
    BY <1>4, <1>6, GetLocalHas, ZenonT(40)
  <2>3. ch' = [ch EXCEPT ![n] = y] /\ crashed' = crashed
    <3>1. ch' = [Mem.ch EXCEPT ![n] = y] /\ crashed' = Mem.crashed
      BY <2>1, <2>2, SetWith, ZenonT(40)
    <3> QED
      BY <1>6, <3>1, Zenon
  <2>4. ch' \in [Chans -> ChanTypes] /\ ch'[n] = y /\ \A d \in Chans : d # n => SameCore(d)
    BY <1>4, <1>6, <2>2, <2>3, Zenon DEF SameCore, Alike
  <2>5. mc'[h] = n
    BY <1>6, <2>1, Zenon DEF AfterCreate
  <2>6. n[2] # "BASE" /\ n[2] # "UDP"
    BY <1>4, Zenon
  <2>7. HandleOK("made", h)'
    BY <1>2, <1>3, <1>4, <2>2, <2>4, <2>5, <2>6, MadeHandle, ZenonT(60)
  <2>8. \A d \in Chans : d[1] # Order[i] => SameCore(d)
    BY <1>2, <1>4, <2>4, Zenon
  <2>9. crashed' \in BOOLEAN
    BY <1>6, <2>3, Zenon
  <2> QED
    BY <1>1, <1>2, <1>4, <2>1, <2>4, <2>7, <2>8, <2>9, CreatedKeeps, Zenon
<1>11. ASSUME nl = FALSE
       PROVE  GetLocal(Mem, n, FALSE) = With(Mem, n, Freed) /\ With(Mem, n, Freed) \in Mems
              /\ With(Mem, n, Freed).ch[n] = Freed /\ With(Mem, n, Freed).crashed = crashed
              /\ \A d \in Chans : d # n => With(Mem, n, Freed).ch[d] = ch[d]
  <2>1. n[2] # "UDP" /\ ~Mem.crashed
    BY <1>4, <1>6, Zenon
  <2>2. GetLocal(Mem, n, FALSE) = With(Mem, n, Freed)
    BY <1>4, <1>6, <2>1, GetLocalFails, Zenon
  <2>3. With(Mem, n, Freed) \in Mems /\ With(Mem, n, Freed).crashed = Mem.crashed
        /\ With(Mem, n, Freed).ch[n] = Freed
        /\ \A d \in Chans : d # n => With(Mem, n, Freed).ch[d] = Mem.ch[d]
    <3>1. Mem \in Mems /\ n \in Chans /\ Freed \in ChanTypes
      BY <1>4, <1>6, <1>7, Zenon
    <3> QED
      BY <3>1, WithType, ZenonT(40)
  <2> QED
    BY <1>6, <2>2, <2>3, Zenon
<1> DEFINE w == With(Mem, n, Freed)
<1>12. CASE nl = FALSE /\ un = TRUE
  <2>1. SetMem(message_channel_register_callback(GetLocal(w, u, TRUE), u)) /\ AfterCreate(h, u)
    BY <1>4, <1>8, <1>11, <1>12, Zenon
  <2>2. PICK y \in ChanTypes :
           /\ y.ref = 1 /\ ~y.hashed /\ ~y.join /\ y.st = "INITIALIZED"
           /\ message_channel_register_callback(GetLocal(w, u, TRUE), u) = With(w, u, y)
    BY <1>4, <1>11, <1>12, GetLocalHas, Zenon
  <2>3. w \in Mems /\ w.ch[n] = Freed /\ w.crashed = crashed /\ \A d \in Chans : d # n => w.ch[d] = ch[d]
    BY <1>11, <1>12, Zenon
  <2> HIDE DEF w
  <2>4. ch' = [w.ch EXCEPT ![u] = y] /\ crashed' = crashed
    <3>1. ch' = [w.ch EXCEPT ![u] = y] /\ crashed' = w.crashed
      BY <2>1, <2>2, SetWith, ZenonT(40)
    <3> QED
      BY <2>3, <3>1, Zenon
  <2>5. ch' \in [Chans -> ChanTypes] /\ ch'[u] = y /\ ch'[n] = Freed
        /\ \A d \in Chans : d # n /\ d # u => SameCore(d)
    BY <1>4, <2>2, <2>3, <2>4, Zenon DEF SameCore, Alike, Mems
  <2>6. mc'[h] = u
    BY <1>6, <2>1, Zenon DEF AfterCreate
  <2>7. u[2] # "BASE" /\ u[2] # "UDP"
    BY <1>4, Zenon
  <2>8. \A d \in Chans : d[1] = h /\ d # u => ch'[d] = Freed \/ SameCore(d)
    BY <2>5, Zenon
  <2>9. HandleOK("made", h)'
    BY <1>2, <1>3, <1>4, <2>2, <2>5, <2>6, <2>7, <2>8, MadeHandle, ZenonT(60)
  <2>10. \A d \in Chans : d[1] # Order[i] => SameCore(d)
    BY <1>2, <1>4, <2>5, Zenon
  <2>11. crashed' \in BOOLEAN
    BY <1>6, <2>4, Zenon
  <2> QED
    BY <1>1, <1>2, <1>4, <2>1, <2>5, <2>9, <2>10, <2>11, CreatedKeeps, Zenon
<1>13. CASE nl = FALSE /\ un = FALSE
  <2>1. SetMem(GetLocal(w, u, FALSE)) /\ AfterCreate(h, None)
    BY <1>8, <1>11, <1>13, Zenon
  <2>2. w \in Mems /\ w.ch[n] = Freed /\ w.crashed = crashed /\ \A d \in Chans : d # n => w.ch[d] = ch[d]
    BY <1>11, <1>13, Zenon
  <2> HIDE DEF w
  <2>3. u[2] # "UDP" /\ ~w.crashed
    BY <1>4, <2>2, Zenon
  <2>4. GetLocal(w, u, FALSE) = With(w, u, Freed)
    BY <1>4, <2>2, <2>3, GetLocalFails, Zenon
  <2>5. ch' = [w.ch EXCEPT ![u] = Freed] /\ crashed' = crashed
    <3>1. ch' = [w.ch EXCEPT ![u] = Freed] /\ crashed' = w.crashed
      BY <2>1, <2>4, SetWith, Zenon
    <3> QED
      BY <2>2, <3>1, Zenon
  <2>6. ch' \in [Chans -> ChanTypes] /\ ch'[u] = Freed /\ ch'[n] = Freed
        /\ \A d \in Chans : d # n /\ d # u => SameCore(d)
    BY <1>4, <1>7, <2>2, <2>5, Zenon DEF SameCore, Alike, Mems
  <2>7. i = 1
    <3>1. "NETLINK" \in Fails /\ "UNIX" \in Fails
      BY <1>8, <1>13, Zenon DEF Outcomes
    <3>2. i \notin 2..Len(Order)
      BY <1>2, <3>1, Zenon DEF OnlyFirstFails
    <3> QED
      BY <1>3, <3>2, OrderLen
  <2>8. mc' = [mc EXCEPT ![h] = None] /\ main' = [pc |-> "exit", k |-> 0]
    BY <1>1, <2>1, <2>7 DEF AfterCreate
  <2>9. HandleOK("none", h)'
    <3>1. Freed.ref = 0 /\ Freed.hashed = FALSE
      BY Zenon DEF Freed, NoChan
    <3>2. \A d \in Chans : d[1] = h => Unused(d)'
      BY <1>2, <1>3, <1>5, <2>6, <3>1, Zenon DEF HasNone, Unused
    <3>3. mc'[h] = None
      BY <1>6, <2>8, Zenon
    <3> QED
      BY <3>2, <3>3, Zenon DEF HandleOK, HasNone
  <2>10. OnlyAt(Order[i])
    BY <1>2, <1>4, <1>6, <2>6, <2>8, Zenon DEF OnlyAt, SameTask
  <2>11. Takes(i, "none")
    BY <1>1, <1>2, <2>7, <2>8 DEF Takes, StageOf, Stage
  <2>12. AllOK'
    BY <1>2, <1>3, <2>9, <2>10, <2>11, PlaceMoves, Zenon
  <2>13. "exit" \in MainPcs /\ 0 \in 0..Len(Order) /\ crashed' \in BOOLEAN
         /\ mc' \in [Handles -> Chans \cup {None}]
    <3>1. "exit" \in MainPcs
      BY Zenon DEF MainPcs
    <3>2. 0 \in 0..Len(Order)
      BY FirstPlace, Zenon
    <3>3. crashed' \in BOOLEAN
      BY <1>6, <2>5, Zenon
    <3>4. mc' \in [Handles -> Chans \cup {None}]
      BY <1>6, <2>8, Zenon
    <3> QED
      BY <3>1, <3>2, <3>3, <3>4, Zenon
  <2>14. Types'
    BY <1>2, <2>6, <2>8, <2>13, MainTypes, Zenon
  <2> QED
    BY <2>12, <2>14, Zenon
<1> QED
  BY <1>9, <1>10, <1>12, <1>13, Zenon

\* Both channels of a remote handle, before the outcome is looked at.
LEMMA UdpCreated ==
    ASSUME NEW s \in Mems, NEW c \in Chans, NEW b \in Chans, b = BaseOf(c), NEW ok \in BOOLEAN
    PROVE  \E x, z :
              /\ Fresh(x, IF ok THEN "INITIALIZED" ELSE "CREATED") /\ Fresh(z, "CREATED")
              /\ message_channel_udp_create(s, c, ok)
                 = IF ok THEN With(With(s, b, x), c, z)
                   ELSE hashelm_put(hashelm_put(With(With(s, b, x), c, z), b), c)
<1>1. PICK x : /\ Fresh(x, IF ok THEN "INITIALIZED" ELSE "CREATED")
               /\ Created(s, b, ok) = With(s, b, x)
  BY CreatedFacts, Zenon
<1> DEFINE z == [NoChan EXCEPT !.ref = 1, !.peer = TRUE, !.st = "CREATED"]
           m == With(s, b, x)
           f == [m.ch EXCEPT ![c] = z]
           t == [Created(s, b, ok) EXCEPT !.ch[c] = z]
<1>2. Fresh(z, "CREATED")
  BY Zenon DEF Fresh, NoChan, ChanTypes, States
<1>3. x \in ChanTypes
  BY <1>1, Zenon DEF Fresh
<1>4. m \in Mems
  BY <1>3, WithType, Zenon
<1>5. t = [m EXCEPT !.ch = f]
  BY <1>1, Zenon
<1>6. message_channel_udp_create(s, c, ok) = IF ok THEN t ELSE hashelm_put(hashelm_put(t, b), c)
  BY Zenon DEF message_channel_udp_create
<1> HIDE DEF m, f, t, z
<1>7. [m EXCEPT !.ch = f] = [ch |-> f, crashed |-> m.crashed]
  BY <1>4 DEF Mems
<1>8. t = With(m, c, z)
  BY <1>5, <1>7, Zenon DEF With, f
<1> QED
  BY <1>1, <1>2, <1>6, <1>8, Zenon DEF m

\* A put of a channel that is gone.
LEMMA PutGone ==
    ASSUME NEW s \in Mems, NEW c, s.ch[c].st \in Gone
    PROVE  PutBase(s, c).crashed /\ PutBase(s, c).ch = s.ch /\ PutBase(s, c) \in Mems
  BY TouchFacts, Zenon DEF PutBase

\* The base channel of a remote handle fails: its memory is touched after it is
\* freed.
LEMMA UdpFails ==
    ASSUME NEW s \in Mems, NEW c \in Chans, NEW b \in Chans, b = BaseOf(c), c[2] = "UDP", ~s.crashed
    PROVE  /\ message_channel_udp_create(s, c, FALSE).crashed
           /\ \A d \in Chans : d # c /\ d # b => message_channel_udp_create(s, c, FALSE).ch[d] = s.ch[d]
<1>1. PICK x, z : /\ Fresh(x, "CREATED") /\ Fresh(z, "CREATED")
                  /\ message_channel_udp_create(s, c, FALSE)
                     = hashelm_put(hashelm_put(With(With(s, b, x), c, z), b), c)
  <2>1. \E x, z : /\ Fresh(x, IF FALSE THEN "INITIALIZED" ELSE "CREATED") /\ Fresh(z, "CREATED")
                  /\ message_channel_udp_create(s, c, FALSE)
                     = IF FALSE THEN With(With(s, b, x), c, z)
                       ELSE hashelm_put(hashelm_put(With(With(s, b, x), c, z), b), c)
    BY UdpCreated, Zenon
  <2> QED
    BY <2>1, Zenon
<1>2. x \in ChanTypes /\ z \in ChanTypes /\ x.ref = 1 /\ z.ref = 1 /\ x.st \notin Gone /\ z.st \notin Gone
      /\ Freed \in ChanTypes /\ Freed.st \in Gone
  BY <1>1, NoChanType, Zenon DEF Fresh, Gone, Freed, NoChan
<1>3. b # c /\ b[2] # "UDP"
  BY ChanFacts, Zenon DEF BaseOf
<1> DEFINE m == With(s, b, x)
           t == With(m, c, z)
           t1 == With(t, b, Freed)
           t2 == With(t1, c, Freed)
<1>4. m \in Mems /\ m.ch[b] = x /\ m.crashed = s.crashed /\ \A d \in Chans : d # b => m.ch[d] = s.ch[d]
  <2>1. x \in ChanTypes
    BY <1>2, Zenon
  <2> QED
    BY <2>1, WithType
<1> HIDE DEF m
<1>5. t \in Mems /\ t.ch[c] = z /\ t.crashed = m.crashed /\ \A d \in Chans : d # c => t.ch[d] = m.ch[d]
  <2>1. m \in Mems /\ z \in ChanTypes
    BY <1>2, <1>4, Zenon
  <2> QED
    BY <2>1, WithType
<1> HIDE DEF t
<1>6. t1 \in Mems /\ t1.ch[b] = Freed /\ t1.crashed = t.crashed
      /\ \A d \in Chans : d # b => t1.ch[d] = t.ch[d]
  <2>1. t \in Mems /\ Freed \in ChanTypes
    BY <1>2, <1>5, Zenon
  <2> QED
    BY <2>1, WithType
<1>7. t.ch[b].st \notin Gone /\ t.ch[b].ref <= 1 /\ ~t.crashed
  BY <1>2, <1>3, <1>4, <1>5
<1>8. hashelm_put(t, b) = t1
  BY <1>3, <1>5, <1>7, PutLast, Zenon
<1> HIDE DEF t1
<1>9. t2 \in Mems /\ t2.ch[c] = Freed /\ t2.crashed = t1.crashed
      /\ \A d \in Chans : d # c => t2.ch[d] = t1.ch[d]
  <2>1. t1 \in Mems /\ Freed \in ChanTypes
    BY <1>2, <1>6, Zenon
  <2> QED
    BY <2>1, WithType
<1>10. t1.ch[c].st \notin Gone /\ t1.ch[c].ref <= 1 /\ ~t1.crashed
  BY <1>2, <1>3, <1>5, <1>6, <1>7
<1>11. hashelm_put(t1, c) = PutBase(t2, b)
  BY <1>6, <1>10, PutLastWrapper, Zenon
<1> HIDE DEF t2
<1>12. t2.ch[b].st \in Gone
  BY <1>2, <1>3, <1>6, <1>9, Zenon
<1>13. PutBase(t2, b).crashed /\ PutBase(t2, b).ch = t2.ch
  BY <1>9, <1>12, PutGone, Zenon
<1>14. message_channel_udp_create(s, c, FALSE) = PutBase(t2, b)
  BY <1>1, <1>8, <1>11, Zenon DEF t, m
<1>15. \A d \in Chans : d # c /\ d # b => t2.ch[d] = s.ch[d]
  BY <1>4, <1>5, <1>6, <1>9
<1> QED
  BY <1>13, <1>14, <1>15, Zenon

\* hostctrl_remote_create_specific: the handle is there, or memory that was freed
\* has been touched.
LEMMA RemoteKeeps ==
    ASSUME Types, AllOK, ~crashed, NEW h \in Handles, hostctrl_remote_create_specific(h)
    PROVE  \/ Types' /\ AllOK'
           \/ crashed' /\ TaskOnLiveChannel'
<1>1. PICK i : i = main.k
  OBVIOUS
<1>2. PICK c : c = <<h, "UDP">>
  BY Zenon
<1>3. PICK b : b = <<h, "BASE">>
  BY ZenonT(40)
<1>4. main.pc = "create" /\ Order[i] = h /\ h \in Remote /\ task' = task
  BY <1>1, Zenon DEF hostctrl_remote_create_specific
<1>5. HasNone(h)
  BY <1>1, <1>4, NothingYet, Zenon
<1>6. c \in Chans /\ b \in Chans /\ b = BaseOf(c) /\ c # b /\ c[1] = h /\ b[1] = h /\ c[2] = "UDP"
      /\ b \in Tasked /\ c \notin Tasked
  BY <1>2, <1>3, <1>4, Zenon DEF Chans, BaseOf, Tasked
<1>7. \A d \in Chans : d[1] = h => d = c \/ d = b
  BY <1>2, <1>3, <1>4, ChanFacts, Zenon
<1>8. Mem \in Mems /\ Mem.ch = ch /\ Mem.crashed = crashed /\ ch \in [Chans -> ChanTypes]
      /\ crashed \in BOOLEAN /\ mc \in [Handles -> Chans \cup {None}]
  BY MemType, Zenon DEF Types
<1>9. PICK ok \in BOOLEAN :
         /\ SetMem(IF ok
                   THEN message_channel_register_callback(message_channel_udp_create(Mem, c, ok), c)
                   ELSE message_channel_udp_create(Mem, c, ok))
         /\ AfterCreate(h, IF ok THEN c ELSE None)
  BY <1>2, ZenonT(40) DEF hostctrl_remote_create_specific, Outcomes
<1>10. CASE ok = TRUE
  <2>1. SetMem(message_channel_register_callback(message_channel_udp_create(Mem, c, TRUE), c))
        /\ AfterCreate(h, c)
    BY <1>9, <1>10, Zenon
  <2>2. PICK x, z : /\ Fresh(x, "INITIALIZED") /\ Fresh(z, "CREATED")
                    /\ message_channel_udp_create(Mem, c, TRUE) = With(With(Mem, b, x), c, z)
    <3>1. \E x, z : /\ Fresh(x, IF TRUE THEN "INITIALIZED" ELSE "CREATED") /\ Fresh(z, "CREATED")
                    /\ message_channel_udp_create(Mem, c, TRUE)
                       = IF TRUE THEN With(With(Mem, b, x), c, z)
                         ELSE hashelm_put(hashelm_put(With(With(Mem, b, x), c, z), b), c)
      BY <1>6, <1>8, UdpCreated, ZenonT(40)
    <3> QED
      BY <3>1, Zenon
  <2> DEFINE m == With(Mem, b, x)
  <2>3. x \in ChanTypes /\ x.ref = 1 /\ ~x.hashed /\ ~x.join /\ x.st = "INITIALIZED"
        /\ z.ref = 1 /\ ~z.hashed /\ z.st = "CREATED"
    BY <2>2, Zenon DEF Fresh
  <2>4. m \in Mems /\ m.ch[b] = x /\ m.crashed = crashed /\ \A d \in Chans : d # b => m.ch[d] = ch[d]
    <3>1. m \in Mems /\ m.ch[b] = x /\ m.crashed = Mem.crashed
          /\ \A d \in Chans : d # b => m.ch[d] = Mem.ch[d]
      <4>1. Mem \in Mems /\ b \in Chans /\ x \in ChanTypes
        BY <1>6, <1>8, <2>3, Zenon
      <4> QED
        BY <4>1, WithType, ZenonT(40)
    <3> HIDE DEF m
    <3> QED
      BY <1>8, <3>1, Zenon
  <2> HIDE DEF m
  <2>5. PICK y \in ChanTypes :
           Alike(z, y) /\ message_channel_register_callback(With(m, c, z), c) = With(m, c, y)
    BY <1>6, <2>2, <2>4, RegisterFacts, Zenon
  <2>6. SetMem(With(m, c, y))
    BY <2>1, <2>2, <2>5, Zenon DEF m
  <2>7. ch' = [m.ch EXCEPT ![c] = y] /\ crashed' = m.crashed
    BY <2>6, SetWith, ZenonT(40)
  <2>8. ch' \in [Chans -> ChanTypes] /\ ch'[b] = x /\ ch'[c] = y
        /\ \A d \in Chans : d # b /\ d # c => SameCore(d)
    BY <1>6, <2>4, <2>5, <2>7, Zenon DEF Mems, SameCore, Alike
  <2>9. y.ref = 1 /\ ~y.hashed /\ y.st = "CREATED"
    BY <2>3, <2>5, Zenon DEF Alike
  <2>10. mc'[h] = c
    BY <1>8, <2>1, Zenon DEF AfterCreate
  <2>11. c[2] # "BASE" /\ \A d \in Chans : d[1] = h /\ d # c /\ d # b => ch'[d] = Freed \/ SameCore(d)
    BY <1>6, <2>8, Zenon
  <2>12. HandleOK("made", h)'
    BY <1>4, <1>5, <1>6, <2>3, <2>8, <2>9, <2>10, <2>11, MadeHandle, ZenonT(60)
  <2>13. \A d \in Chans : d[1] # Order[i] => SameCore(d)
    BY <1>4, <1>6, <2>8, Zenon
  <2>14. crashed' \in BOOLEAN
    BY <1>8, <2>4, <2>7, Zenon
  <2> QED
    BY <1>1, <1>4, <1>6, <2>1, <2>8, <2>12, <2>13, <2>14, CreatedKeeps, Zenon
<1>11. CASE ok = FALSE
  <2>1. SetMem(message_channel_udp_create(Mem, c, FALSE))
    BY <1>9, <1>11, Zenon
  <2>2. ~Mem.crashed
    BY <1>8, Zenon
  <2>3. message_channel_udp_create(Mem, c, FALSE).crashed
        /\ \A d \in Chans : d # c /\ d # b => message_channel_udp_create(Mem, c, FALSE).ch[d] = Mem.ch[d]
    BY <1>6, <1>8, <2>2, UdpFails, ZenonT(40)
  <2>4. crashed' /\ \A d \in Chans : d # c /\ d # b => ch'[d] = ch[d]
    BY <1>8, <2>1, <2>3, Zenon DEF SetMem
  <2>5. TaskOnLiveChannel
    BY AllOKLive, Zenon
  <2>6. task[b].pc \in {"off", "done"}
    BY <1>5, <1>6, Zenon DEF HasNone, Unused
  <2>7. TaskOnLiveChannel'
    <3> SUFFICES ASSUME NEW d \in Tasked, task'[d].pc \notin {"off", "done"}
                 PROVE  ch'[d].st \in {"RUNNING", "STOPPED"}
      BY Zenon DEF TaskOnLiveChannel
    <3>1. d # b /\ d # c /\ d \in Chans
      BY <1>4, <1>6, <2>6, TargetFacts, Zenon
    <3> QED
      BY <1>4, <2>4, <2>5, <3>1, Zenon DEF TaskOnLiveChannel
  <2> QED
    BY <2>4, <2>7, Zenon
<1> QED
  BY <1>10, <1>11, Zenon

-----------------------------------------------------------------------------
\* The invariant holds at the start and in every step.

LEMMA InitHolds == Init => IInv
<1> SUFFICES ASSUME Init PROVE IInv
  OBVIOUS
<1>1. \A c \in Chans : ch[c] = NoChan
  BY Zenon DEF Init
<1>2. \A c \in Tasked : task[c] = NoTask
  BY Zenon DEF Init
<1>3. NoTask.pc = "off" /\ NoTask.for = None
  BY Zenon DEF NoTask
<1>4. NoTask \in TaskTypes
  BY Zenon DEF NoTask, TaskTypes, TaskPcs
<1>5. NoChan.ref = 0 /\ ~NoChan.hashed
  BY Zenon DEF NoChan
<1>6. \A c \in Chans : Unused(c)
  BY <1>1, <1>2, <1>3, <1>5, Zenon DEF Unused
<1>7. \A h \in Handles : mc[h] = None
  BY Zenon DEF Init
<1>8. \A h \in Handles : HasNone(h)
  BY <1>6, <1>7, Zenon DEF HasNone
<1>9. \A j \in 1..Len(Order) : Stage(main.pc, main.k, j) = "none"
  <2>1. main.pc = "create" /\ main.k = 1
    BY Zenon DEF Init
  <2> QED
    BY <2>1 DEF Stage
<1>10. AllOK
  BY <1>8, <1>9, Places, Zenon DEF AllOK, HandleOK
<1>11. Types
  <2>1. ch \in [Chans -> ChanTypes]
    BY NoChanType, Zenon DEF Init
  <2>2. task \in [Tasked -> TaskTypes]
    BY <1>4, Zenon DEF Init
  <2>3. \A c \in Tasked : task[c].pc # "lock"
    BY <1>2, <1>3, Zenon
  <2>4. mc \in [Handles -> Chans \cup {None}]
    BY Zenon DEF Init
  <2>5. /\ main \in [pc : MainPcs, k : 0..Len(Order)]
        /\ main.k \in 1..Len(Order) /\ crashed \in BOOLEAN
    <3>1. main = [pc |-> "create", k |-> 1] /\ crashed = FALSE
      BY Zenon DEF Init
    <3>2. "create" \in MainPcs /\ 1 \in 0..Len(Order) /\ 1 \in 1..Len(Order)
      BY OrderLen DEF MainPcs
    <3>3. main.k = 1
      BY <3>1, Zenon
    <3> QED
      BY <3>1, <3>2, <3>3, Zenon
  <2> QED
    BY <2>1, <2>2, <2>3, <2>4, <2>5, Zenon DEF Types
<1> QED
  BY <1>10, <1>11, AllOKLive, Zenon DEF IInv

\* What the others do leaves the channels, the threads and main alone.
LEMMA OutsideKeeps ==
    ASSUME IInv, UNCHANGED <<ch, task, main, mc, crashed>>
    PROVE  IInv'
<1>1. TaskOnLiveChannel'
  BY Zenon DEF IInv, TaskOnLiveChannel
<1>2. ASSUME ~crashed' PROVE Types' /\ AllOK'
  <2>1. Types /\ AllOK
    BY <1>2, Zenon DEF IInv
  <2>2. Types'
    BY <2>1, Zenon DEF Types
  <2>3. AllOK'
    BY <2>1, SameState, Zenon
  <2> QED
    BY <2>2, <2>3, Zenon
<1> QED
  BY <1>1, <1>2, Zenon DEF IInv

LEMMA KeptIsInvariant ==
    ASSUME Types', AllOK'
    PROVE  IInv'
<1>1. (Types /\ AllOK)' => TaskOnLiveChannel'
  BY AllOKLive, PTL
<1> QED
  BY <1>1, Zenon DEF IInv

LEMMA NextKeeps ==
    ASSUME OnlyFirstFails, IInv, [Next]_vars
    PROVE  IInv'
<1>1. CASE UNCHANGED vars
  BY <1>1, OutsideKeeps, Zenon DEF vars
<1>2. CASE Next
  <2>1. ~crashed /\ Types /\ AllOK
    BY <1>2, Zenon DEF Next, IInv
  <2>2. CASE MainStep
    <3>1. CASE \E h \in Handles : hostctrl_local_create(h)
      BY <2>1, <3>1, LocalKeeps, KeptIsInvariant, Zenon
    <3>2. CASE \E h \in Handles : hostctrl_remote_create_specific(h)
      <4>1. (Types' /\ AllOK') \/ (crashed' /\ TaskOnLiveChannel')
        BY <2>1, <3>2, RemoteKeeps, Zenon
      <4>2. CASE Types' /\ AllOK'
        BY <4>2, KeptIsInvariant, Zenon
      <4>3. CASE crashed' /\ TaskOnLiveChannel'
        BY <4>3, Zenon DEF IInv
      <4> QED
        BY <4>1, <4>2, <4>3, Zenon
    <3>3. CASE message_channel_base_start
      BY <2>1, <3>3, StartKeeps, KeptIsInvariant, Zenon
    <3>4. CASE HashBase
      BY <2>1, <3>4, HashBaseKeeps, KeptIsInvariant, Zenon
    <3>5. CASE HashChannel
      BY <2>1, <3>5, HashChannelKeeps, KeptIsInvariant, Zenon
    <3>6. CASE MainSent
      BY <2>1, <3>6, SendingMainKeeps, KeptIsInvariant, Zenon
    <3>7. CASE message_channel_base_stop
      BY <2>1, <3>7, StopKeeps, KeptIsInvariant, Zenon
    <3>8. CASE StopJoin
      BY <2>1, <3>8, JoinKeeps, KeptIsInvariant, Zenon
    <3>9. CASE UnhashBase
      BY <2>1, <3>9, UnhashBaseKeeps, KeptIsInvariant, Zenon
    <3>10. CASE UnhashChannel
      BY <2>1, <3>10, UnhashChannelKeeps, KeptIsInvariant, Zenon
    <3>11. CASE FreeHandle
      BY <2>1, <3>11, FreeKeeps, KeptIsInvariant, Zenon
    <3> QED
      BY <2>2, <3>1, <3>2, <3>3, <3>4, <3>5, <3>6, <3>7, <3>8, <3>9, <3>10, <3>11, Zenon DEF MainStep
  <2>3. CASE MainExits \/ \E h \in Handles : MainSend(h)
    BY <2>1, <2>3, SendingMainKeeps, KeptIsInvariant, Zenon
  <2>4. ASSUME NEW c \in Tasked, TaskStep(c) \/ TaskInterrupted(c)
        PROVE  IInv'
    <3>1. CASE \/ TaskStart(c) \/ TaskLoop(c) \/ TaskRecv(c) \/ TaskPoll(c)
               \/ TaskInterrupted(c) \/ TaskCall(c) \/ TaskEnd(c)
      BY <2>1, <3>1, QuietTaskKeeps, KeptIsInvariant, Zenon
    <3>2. CASE TaskSend(c) \/ TaskSent(c)
      BY <2>1, <3>2, SendingTaskKeeps, KeptIsInvariant, Zenon
    <3>3. CASE TaskDispatch(c) \/ TaskPut(c) \/ TaskStop(c)
      BY <2>1, <3>3, TurningTaskKeeps, KeptIsInvariant, Zenon
    <3> QED
      BY <2>4, <3>1, <3>2, <3>3, Zenon DEF TaskStep
  <2>5. CASE \E c \in Tasked : ctrl_recvmsg(c) \/ Datagram(c)
    BY <2>5, OutsideKeeps, Zenon DEF ctrl_recvmsg, Datagram
  <2>6. CASE \E m \in {"serval", "other"} : ctrl_sendmsg(m)
    BY <2>6, OutsideKeeps, Zenon DEF ctrl_sendmsg
  <2> QED
    BY <1>2, <2>2, <2>3, <2>4, <2>5, <2>6, Zenon DEF Next
<1> QED
  BY <1>1, <1>2, Zenon

LEMMA IInvHolds ==
    ASSUME OnlyFirstFails
    PROVE  Spec => []IInv
<1>1. IInv /\ [Next]_vars => IInv'
  BY NextKeeps, Zenon
<1> QED
  BY <1>1, InitHolds, PTL DEF Spec

\* hashelm_hold and hashelm_put are paired on every path through the channels:
\* a channel has as many references as its count says, from message_channel_get
\* through start, dispatch, stop and hostctrl_free, for any number of handles,
\* messages and sends, as long as only the first handle can be without a socket.
THEOREM RefsStayExact == OnlyFirstFails => (Spec => []RefsExact)
<1> SUFFICES ASSUME OnlyFirstFails PROVE Spec => []RefsExact
  OBVIOUS
<1>1. IInv => RefsExact
  BY AllOKRefs, Zenon DEF IInv, RefsExact
<1> QED
  BY <1>1, IInvHolds, PTL

\* No thread of message_channel_base_task is left on a channel whose memory has
\* been freed: message_channel_base_stop joins it before hostctrl_free drops the
\* references, whatever the thread is doing when it is stopped.
THEOREM ThreadsOnLiveChannels == OnlyFirstFails => (Spec => []TaskOnLiveChannel)
<1> SUFFICES ASSUME OnlyFirstFails PROVE Spec => []TaskOnLiveChannel
  OBVIOUS
<1>1. IInv => TaskOnLiveChannel
  BY Zenon DEF IInv
<1> QED
  BY <1>1, IInvHolds, PTL

=============================================================================
