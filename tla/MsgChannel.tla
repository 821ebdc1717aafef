----------------------------- MODULE MsgChannel -----------------------------
(***************************************************************************)
(* The message channels of libservalctrl: their creation, start and stop   *)
(* (message_channel*.c), their reference counts (common/hashtable.c), the  *)
(* thread that receives for each of them (message_channel_base_task), the  *)
(* host control handles on top of them (hostctrl.c), and the control       *)
(* socket of the user-level stack at the other end of a UNIX channel       *)
(* (stack/userlevel/ctrl.c).                                               *)
(*                                                                         *)
(* The program around them is main of servd: it creates the handles in     *)
(* order, starts them in the opposite order, sends, and frees them in the  *)
(* opposite order, while the tasks of the channels run callbacks that send *)
(* on handles of their own choice.                                         *)
(*                                                                         *)
(* A local handle has a netlink channel or, if there is none, a UNIX one.  *)
(* A remote handle has a UDP channel, which wraps a base channel that owns *)
(* the socket and the thread.  The contents of messages, what the servd    *)
(* callbacks do with them, and allocation failures are left out.           *)
(***************************************************************************)
EXTENDS Integers, Sequences, FiniteSets, Functions

CONSTANTS
    Order,      \* the handles in the order in which they are created
    Remote,     \* the handles of remote host control; the others are local
    Fails,      \* the kinds of channel whose socket may fail to be created
    Uses,       \* Uses[h]: the handles that the callbacks of h send on
    MaxMsgs,    \* messages that arrive (bound)
    MaxInbox    \* messages in a socket buffer (bound)

Handles == Range(Order)
Kinds == {"NETLINK", "UNIX", "UDP", "BASE"}

\* The channels a handle can have: each is created at most once.
Chans == (Remote \X {"UDP", "BASE"}) \cup ((Handles \ Remote) \X {"NETLINK", "UNIX"})
Tasked == {c \in Chans : c[2] # "UDP"}
None == <<"none", "none">>
Main == <<"main", "main">>

ASSUME MsgChannelAssumption ==
    /\ Order \in Seq(Handles) /\ IsInjective(Order) /\ Order # << >>
    /\ Remote \subseteq Handles /\ Fails \subseteq Kinds
    /\ Uses \in [Handles -> SUBSET Handles]
    /\ MaxMsgs \in Nat /\ MaxInbox \in Nat \ {0}

VARIABLES
    ch,       \* ch[c]: the fields of channel c
    task,     \* task[c]: the thread of c: where it is, whether recvfrom has room
              \* for the sender's IP address, the channel the message in hand is
              \* for, the handle its callback sends on, the lock it holds
    main,     \* main: where it is, and the place in Order of the handle at hand
    mc,       \* mc[h]: the channel of handle h (hc->mc)
    inbox,    \* inbox[c]: the messages in the socket of c
    hello,    \* the UNIX channels whose messages the stack has yet to read
    clients,  \* ctrl_clients of the user-level stack
    left,     \* messages yet to arrive
    crashed   \* something touched memory that was freed

vars == <<ch, task, main, mc, inbox, hello, clients, left, crashed>>

NoChan == [st |-> "NONE", ref |-> 0, hashed |-> FALSE, running |-> FALSE,
           join |-> FALSE, cb |-> FALSE, peer |-> FALSE, sig |-> FALSE, lock |-> None]
NoTask == [pc |-> "off", room |-> FALSE, for |-> None, on |-> "none", holds |-> None]

States == {"NONE", "CREATED", "INITIALIZED", "RUNNING", "STOPPED", "FREED"}

Init ==
    /\ ch = [c \in Chans |-> NoChan]
    /\ task = [c \in Tasked |-> NoTask]
    /\ main = [pc |-> "create", k |-> 1]
    /\ mc = [h \in Handles |-> None]
    /\ inbox = [c \in Tasked |-> << >>]
    /\ hello = {}
    /\ clients = {}
    /\ left = MaxMsgs
    /\ crashed = FALSE

-----------------------------------------------------------------------------
\* References and memory.  s is a pair of the channels and the crash flag.

Mem == [ch |-> ch, crashed |-> crashed]

SetMem(s) == ch' = s.ch /\ crashed' = s.crashed

\* The base channel of a UDP channel (mcu->base); any other is its own base.
BaseOf(c) == IF c[2] = "UDP" THEN <<c[1], "BASE">> ELSE c

\* s, after a use of channel c.
Touch(s, c) == IF s.ch[c].st \in {"NONE", "FREED"} THEN [s EXCEPT !.crashed = TRUE] ELSE s

\* hashelm_put of a channel without a wrapper.  At zero it is finalized: the
\* socket is closed and the memory freed.
PutBase(s, c) ==
    LET t == Touch(s, c)
    IN  IF t.crashed THEN t
        ELSE IF s.ch[c].ref > 1 THEN [t EXCEPT !.ch[c].ref = @ - 1]
        ELSE [t EXCEPT !.ch[c] = [NoChan EXCEPT !.st = "FREED"]]

\* hashelm_put with free_wrapper and the finalize function of the channel: the
\* last reference to a UDP channel drops the one it has to its base.
hashelm_put(s, c) ==
    LET t == PutBase(s, c)
    IN  IF c[2] = "UDP" /\ t.ch[c].st = "FREED" /\ s.ch[c].st # "FREED"
        THEN PutBase(t, BaseOf(c)) ELSE t

hashelm_hold(s, c) == [s EXCEPT !.ch[c].ref = @ + 1]

\* message_channel_hash: the table of channels has a reference of its own.
message_channel_hash(s, c) ==
    IF s.ch[c].hashed THEN s ELSE [hashelm_hold(s, c) EXCEPT !.ch[c].hashed = TRUE]

\* message_channel_unhash.  It drops the reference whether c is hashed or not.
message_channel_unhash(s, c) ==
    LET t == Touch(s, c)
    IN  IF t.crashed THEN t ELSE hashelm_put([t EXCEPT !.ch[c].hashed = FALSE], c)

-----------------------------------------------------------------------------
\* main: creation.

\* message_channel_base_create and message_channel_base_initialize: the channel
\* has one reference, and its socket is open unless it fails.
Created(s, c, ok) ==
    [s EXCEPT !.ch[c] = [NoChan EXCEPT !.ref = 1, !.running = ok, !.peer = c[2] # "BASE",
                                       !.st = IF ok THEN "INITIALIZED" ELSE "CREATED"]]

\* message_channel_get_generic for a local channel: dropped again on failure.
GetLocal(s, c, ok) ==
    IF ok THEN Created(s, c, TRUE) ELSE hashelm_put(Created(s, c, FALSE), c)

\* message_channel_udp_create.  When the base channel fails, both references are
\* dropped, and with the last one to the wrapper another one to the base.
message_channel_udp_create(s, c, ok) ==
    LET b == BaseOf(c)
        t == [Created(s, b, ok) EXCEPT
                 !.ch[c] = [NoChan EXCEPT !.ref = 1, !.peer = TRUE, !.st = "CREATED"]]
    IN  IF ok THEN t ELSE hashelm_put(hashelm_put(t, b), c)

Outcomes(kind) == IF kind \in Fails THEN BOOLEAN ELSE {TRUE}

\* hostctrl_create: the callback is registered, if the channel is not running.
message_channel_register_callback(s, c) ==
    IF s.ch[c].st # "RUNNING" /\ ~s.ch[c].cb THEN [s EXCEPT !.ch[c].cb = TRUE] ELSE s

\* What main does once the handle at hand exists, and when it cannot be had:
\* then it frees the ones before it, none of which has been started.
AfterCreate(h, c) ==
    /\ mc' = [mc EXCEPT ![h] = c]
    /\ main' = IF c = None
               THEN [pc |-> IF main.k = 1 THEN "exit" ELSE "stop", k |-> main.k - 1]
               ELSE IF main.k = Len(Order) THEN [pc |-> "start", k |-> main.k]
               ELSE [main EXCEPT !.k = @ + 1]

\* hostctrl_local_create: a netlink channel or else a UNIX channel, which says
\* hello to the stack (message_channel_unix_initialize).
hostctrl_local_create(h) ==
    /\ main.pc = "create" /\ Order[main.k] = h /\ h \notin Remote
    /\ \E nl \in Outcomes("NETLINK"), un \in Outcomes("UNIX") :
          LET n == <<h, "NETLINK">>
              u == <<h, "UNIX">>
              s == GetLocal(Mem, n, nl)
              t == IF nl THEN s ELSE GetLocal(s, u, un)
              c == IF nl THEN n ELSE IF un THEN u ELSE None
          IN  /\ SetMem(IF c = None THEN t ELSE message_channel_register_callback(t, c))
              /\ hello' = IF c = u THEN hello \cup {u} ELSE hello
              /\ AfterCreate(h, c)
    /\ UNCHANGED <<task, inbox, clients, left>>

\* hostctrl_remote_create_specific.
hostctrl_remote_create_specific(h) ==
    /\ main.pc = "create" /\ Order[main.k] = h /\ h \in Remote
    /\ \E ok \in Outcomes("BASE") :
          LET c == <<h, "UDP">>
              s == message_channel_udp_create(Mem, c, ok)
          IN  /\ SetMem(IF ok THEN message_channel_register_callback(s, c) ELSE s)
              /\ AfterCreate(h, IF ok THEN c ELSE None)
    /\ UNCHANGED <<task, inbox, hello, clients, left>>

-----------------------------------------------------------------------------
\* main: start (hostctrl_start, message_channel_start).

AtHand == mc[Order[main.k]]

\* message_channel_base_start: the thread may run before the channel is in the
\* table of channels.
message_channel_base_start ==
    LET b == BaseOf(AtHand)
    IN  /\ main.pc = "start" /\ ch[b].lock = None /\ ch[b].st = "INITIALIZED"
        /\ ch' = [ch EXCEPT ![b].st = "RUNNING", ![b].join = TRUE]
        /\ task' = [task EXCEPT ![b] = [NoTask EXCEPT !.pc = "start"]]
        /\ main' = [main EXCEPT !.pc = "hashbase"]
        /\ UNCHANGED <<mc, inbox, hello, clients, left, crashed>>

\* The rest of message_channel_start, for the base and then for the wrapper.
HashBase ==
    /\ main.pc = "hashbase"
    /\ SetMem(message_channel_hash(Mem, BaseOf(AtHand)))
    /\ main' = [main EXCEPT !.pc = "hash"]
    /\ UNCHANGED <<task, mc, inbox, hello, clients, left>>

HashChannel ==
    /\ main.pc = "hash"
    /\ SetMem(message_channel_hash(Mem, AtHand))
    /\ main' = IF main.k = 1 THEN [pc |-> "run", k |-> Len(Order)]
               ELSE [pc |-> "start", k |-> main.k - 1]
    /\ UNCHANGED <<task, mc, inbox, hello, clients, left>>

-----------------------------------------------------------------------------
\* Sending, from main or from a callback.

\* The channel lock that a send on c takes: none on a UNIX channel
\* (message_channel_base_send), its own on a netlink channel
\* (netlink_send_internal), that of the base on a UDP channel.
LockOf(c) == IF c[2] = "UNIX" THEN None ELSE BaseOf(c)

CanSend(c) == LockOf(c) # None => ch[LockOf(c)].lock = None

\* message_channel_udp_send, message_channel_send and their like, up to the
\* socket call: the base has the peer of the channel while the lock is held.
SendBegin(s, c, who) ==
    LET t == Touch(Touch(s, c), BaseOf(c))
        b == LockOf(c)
    IN  IF t.crashed \/ b = None THEN t
        ELSE [t EXCEPT !.ch[b].lock = who, !.ch[b].peer = TRUE]

SendEnd(s, b) ==
    IF b = None THEN s
    ELSE LET t == Touch(s, b)
         IN  IF t.crashed THEN t
             ELSE [t EXCEPT !.ch[b].lock = None, !.ch[b].peer = b[2] # "BASE"]

\* A UNIX channel's message tells the stack of the channel again.
Hello(c) == hello' = IF c[2] = "UNIX" THEN hello \cup {c} ELSE hello

MainSend(h) ==
    /\ main.pc = "run" /\ mc[h] # None /\ CanSend(mc[h])
    /\ SetMem(SendBegin(Mem, mc[h], Main))
    /\ main' = [pc |-> "sending", k |-> CHOOSE k \in DOMAIN Order : Order[k] = h]
    /\ Hello(mc[h])
    /\ UNCHANGED <<task, mc, inbox, clients, left>>

MainSent ==
    /\ main.pc = "sending"
    /\ SetMem(SendEnd(Mem, LockOf(AtHand)))
    /\ main' = [pc |-> "run", k |-> Len(Order)]
    /\ UNCHANGED <<task, mc, inbox, hello, clients, left>>

-----------------------------------------------------------------------------
\* main: hostctrl_free, from the last handle to the first.

MainExits ==
    /\ main.pc = "run"
    /\ main' = [pc |-> "stop", k |-> Len(Order)]
    /\ UNCHANGED <<ch, task, mc, inbox, hello, clients, left, crashed>>

\* Mutant: the lock is kept until the thread has been joined.
StopRequestKeepsLock(s, b) ==
    [s EXCEPT !.ch[b].running = FALSE, !.ch[b].sig = TRUE, !.ch[b].lock = Main]

\* message_channel_base_stop: a running channel is told to stop, and the lock is
\* dropped; on one that is not running it is kept.
StopRequest(s, b) ==
    IF s.ch[b].st = "RUNNING"
    THEN [s EXCEPT !.ch[b].running = FALSE, !.ch[b].sig = TRUE]
    ELSE [s EXCEPT !.ch[b].lock = Main]

message_channel_base_stop ==
    LET b == BaseOf(AtHand)
    IN  /\ main.pc = "stop" /\ ch[b].lock = None
        /\ SetMem(IF Touch(Mem, b).crashed THEN Touch(Mem, b) ELSE StopRequest(Mem, b))
        /\ main' = [main EXCEPT !.pc = "join"]
        /\ UNCHANGED <<task, mc, inbox, hello, clients, left>>

\* Mutant: the thread is not joined.
JoinedNever(b) == TRUE

\* The end of message_channel_base_stop: the thread is joined, the lock dropped
\* (in the first case a second time, whoever holds it).
Joined(b) == ch[b].join => task[b].pc = "done"

StopJoin ==
    LET b == BaseOf(AtHand)
    IN  /\ main.pc = "join" /\ Joined(b)
        /\ ch' = [ch EXCEPT ![b].lock = None]
        /\ main' = [main EXCEPT !.pc = IF AtHand[2] = "UDP" THEN "unhashbase" ELSE "unhash"]
        /\ UNCHANGED <<task, mc, inbox, hello, clients, left, crashed>>

\* message_channel_stop after the join, for the base and for the wrapper.
UnhashBase ==
    /\ main.pc = "unhashbase"
    /\ SetMem(message_channel_unhash(Mem, BaseOf(AtHand)))
    /\ main' = [main EXCEPT !.pc = "unhash"]
    /\ UNCHANGED <<task, mc, inbox, hello, clients, left>>

UnhashChannel ==
    /\ main.pc = "unhash"
    /\ SetMem(message_channel_unhash(Mem, AtHand))
    /\ main' = [main EXCEPT !.pc = "put"]
    /\ UNCHANGED <<task, mc, inbox, hello, clients, left>>

\* The rest of hostctrl_free: message_channel_unregister_callback, which does
\* nothing to a running channel, the put, and the free of the handle.
Unregister(s, c) ==
    LET t == Touch(s, c)
    IN  IF t.crashed \/ s.ch[c].st = "RUNNING" THEN t ELSE [t EXCEPT !.ch[c].cb = FALSE]

FreeHandle ==
    /\ main.pc = "put"
    /\ SetMem(hashelm_put(Unregister(Mem, AtHand), AtHand))
    /\ inbox' = [c \in Tasked |-> IF ch'[c].st = "FREED" THEN << >> ELSE inbox[c]]
    /\ mc' = [mc EXCEPT ![Order[main.k]] = None]
    /\ main' = [pc |-> IF main.k = 1 THEN "exit" ELSE "stop", k |-> main.k - 1]
    /\ UNCHANGED <<task, hello, clients, left>>

-----------------------------------------------------------------------------
\* message_channel_base_task: the thread of channel c.

Goto(c, pc) == task' = [task EXCEPT ![c].pc = pc]

\* thread_start and message_channel_internal_on_start.
TaskStart(c) ==
    /\ task[c].pc = "start"
    /\ Goto(c, "loop")
    /\ UNCHANGED <<ch, main, mc, inbox, hello, clients, left, crashed>>

\* The head of the loop, and message_channel_base_recv up to recvfrom: if the
\* base has a peer at this moment, there is only room for an address of its
\* length, a serviceID without the IP address behind it.
HasRoom(c) == c[2] = "BASE" => ~ch[c].peer

TaskLoop(c) ==
    /\ task[c].pc = "loop"
    /\ task' = [task EXCEPT ![c].pc = IF ch[c].running THEN "recv" ELSE "stop",
                            ![c].room = HasRoom(c)]
    /\ UNCHANGED <<ch, main, mc, inbox, hello, clients, left, crashed>>

\* recvfrom, in message_channel_base_recv and netlink_recv.  A netlink message
\* that is not for Serval is thrown away with -1 and whatever errno is.
TaskRecv(c) ==
    /\ task[c].pc = "recv"
    /\ IF inbox[c] = << >>
       THEN Goto(c, "poll") /\ UNCHANGED <<ch, inbox>>
       ELSE /\ inbox' = [inbox EXCEPT ![c] = Tail(@)]
            /\ \/ /\ Head(inbox[c]) = "serval"
                  /\ Goto(c, "dispatch")
                  /\ UNCHANGED ch
               \/ /\ Head(inbox[c]) = "other"
                  /\ Goto(c, "poll")
                  /\ UNCHANGED ch
               \/ /\ Head(inbox[c]) = "other"
                  /\ ch' = [ch EXCEPT ![c].running = FALSE]
                  /\ Goto(c, "loop")
    /\ UNCHANGED <<main, mc, hello, clients, left, crashed>>

\* poll: a message goes before the exit signal.
TaskPoll(c) ==
    /\ task[c].pc = "poll"
    /\ inbox[c] # << >> \/ ch[c].sig
    /\ ch' = IF inbox[c] = << >> THEN [ch EXCEPT ![c].running = FALSE] ELSE ch
    /\ Goto(c, "loop")
    /\ UNCHANGED <<main, mc, inbox, hello, clients, left, crashed>>

\* poll fails, interrupted by a signal that is delivered to this thread.
TaskInterrupted(c) ==
    /\ task[c].pc = "poll"
    /\ ch' = [ch EXCEPT ![c].running = FALSE]
    /\ Goto(c, "loop")
    /\ UNCHANGED <<main, mc, inbox, hello, clients, left, crashed>>

\* The recv_callback of the channel.  On a UDP base it looks up the channel of
\* the sender and holds it (message_channel_udp_base_recv_callback); a message
\* for a channel that is not in the table yet is lost.
Target(c) == IF c[2] = "BASE" THEN <<c[1], "UDP">> ELSE c

Dispatched(s, c) == IF c[2] = "BASE" THEN hashelm_hold(s, Target(c)) ELSE s

TaskDispatch(c) ==
    /\ task[c].pc = "dispatch"
    /\ IF c[2] = "BASE" /\ ~ch[Target(c)].hashed
       THEN Goto(c, "loop") /\ UNCHANGED ch
       ELSE /\ task' = [task EXCEPT ![c].pc = "call", ![c].for = Target(c)]
            /\ ch' = Dispatched(Mem, c).ch
    /\ UNCHANGED <<main, mc, inbox, hello, clients, left, crashed>>

\* message_channel_internal_recv_callback, hostctrl_recv and the ctrlmsg_recv
\* of the handle (local_ctrlmsg_recv, remote_ctrlmsg_recv): the callback is
\* called if there is one and, on a remote handle, if the sender's IP address
\* is there.  It may send on one of the handles it uses.
Answers(c) ==
    ch[task[c].for].cb /\ (c[1] \in Remote => task[c].room)

TaskCall(c) ==
    /\ task[c].pc = "call"
    /\ \/ Goto(c, "put")
       \/ /\ Answers(c)
          /\ \E h \in Uses[c[1]] :
                task' = [task EXCEPT ![c].pc = "lock", ![c].on = h]
    /\ UNCHANGED <<ch, main, mc, inbox, hello, clients, left, crashed>>

\* The callback's send: the handle may be gone.
TaskSend(c) ==
    LET g == mc[task[c].on]
    IN  /\ task[c].pc = "lock"
        /\ IF g = None
           THEN /\ crashed' = TRUE
                /\ UNCHANGED <<ch, task, hello>>
           ELSE /\ CanSend(g)
                /\ SetMem(SendBegin(Mem, g, c))
                /\ task' = [task EXCEPT ![c].pc = "sent", ![c].holds = LockOf(g)]
                /\ Hello(g)
        /\ UNCHANGED <<main, mc, inbox, clients, left>>

TaskSent(c) ==
    /\ task[c].pc = "sent"
    /\ SetMem(SendEnd(Mem, task[c].holds))
    /\ task' = [task EXCEPT ![c].pc = "put", ![c].holds = None, ![c].on = "none"]
    /\ UNCHANGED <<main, mc, inbox, hello, clients, left>>

\* Mutant: the channel that was looked up is not put.
DoneKeeps(s, c) == s

\* The end of the recv_callback: message_put, and message_channel_put of the
\* channel that was looked up.
Done(s, c) == IF c[2] = "BASE" THEN hashelm_put(s, task[c].for) ELSE s

TaskPut(c) ==
    /\ task[c].pc = "put"
    /\ SetMem(Done(Mem, c))
    /\ task' = [task EXCEPT ![c].pc = "loop", ![c].for = None, ![c].room = FALSE]
    /\ UNCHANGED <<main, mc, inbox, hello, clients, left>>

\* The end of the task: the state, then message_channel_internal_on_stop.
TaskStop(c) ==
    /\ task[c].pc = "stop"
    /\ ch' = [ch EXCEPT ![c].st = "STOPPED"]
    /\ Goto(c, "end")
    /\ UNCHANGED <<main, mc, inbox, hello, clients, left, crashed>>

TaskEnd(c) ==
    /\ task[c].pc = "end"
    /\ Goto(c, "done")
    /\ UNCHANGED <<ch, main, mc, inbox, hello, clients, left, crashed>>

-----------------------------------------------------------------------------
\* The other ends.

Open(c) == ch[c].st \in {"INITIALIZED", "RUNNING", "STOPPED"}

Arrives(cs, m) ==
    inbox' = [c \in Tasked |-> IF c \in cs /\ Len(inbox[c]) < MaxInbox
                               THEN Append(inbox[c], m) ELSE inbox[c]]

\* ctrl_recvmsg of the user-level stack: a sender it does not know is a client
\* from now on.
ctrl_recvmsg(c) ==
    /\ c \in hello
    /\ hello' = hello \ {c}
    /\ clients' = clients \cup {c}
    /\ UNCHANGED <<ch, task, main, mc, inbox, left, crashed>>

\* ctrl_sendmsg: to every client of the user-level stack, or to every netlink
\* socket; a client whose socket is gone is forgotten (ctrl_send_to_all).
ctrl_sendmsg(m) ==
    LET listeners == {c \in Tasked : c[2] = "NETLINK" /\ Open(c)}
                     \cup {c \in clients : Open(c)}
    IN  /\ left > 0
        /\ \A c \in clients : Open(c) => Len(inbox[c]) < MaxInbox  \* else sendto waits
        /\ m = "other" => \A c \in listeners : c[2] = "NETLINK"
        /\ Arrives(listeners, m)
        /\ clients' = {c \in clients : Open(c)}
        /\ left' = left - 1
        /\ UNCHANGED <<ch, task, main, mc, hello, crashed>>

\* A datagram from the peer of a remote handle.
Datagram(c) ==
    /\ left > 0 /\ c[2] = "BASE" /\ Open(c)
    /\ Arrives({c}, "serval")
    /\ left' = left - 1
    /\ UNCHANGED <<ch, task, main, mc, hello, clients, crashed>>

-----------------------------------------------------------------------------
MainStep ==
    \/ \E h \in Handles : hostctrl_local_create(h) \/ hostctrl_remote_create_specific(h)
    \/ message_channel_base_start \/ HashBase \/ HashChannel
    \/ MainSent
    \/ message_channel_base_stop \/ StopJoin \/ UnhashBase \/ UnhashChannel \/ FreeHandle

TaskStep(c) ==
    \/ TaskStart(c) \/ TaskLoop(c) \/ TaskRecv(c) \/ TaskPoll(c) \/ TaskDispatch(c)
    \/ TaskCall(c) \/ TaskSend(c) \/ TaskSent(c) \/ TaskPut(c)
    \/ TaskStop(c) \/ TaskEnd(c)

Next ==
    /\ ~crashed
    /\ \/ MainStep \/ MainExits
       \/ \E h \in Handles : MainSend(h)
       \/ \E c \in Tasked : \/ TaskStep(c) \/ TaskInterrupted(c)
                            \/ ctrl_recvmsg(c) \/ Datagram(c)
       \/ \E m \in {"serval", "other"} : ctrl_sendmsg(m)

Spec == Init /\ [][Next]_vars

\* Where a thread can take a step.
MainReady ==
    /\ ~crashed
    /\ \/ main.pc \in {"create", "hashbase", "hash", "sending", "unhashbase", "unhash", "put"}
       \/ main.pc \in {"start", "stop"} /\ ch[BaseOf(AtHand)].lock = None
       \/ main.pc = "join" /\ Joined(BaseOf(AtHand))

TaskReady(c) ==
    /\ ~crashed
    /\ \/ task[c].pc \in {"start", "loop", "recv", "dispatch", "call", "sent", "put", "stop", "end"}
       \/ task[c].pc = "poll" /\ (inbox[c] # << >> \/ ch[c].sig)
       \/ task[c].pc = "lock" /\ (mc[task[c].on] = None \/ CanSend(mc[task[c].on]))

\* The threads run whenever they can.  main need not ever leave its loop.
FairSpec ==
    /\ Spec
    /\ []<>~MainReady \/ []<><<main' # main>>_vars
    /\ \A c \in Tasked : []<>~TaskReady(c) \/ []<><<task'[c] # task[c]>>_vars

-----------------------------------------------------------------------------
\* Properties.

\* The references to channel c: of the table of channels, of a handle, of its
\* wrapper, and of threads that have a message for it in hand.
Held(c) ==
    (IF ch[c].hashed THEN 1 ELSE 0)
    + Cardinality({h \in Handles : mc[h] = c})
    + Cardinality({d \in Chans : d # c /\ BaseOf(d) = c /\ ch[d].ref > 0})
    + Cardinality({d \in Tasked : d # c /\ task[d].for = c})

\* The reference count of a channel is the number of references there are to
\* it: hashelm_hold and hashelm_put are paired on every path through creation,
\* lookup, dispatch and hostctrl_free, so a channel is freed with its last user
\* and none is left behind (common/hashtable.c:165-176).
RefsExact ==
    ~crashed => \A c \in Chans : ch[c].ref = Held(c)

\* A thread of message_channel_base_task works on memory that is allocated: a
\* channel is freed only after its thread has been joined or has never been
\* started, although the thread has no reference to it.
TaskOnLiveChannel ==
    \A c \in Tasked : task[c].pc \notin {"off", "done"} => ch[c].st \in {"RUNNING", "STOPPED"}

\* message_channel_base_stop and hostctrl_free return: main gets to its end, even
\* if the threads it waits for are in callbacks that wait for the lock of the
\* channel that is being stopped, and whichever way they stopped.
FreeReturns == main.pc = "stop" ~> (main.pc = "exit" \/ crashed)

\* service_registration is called for a service at a remote host: no message of
\* a remote handle is without the address of its sender, which
\* remote_ctrlmsg_recv drops (hostctrl_remote.c:116-117).
SenderKnown ==
    \A c \in Tasked : task[c].pc = "call" /\ c[1] \in Remote => task[c].room

=============================================================================
