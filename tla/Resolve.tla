------------------------------ MODULE Resolve ------------------------------
(***************************************************************************)
(* The way of an unconnected datagram: sendto on a UDP socket of the host  *)
(* Client (serval_udp.c), late binding of the serviceID to one or several  *)
(* targets (serval_sal_transmit_skb), the delay queue in which a DELAY     *)
(* rule puts it until a controller gives its verdict (delay_queue.c), IP   *)
(* output (serval_ipv4.c), and resolution on every host that receives it   *)
(* (serval_sal_rcv), which hands it to a bound socket or forwards it with  *)
(* a source extension that records the hosts it has passed.                *)
(*                                                                         *)
(* Senders hold the lock of their socket; a verdict runs the same transmit *)
(* code under queue_lock and without the socket's lock.  Both use the      *)
(* fields inet_daddr and peer_srvid of the socket, so transmit is cut into *)
(* the steps between which another processor can change them.  A received  *)
(* packet is handled in one step: it touches only its own data and the     *)
(* rules, which a write lock protects.  The matching of prefixes is in     *)
(* ServiceTable; here an entry is the list of targets of its first set.    *)
(***************************************************************************)
EXTENDS Integers, Sequences, FiniteSets, SequencesExt

CONSTANTS
    Hosts,        \* hosts; a host also stands for its address
    Client,       \* the host of the senders
    Svcs,         \* serviceIDs
    Socks,        \* unconnected datagram sockets of Client
    Closers,      \* the sockets that may be closed
    Configs,      \* how a behaviour starts: the build, "kernel" or "user", a
                  \* value of sysctl_resolution_mode, "ANYCAST" or "ALL", the
                  \* hosts with sysctl_sal_forward set, the rules of every host
    RuleLists,    \* RuleLists[b][h][v]: what an entry may be changed to, by build
    Advisory,     \* addresses that sendto may name
    Behaved,      \* the controller removes DELAY rules before it releases
    MaxSends,     \* bound: calls of sendto
    Repeaters,    \* bound: the sockets that send more than once
    MaxRules,     \* bound: changes of rules
    MaxStarts,    \* MaxStarts[b], bound: controllers that start, by build
    Unplugged,    \* bound: the hosts whose device may go down
    QueueMax,     \* QueueMax[b]: queue_maxlen, by build
    RcvMax        \* datagrams the receive queue of a socket takes

NoAddr == "0.0.0.0"
Forward(h) == [type |-> "FORWARD", dst |-> h]
Demux == [type |-> "DEMUX", dst |-> NoAddr]
Delay == [type |-> "DELAY", dst |-> NoAddr]
Drop == [type |-> "DROP", dst |-> NoAddr]
NoEntry == <<[type |-> "NONE", dst |-> NoAddr]>>   \* service_find found none
Targets == {Forward(h) : h \in Hosts} \cup {Demux, Delay, Drop}

ASSUME ResolveAssumption ==
    /\ Client \in Hosts /\ Unplugged \subseteq Hosts
    /\ \A x \in Configs : /\ x.build \in {"kernel", "user"}
                           /\ x.mode \in {"ANYCAST", "ALL"}
                           /\ x.forwards \subseteq Hosts
    /\ Closers \cup Repeaters \subseteq Socks
    /\ Behaved \in BOOLEAN
    /\ {MaxSends, MaxRules, RcvMax} \subseteq Nat

VARIABLES
    build,     \* which build of the stack runs
    mode,      \* sysctl_resolution_mode of Client
    forwards,  \* the hosts with sysctl_sal_forward set
    rules,     \* rules[h][v]: targets of the first set of the entry, or NoEntry
    kept,      \* kept[h]: entries whose read lock was never given back
    dev,       \* dev[h]: the device of the forwarding rules: up, down, gone
    crashed,   \* hosts whose stack has crashed
    sk,        \* sk[s]: a socket of Client
    th,        \* th[t]: the thread that sends on socket t, or the controller's
    qlock,     \* who holds queue_lock while it transmits
    queue,     \* delay_queue
    queue_id,
    peer_pid,  \* 0, or the controller that gave the first verdict
    ctl,       \* the controller: its pid (0 if none runs), the notices it has
               \* not answered
    orphans,   \* a controller has left packets behind that nobody answers for
    net,       \* packets on their way, a set
    rcvq,      \* rcvq[h]: sk_receive_queue of the socket bound on host h
    alive,     \* the skbs that are allocated
    lost,      \* skbs that nobody holds and nobody freed
    got,       \* got[m]: how often recvmsg has returned message m
    n          \* counters of the bounds

netvars == <<net, rcvq, got>>
hostvars == <<build, mode, forwards, rules, kept, dev, crashed>>
queuevars == <<qlock, queue, queue_id, peer_pid, ctl, orphans>>
vars == <<hostvars, sk, th, queuevars, netvars, alive, lost, n>>

\* An skb is known by a number, free again once it is freed; msg is the call of
\* sendto it carries the data of.
Skb(num, msg) == [num |-> num, msg |-> msg]
NoSkb == Skb(0, 0)
NewSkb(msg) == Skb(Min(1..(Cardinality(alive) + 1) \ {k.num : k \in alive}), msg)

Ctl == "controller"
Threads == Socks \cup {Ctl}
Idle == [pc |-> "idle", sk |-> NoAddr, skb |-> NoSkb, cskb |-> NoSkb,
         todo |-> << >>, svc |-> NoAddr, id |-> 0, to |-> NoAddr]

Init ==
    /\ \E x \in Configs : /\ build = x.build /\ mode = x.mode
                          /\ forwards = x.forwards /\ rules = x.rules
    /\ kept = [h \in Hosts |-> {}]
    /\ dev = [h \in Hosts |-> "up"]
    /\ crashed = {}
    /\ sk = [s \in Socks |-> [daddr |-> NoAddr, peer |-> NoAddr,
                              state |-> "open", refs |-> 1]]
    /\ th = [t \in Threads |-> Idle]
    /\ qlock = NoAddr /\ queue = << >> /\ queue_id = 1 /\ peer_pid = 0
    /\ ctl = [pid |-> 0, notices |-> << >>]
    /\ orphans = FALSE
    /\ net = {} /\ rcvq = [h \in Hosts |-> << >>] /\ got = [m \in 1..MaxSends |-> 0]
    /\ alive = {} /\ lost = {}
    /\ n = [send |-> 0, rule |-> 0, start |-> 0]

-----------------------------------------------------------------------------
\* Choice of targets (service.c).

\* service_iter_init fails on an entry without targets.
IterFails(list) == list = << >>

\* The targets service_iter_next returns: all of the first set, or the one
\* that the weighted sample hits (weights are not zero).
service_iter(m, list) ==
    IF m = "ALL" THEN {list} ELSE {<<list[i]>> : i \in 1..Len(list)}

\* A change of an entry takes its write lock: it waits for the transmits that
\* iterate over it, and forever for a read lock that was kept.
Readers(h) == kept[h] \cup
    (IF h = Client THEN {th[t].svc : t \in {u \in Threads :
                             th[u].pc \in {"loop", "out", "ticket", "enter"}
                             /\ th[u].svc # NoAddr}}
     ELSE {})

HasDelay(h) == \E v \in Svcs : rules[h][v] # NoEntry
                               /\ Delay \in ToSet(rules[h][v])

-----------------------------------------------------------------------------
\* Sending (serval_udp.c, serval_sal_transmit_skb).

Up(h) == h \notin crashed

\* sock_put: the socket is freed with its last reference.
sock_put(s, k) == [s EXCEPT !.refs = @ - k,
                            !.state = IF s.refs = k THEN "freed" ELSE @]

\* The thread leaves transmit; the verdict then gives up queue_lock and frees
\* the entry with its reference.  skt is what transmit made of the sockets.
Leave(t, skt) ==
    /\ th' = [th EXCEPT ![t] = Idle]
    /\ IF t = Ctl
       THEN /\ qlock' = NoAddr
            /\ sk' = [skt EXCEPT ![th[t].sk] = sock_put(@, 1)]
       ELSE qlock' = qlock /\ sk' = skt
    /\ UNCHANGED <<queue, queue_id, peer_pid, ctl, orphans>>

\* sendto(v), with the address a if it is not NoAddr; serval_udp_transmit_skb.
serval_udp_sendmsg(s, v, a) ==
    LET k == NewSkb(n.send + 1) IN
    /\ Up(Client) /\ th[s] = Idle /\ sk[s].state = "open" /\ n.send < MaxSends
    /\ s \in Repeaters \/ sk[s].peer = NoAddr
    /\ sk' = [sk EXCEPT ![s].peer = v, ![s].daddr = IF a = NoAddr THEN @ ELSE a]
    /\ th' = [th EXCEPT ![s] = [Idle EXCEPT !.pc = "begin", !.sk = s, !.skb = k]]
    /\ alive' = alive \cup {k}
    /\ n' = [n EXCEPT !.send = @ + 1]
    /\ UNCHANGED <<hostvars, queuevars, netvars, lost>>

\* Transmit up to its loop: straight to IP if the socket has an address,
\* otherwise over the targets of the entry of peer_srvid.
TransmitBegin(t) ==
    LET s == th[t].sk
        v == sk[s].peer
        list == rules[Client][v]
    IN /\ Up(Client) /\ th[t].pc = "begin"
       /\ \/ /\ sk[s].daddr # NoAddr
             /\ th' = [th EXCEPT ![t].pc = "out", ![t].cskb = th[t].skb,
                                 ![t].to = sk[s].daddr]
             /\ UNCHANGED <<sk, queuevars, kept, alive>>
          \/ /\ sk[s].daddr = NoAddr /\ list = NoEntry
             /\ alive' = alive \ {th[t].skb}
             /\ Leave(t, sk)
             /\ UNCHANGED kept
          \/ /\ sk[s].daddr = NoAddr /\ list # NoEntry /\ IterFails(list)
             /\ alive' = alive \ {th[t].skb}
             /\ kept' = [kept EXCEPT ![Client] = @ \cup {v}]
             /\ Leave(t, sk)
          \/ /\ sk[s].daddr = NoAddr /\ list # NoEntry /\ ~IterFails(list)
             /\ \E l \in service_iter(mode, list) :
                    th' = [th EXCEPT ![t].pc = "loop", ![t].todo = l,
                                     ![t].svc = v]
             /\ UNCHANGED <<sk, queuevars, kept, alive>>
       /\ UNCHANGED <<build, mode, forwards, rules, dev, crashed, netvars, lost, n>>

\* One target: the last one gets the skb, the others a copy.  A device that is
\* gone makes the loop go round with the same target and the freed skb.
TransmitTarget(t) ==
    LET s == th[t].sk
        target == Head(th[t].todo)
        last == Len(th[t].todo) = 1
        c == IF last THEN th[t].skb
             ELSE NewSkb(th[t].skb.msg)
        next == [th[t] EXCEPT !.todo = Tail(@), !.cskb = c]
    IN /\ Up(Client) /\ th[t].pc = "loop" /\ th[t].todo # << >>
       /\ \/ /\ target = Delay
             /\ th' = [th EXCEPT ![t] = [next EXCEPT !.pc = "ticket"]]
             /\ alive' = alive \cup {c}
             /\ UNCHANGED <<sk, crashed>>
          \/ /\ target = Drop
             /\ th' = [th EXCEPT ![t] = [next EXCEPT !.cskb = NoSkb]]
             /\ alive' = alive \ {c}
             /\ UNCHANGED <<sk, crashed>>
          \/ /\ target.type = "FORWARD" /\ dev[Client] = "gone"
             /\ crashed' = crashed \cup {Client}
             /\ alive' = alive \ {c}
             /\ UNCHANGED <<sk, th>>
          \/ /\ \/ target = Demux
                \/ target.type = "FORWARD" /\ dev[Client] # "gone"
             /\ LET a == IF target = Demux THEN Client ELSE target.dst IN
                /\ sk' = [sk EXCEPT ![s].daddr = a]
                /\ th' = [th EXCEPT ![t] = [next EXCEPT !.pc = "out", !.to = a]]
             /\ alive' = alive \cup {c}
             /\ UNCHANGED crashed
       /\ UNCHANGED <<build, mode, forwards, rules, kept, dev, queuevars, netvars, lost, n>>

\* The SAL header with what the socket now says (serval_sal_build_header).
serval_sal_build_header(s, c) ==
    [skb |-> c, svc |-> sk[s].peer, saddr |-> Client,
     daddr |-> IF sk[s].daddr = NoAddr THEN Client ELSE sk[s].daddr,
     src |-> << >>]

\* serval_ipv4_xmit: the user-level build needs an output device, which a
\* packet to an address the application named has not.
serval_ipv4_xmit(t, p) ==
    IF build = "user" /\ th[t].svc = NoAddr
    THEN net' = net /\ alive' = alive \ {p.skb}
    ELSE net' = net \cup {p} /\ UNCHANGED alive

TransmitOut(t) ==
    LET s == th[t].sk IN
    /\ Up(Client) /\ th[t].pc = "out"
    /\ serval_ipv4_xmit(t, serval_sal_build_header(s, th[t].cskb))
    /\ IF th[t].svc = NoAddr THEN Leave(t, sk)
       ELSE /\ th' = [th EXCEPT ![t].pc = "loop", ![t].cskb = NoSkb,
                                ![t].to = NoAddr]
            /\ UNCHANGED <<sk, queuevars>>
    /\ UNCHANGED <<hostvars, rcvq, got, lost, n>>

\* After the last target the address of the socket is zeroed.
TransmitEnd(t) ==
    /\ Up(Client) /\ th[t].pc = "loop" /\ th[t].todo = << >>
    /\ Leave(t, [sk EXCEPT ![th[t].sk].daddr = NoAddr])
    /\ UNCHANGED <<hostvars, netvars, alive, lost, n>>

-----------------------------------------------------------------------------
\* The delay queue (delay_queue.c).

TicketReadNoHold(t) ==
    /\ Up(Client) /\ th[t].pc = "ticket"
    /\ th' = [th EXCEPT ![t].pc = "increment", ![t].id = queue_id]
    /\ UNCHANGED <<hostvars, sk, queuevars, netvars, alive, lost, n>>

\* queue_id++ outside the lock: the number is read ...
TicketRead(t) ==
    /\ Up(Client) /\ th[t].pc = "ticket"
    /\ th' = [th EXCEPT ![t].pc = "increment", ![t].id = queue_id]
    /\ sk' = [sk EXCEPT ![th[t].sk].refs = @ + 1]
    /\ UNCHANGED <<hostvars, queuevars, netvars, alive, lost, n>>

\* ... and the next one stored later.
TicketWrite(t) ==
    /\ Up(Client) /\ th[t].pc = "increment"
    /\ queue_id' = th[t].id + 1
    /\ th' = [th EXCEPT ![t].pc = "enter"]
    /\ UNCHANGED <<hostvars, sk, qlock, queue, peer_pid, ctl, orphans, netvars,
                   alive, lost, n>>

\* What ctrl_sendmsg returns, and whether the controller gets the notice.  The
\* kernel broadcasts, or sends to the peer and returns the number of bytes;
\* the user-level stack sends to all its clients and returns zero.
ctrl_sendmsg ==
    CASE build = "user" -> [ret |-> 0, heard |-> ctl.pid # 0]
      [] build = "kernel" /\ ctl.pid = 0 -> [ret |-> -1, heard |-> FALSE]
      [] build = "kernel" /\ ctl.pid # 0 ->
            [ret |-> IF peer_pid = 0 THEN 0 ELSE 1,
             heard |-> peer_pid \in {0, ctl.pid}]

QueueFull == Len(queue) >= QueueMax[build]

\* The locked half of delay_queue_skb.  A verdict that transmits holds the lock
\* already: for its own thread the step never comes.
delay_queue_skb(t) ==
    LET sent == ctrl_sendmsg
        de == [id |-> th[t].id, skb |-> th[t].cskb, sk |-> th[t].sk]
    IN /\ Up(Client) /\ th[t].pc = "enter" /\ qlock = NoAddr
       /\ th' = [th EXCEPT ![t].pc = "loop", ![t].cskb = NoSkb, ![t].id = 0]
       /\ IF QueueFull \/ sent.ret # 0
          THEN /\ queue' = queue
               /\ alive' = alive \ {de.skb}
               /\ sk' = [sk EXCEPT ![de.sk] = sock_put(@, 1)]
               /\ orphans' = orphans
          ELSE /\ queue' = Append(queue, de)
               /\ orphans' = (orphans \/ ~sent.heard)
               /\ UNCHANGED <<alive, sk>>
       /\ ctl' = IF ~QueueFull /\ sent.heard
                 THEN [ctl EXCEPT !.notices = Append(@, de.id)] ELSE ctl
       /\ UNCHANGED <<hostvars, qlock, queue_id, peer_pid, netvars, lost, n>>

DelayQueueFindAfterHead(id) == {i \in 2..Len(queue) : queue[i].id = id}

\* __delay_queue_find: the first entry with that number.
__delay_queue_find(id) ==
    {i \in 1..Len(queue) : queue[i].id = id /\ \A j \in 1..(i - 1) : queue[j].id # id}

\* The controller answers its oldest notice.
delay_queue_set_verdict(verdict) ==
    LET id == Head(ctl.notices)
        busy == peer_pid \notin {0, ctl.pid}
        found == __delay_queue_find(id)
    IN /\ Up(Client) /\ ctl.pid # 0 /\ th[Ctl] = Idle /\ ctl.notices # << >>
       /\ verdict = "RELEASE" /\ Behaved => ~HasDelay(Client)
       /\ ctl' = [ctl EXCEPT !.notices = Tail(@)]
       /\ \/ /\ busy
             /\ orphans' = TRUE
             /\ UNCHANGED <<peer_pid, queue, qlock, th, sk, alive>>
          \/ /\ ~busy /\ found = {}
             /\ peer_pid' = ctl.pid
             /\ UNCHANGED <<orphans, queue, qlock, th, sk, alive>>
          \/ /\ ~busy
             /\ peer_pid' = ctl.pid
             /\ \E i \in found :
                /\ queue' = RemoveAt(queue, i)
                /\ IF verdict = "DROP" \/ sk[queue[i].sk].state # "open"
                   THEN /\ alive' = alive \ {queue[i].skb}
                        /\ sk' = [sk EXCEPT ![queue[i].sk] = sock_put(@, 1)]
                        /\ UNCHANGED <<qlock, th>>
                   ELSE /\ qlock' = Ctl
                        /\ th' = [th EXCEPT ![Ctl] =
                                    [Idle EXCEPT !.pc = "begin",
                                                 !.sk = queue[i].sk,
                                                 !.skb = queue[i].skb]]
                        /\ UNCHANGED <<alive, sk>>
             /\ UNCHANGED orphans
       /\ UNCHANGED <<hostvars, queue_id, netvars, lost, n>>

\* __delay_queue_purge_sock: of the sockets in ss, what remains, and what goes.
Kept(ss) == SelectSeq(queue, LAMBDA e : e.sk \notin ss)
Purged(ss) == SelectSeq(queue, LAMBDA e : e.sk \in ss)
EntriesOf(s) == Len(Purged({s}))

\* serval_release: the socket is orphaned, then its packets are purged.
serval_release(s) ==
    /\ Up(Client) /\ th[s] = Idle /\ sk[s].state = "open"
    /\ sk' = [sk EXCEPT ![s].state = "dead"]
    /\ UNCHANGED <<hostvars, th, queuevars, netvars, alive, lost, n>>

delay_queue_purge_sock(s) ==
    /\ Up(Client) /\ sk[s].state = "dead" /\ qlock = NoAddr
    /\ queue' = Kept({s})
    /\ alive' = alive \ {e.skb : e \in ToSet(Purged({s}))}
    /\ sk' = [sk EXCEPT ![s] = [sock_put(@, EntriesOf(s) + 1) EXCEPT !.state =
                  IF @ = "freed" THEN @ ELSE "unhashed"]]
    /\ UNCHANGED <<hostvars, th, qlock, queue_id, peer_pid, ctl, orphans,
                   netvars, lost, n>>

ControllerStarts ==
    /\ Up(Client) /\ ctl.pid = 0 /\ n.start < MaxStarts[build]
    /\ n' = [n EXCEPT !.start = @ + 1]
    /\ ctl' = [pid |-> n.start + 1, notices |-> << >>]
    /\ UNCHANGED <<hostvars, sk, th, qlock, queue, queue_id, peer_pid, orphans,
                   netvars, alive, lost>>

\* The controller ends.  The kernel tells the delay queue
\* (delay_queue_rcv_nl_event), which is emptied if that was its peer.
ControllerExits ==
    LET reset == build = "kernel" /\ peer_pid = ctl.pid IN
    /\ Up(Client) /\ ctl.pid # 0 /\ th[Ctl] = Idle
    /\ ctl' = [pid |-> 0, notices |-> << >>]
    /\ IF reset
       THEN /\ queue' = << >> /\ peer_pid' = 0
            /\ alive' = alive \ {e.skb : e \in ToSet(queue)}
            /\ sk' = [s \in Socks |-> sock_put(sk[s], EntriesOf(s))]
            /\ orphans' = orphans
       ELSE /\ orphans' = (orphans \/ queue # << >>)
            /\ UNCHANGED <<queue, peer_pid, alive, sk>>
    /\ UNCHANGED <<hostvars, th, qlock, queue_id, netvars, lost, n>>

-----------------------------------------------------------------------------
\* Receiving (serval_sal_rcv).

\* serval_sal_source_ext_check and serval_sal_add_source_ext.
SourceExtExists(p) == p.daddr \in ToSet(p.src)
SourceExtNotAdded(p) == p.src
serval_sal_add_source_ext(p) ==
    IF p.src = << >> THEN <<p.saddr, p.daddr>> ELSE Append(p.src, p.daddr)

\* kfree_skb of a packet that was received.
FreeRcvd(p) == alive' = alive \ {p.skb} /\ UNCHANGED <<rcvq, lost>>

\* serval_sal_rcv_finish to the socket bound on host h: serval_udp_rcv drops
\* what the receive queue has no room for.
serval_udp_rcv(h, p) ==
    /\ net' = net \ {p}
    /\ IF Len(rcvq[h]) < RcvMax
       THEN rcvq' = [rcvq EXCEPT ![h] = Append(@, p)] /\ UNCHANGED <<alive, lost>>
       ELSE FreeRcvd(p)

\* The FORWARD rule: a packet that has been here is given up by its loop
\* detection and by nobody freed.
ForwardRcvd(h, p, target) ==
    IF SourceExtExists(p)
    THEN /\ net' = net \ {p} /\ lost' = lost \cup {p.skb}
         /\ UNCHANGED <<rcvq, alive>>
    ELSE /\ net' = (net \ {p}) \cup
                   {[p EXCEPT !.src = serval_sal_add_source_ext(p),
                              !.daddr = target.dst]}
         /\ UNCHANGED <<rcvq, alive, lost>>

\* serval_sal_resolve_service: the read lock of an entry without targets is
\* kept, and a DELAY rule queues a pointer that is still NULL.
serval_sal_resolve_service(h, p) ==
    LET list == rules[h][p.svc] IN
    IF list = NoEntry
    THEN net' = net \ {p} /\ FreeRcvd(p) /\ UNCHANGED <<kept, crashed>>
    ELSE IF IterFails(list)
    THEN /\ net' = net \ {p} /\ FreeRcvd(p)
         /\ kept' = [kept EXCEPT ![h] = @ \cup {p.svc}]
         /\ UNCHANGED crashed
    ELSE \E l \in service_iter("ANYCAST", list) :
         /\ kept' = kept
         /\ \/ /\ l[1] = Demux
               /\ serval_udp_rcv(h, p)
               /\ UNCHANGED crashed
            \/ /\ l[1] = Delay
               /\ net' = net \ {p} /\ FreeRcvd(p)
               /\ crashed' = crashed \cup {h}
            \/ /\ l[1] = Drop
               /\ net' = net \ {p} /\ FreeRcvd(p)
               /\ UNCHANGED crashed
            \/ /\ l[1].type = "FORWARD"
               /\ ForwardRcvd(h, p, l[1])
               /\ UNCHANGED crashed

\* Without forwarding only a bound socket takes the packet.
serval_sal_demux_service(h, p) ==
    /\ IF rules[h][p.svc] # NoEntry /\ Demux \in ToSet(rules[h][p.svc])
       THEN serval_udp_rcv(h, p)
       ELSE net' = net \ {p} /\ FreeRcvd(p)
    /\ UNCHANGED <<kept, crashed>>

serval_sal_rcv(h, p) ==
    /\ Up(h) /\ p.daddr = h
    /\ IF h \in forwards THEN serval_sal_resolve_service(h, p)
       ELSE serval_sal_demux_service(h, p)
    /\ UNCHANGED <<build, mode, forwards, rules, dev, sk, th, queuevars, got, n>>

\* Nobody is there to receive it.
Vanishes(p) ==
    /\ p.daddr \in crashed
    /\ net' = net \ {p} /\ FreeRcvd(p)
    /\ UNCHANGED <<hostvars, sk, th, queuevars, got, n>>

serval_udp_recvmsg(h) ==
    /\ Up(h) /\ rcvq[h] # << >>
    /\ got' = [got EXCEPT ![Head(rcvq[h]).skb.msg] = @ + 1]
    /\ alive' = alive \ {Head(rcvq[h]).skb}
    /\ rcvq' = [rcvq EXCEPT ![h] = Tail(@)]
    /\ UNCHANGED <<hostvars, sk, th, queuevars, net, lost, n>>

-----------------------------------------------------------------------------
\* Rules and devices.

\* A control message changes an entry; a FORWARD rule needs a device that is
\* listed.  ctrl_mutex, or the main loop, keeps it apart from verdicts.
ChangeRules(h, v, list) ==
    /\ Up(h) /\ n.rule < MaxRules /\ v \notin Readers(h)
    /\ h = Client => th[Ctl] = Idle
    /\ list # rules[h][v]
    /\ list # NoEntry /\ dev[h] = "gone" =>
           \A x \in ToSet(list) : x.type # "FORWARD"
    /\ rules' = [rules EXCEPT ![h][v] = list]
    /\ n' = [n EXCEPT !.rule = @ + 1]
    /\ UNCHANGED <<build, mode, forwards, kept, dev, crashed, sk, th, queuevars, netvars,
                   alive, lost>>

\* del_dev_func: an entry that loses its last targets goes if that was one
\* target, and stays without targets if they were more.
del_dev_func(list) ==
    IF list = NoEntry THEN NoEntry
    ELSE LET rest == SelectSeq(list, LAMBDA x : x.type # "FORWARD")
         IN IF rest = << >> /\ Len(list) = 1 THEN NoEntry ELSE rest

\* The kernel's device goes down: serval_netdev_event removes its rules.
NetdevGoingDown(h) ==
    /\ Up(h) /\ build = "kernel" /\ dev[h] = "up" /\ h \in Unplugged
    /\ Readers(h) = {}
    /\ dev' = [dev EXCEPT ![h] = "down"]
    /\ rules' = [rules EXCEPT ![h] = [v \in Svcs |-> del_dev_func(@[v])]]
    /\ UNCHANGED <<build, mode, forwards, kept, crashed, sk, th, queuevars, netvars,
                   alive, lost, n>>

\* Later the kernel forgets it; a rule made in between stays.
NetdevUnlisted(h) ==
    /\ dev[h] = "down"
    /\ dev' = [dev EXCEPT ![h] = "gone"]
    /\ UNCHANGED <<build, mode, forwards, rules, kept, crashed, sk, th, queuevars,
                   netvars, alive, lost, n>>

TransmitStep(t) ==
    \/ TransmitBegin(t) \/ TransmitTarget(t) \/ TransmitOut(t) \/ TransmitEnd(t)
    \/ TicketRead(t) \/ TicketWrite(t) \/ delay_queue_skb(t)

Receive == \/ \E p \in net : \E h \in Hosts : serval_sal_rcv(h, p)
           \/ \E p \in net : Vanishes(p)
           \/ \E h \in Hosts : serval_udp_recvmsg(h)

Verdict == \E verdict \in {"RELEASE", "DROP"} : delay_queue_set_verdict(verdict)

Next ==
    \/ \E s \in Socks, v \in Svcs, a \in Advisory \cup {NoAddr} :
           serval_udp_sendmsg(s, v, a)
    \/ \E t \in Threads : TransmitStep(t)
    \/ Receive
    \/ Verdict
    \/ \E s \in Closers : serval_release(s) \/ delay_queue_purge_sock(s)
    \/ ControllerStarts \/ ControllerExits
    \/ \E h \in Hosts, v \in Svcs : \E list \in RuleLists[build][h][v] :
           ChangeRules(h, v, list)
    \/ \E h \in Hosts : NetdevGoingDown(h) \/ NetdevUnlisted(h)

Spec == Init /\ [][Next]_vars

\* Threads run on, packets that were sent arrive, and a controller answers its
\* notices (it can always drop the packet).  The state predicates say when
\* such a step is possible; the steps are told by what they change.
ThreadReady(t) == /\ Up(Client) /\ th[t] # Idle
                  /\ th[t].pc = "enter" => qlock = NoAddr
ReceiveReady == net # {} \/ \E h \in Hosts : Up(h) /\ rcvq[h] # << >>
VerdictReady == Up(Client) /\ ctl.pid # 0 /\ th[Ctl] = Idle /\ ctl.notices # << >>
Fairness ==
    /\ \A t \in Threads :
           []<>~ThreadReady(t) \/ []<><<th'[t] # th[t]>>_vars
    /\ []<>~ReceiveReady \/ []<><<netvars' # netvars>>_vars
    /\ []<>~VerdictReady \/ []<><<Len(ctl'.notices) < Len(ctl.notices)>>_vars
FairSpec == Spec /\ Fairness

-----------------------------------------------------------------------------
\* Properties.

Held == {p.skb : p \in net}
        \cup UNION {{p.skb : p \in ToSet(rcvq[h])} : h \in Hosts}
        \cup {e.skb : e \in ToSet(queue)}
        \cup ({th[t].cskb : t \in Threads} \ {NoSkb})
        \cup {th[t].skb : t \in {u \in Threads :
                                   th[u].pc = "begin" \/ th[u].todo # << >>}}

\* The fields and queues keep their types.
TypeOK ==
    /\ \A h \in Hosts, v \in Svcs :
           rules[h][v] = NoEntry \/ \A x \in ToSet(rules[h][v]) : x \in Targets
    /\ crashed \subseteq Hosts
    /\ \A s \in Socks : /\ sk[s].refs \in Nat
                        /\ sk[s].state \in {"open", "dead", "unhashed", "freed"}
                        /\ sk[s].daddr \in Hosts \cup {NoAddr}
    /\ qlock \in {NoAddr, Ctl}
    /\ Len(queue) <= QueueMax[build]
    /\ \A h \in Hosts : Len(rcvq[h]) <= RcvMax

\* Every packet buffer that is allocated is held by exactly one owner (a
\* sending thread, the delay queue, the network, a receive queue), and every
\* buffer that is held is allocated; the only ones nobody frees are packets
\* that came back to a host they had passed (serval_sal_resolve_service frees
\* the packet of a loop only if it is a copy).
SkbsAccounted ==
    Up(Client) =>
        /\ alive = Held \cup lost
        /\ \A e \in ToSet(queue) : e.skb \notin {p.skb : p \in net}
        /\ Cardinality({p.skb : p \in net}) = Cardinality(net)

\* A socket is not freed while a packet of the delay queue or a verdict that
\* is being carried out refers to it, and its references are exactly those
\* (sock_hold in delay_queue_skb, sock_put in delay_entry_free).
SockHeld ==
    \A s \in Socks :
        sk[s].refs = EntriesOf(s)
            + (IF sk[s].state \in {"open", "dead"} THEN 1 ELSE 0)
            + Cardinality({t \in Threads : th[t].sk = s /\
                              th[t].pc \in {"increment", "enter"}})
            + (IF th[Ctl].sk = s THEN 1 ELSE 0)

\* Nothing is freed early, twice or never: buffers and the socket references
\* of delayed packets are accounted for, however verdicts, closes and
\* controllers that leave interleave (delay_entry_free, delay_queue_purge).
OwnershipExact == TypeOK /\ SkbsAccounted /\ SockHeld

\* Whatever loops the forwarding rules of the hosts form, every packet leaves
\* the network: the source extension stops it at a host it has passed.
ForwardingEnds == []<>(net = {})

\* A packet in the delay queue gets its verdict, unless a controller left
\* before it gave its first one (or the user-level stack, which is not told,
\* lost its controller), or a transmit hangs on the queue's lock.
DelayEnds ==
    (queue # << >>) ~> (queue = << >> \/ orphans \/ ~Up(Client))

\* No two packets that wait for a verdict have the same number.
PacketIdUnique ==
    \A i, j \in 1..Len(queue) : queue[i].id = queue[j].id => i = j

=============================================================================
