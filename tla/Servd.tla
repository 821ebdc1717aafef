-------------------------------- MODULE Servd --------------------------------
(***************************************************************************)
(* The service daemons (servd/servd.c, servd/rtnl.c) of the clients and of *)
(* the service router they register with: the registrations of each, their *)
(* timers, the messages between them, and the forwarding rules that the    *)
(* router's daemon keeps in the service table of its stack.                *)
(*                                                                         *)
(* A client's main thread refreshes registrations when their timers run    *)
(* out and sends them again when the interface gets an address; the thread *)
(* of its local channel registers what applications bind.  At the router   *)
(* the thread of the remote channel handles registrations and main removes *)
(* the rules of those that run out.  Each step of a thread goes from one   *)
(* lock or message to the next.  Requests to the stack are handled as they *)
(* are sent (netlink), datagrams between daemons can be lost.              *)
(*                                                                         *)
(* Left out: applications at the router, more than one interface, prefixes *)
(* other than 0, weights, the shutdown of the router's daemon, and the     *)
(* shutdown of channels (MsgChannel).  Time passes in ticks of 10 seconds  *)
(* while every thread waits: handlers and datagrams take less.             *)
(***************************************************************************)
EXTENDS Integers, Sequences, FiniteSets, SequencesExt, TLC, TimerQueue

CONSTANTS
    Clients, Router,
    Binds,          \* Binds[c]: the services that applications of c bind
    Addrs,          \* Addrs[c]: the addresses that c can have
    Rebinders,      \* clients where a second socket binds a service that is bound
    Exits,          \* clients whose daemon may be told to exit
    LOCAL_SERVICE_TIMEOUT, REMOTE_SERVICE_TIMEOUT,  \* in ticks
    MaxLoss, MaxMoves, MaxBinds,                    \* bounds
    MaxStrays       \* bound on the router's deletions of a wrong timer

Hosts == Clients \cup {Router}
NoIp == "none"
Zero == "0.0.0.0"
MaxIds == 8

ASSUME ServdAssumption ==
    /\ IsFiniteSet(Clients) /\ Router \notin Clients
    /\ LOCAL_SERVICE_TIMEOUT \in Nat \ {0} /\ REMOTE_SERVICE_TIMEOUT \in Nat \ {0}
    /\ \A c \in Clients : Addrs[c] # {} /\ NoIp \notin Addrs[c] /\ Zero \notin Addrs[c]
    /\ MaxLoss \in Nat /\ MaxMoves \in Nat /\ MaxBinds \in Nat /\ MaxStrays \in Nat \ {0}

VARIABLES
    regs,    \* regs[h]: ctx->reglist of the daemon of h
    tq,      \* tq[h]: ctx->tq
    sel,     \* sel[h]: the ticks that are left of the select of main, -1 for ever
    main,    \* main[h]: where main is and what it has in hand
    hc,      \* hc[h]: the same of the thread of the channel
    table,   \* the forwarding rules of the router's stack, in order
    route,   \* route[c]: the default rule of the stack of c
    ip,      \* ip[c]: the address of c
    ifip,    \* ifip[c]: the address in the interface list of its daemon
    ev,      \* ev[c]: addresses that the kernel has yet to tell the daemon of
    lq,      \* lq[c]: messages of the stack of c to its daemon
    net,     \* net[c]: datagrams from c on their way to the router
    bound,   \* the services bound at each client
    up,      \* the daemons that run
    used     \* used: datagrams lost, moves and binds so far

vars == <<regs, tq, sel, main, hc, table, route, ip, ifip, ev, lq, net, bound, up, used>>

Idle == [at |-> "idle"]

Init ==
    /\ regs = [h \in Hosts |-> << >>]
    /\ tq = [h \in Hosts |-> NewQueue]
    /\ sel = [h \in Hosts |-> -1]
    /\ main = [h \in Hosts |-> [at |-> IF h = Router THEN "loop" ELSE "boot"]]
    /\ hc = [h \in Hosts |-> Idle]
    /\ table = << >>
    /\ route \in [Clients -> {"none", "other", "router"}]
    /\ ip = [c \in Clients |-> CHOOSE a \in Addrs[c] : TRUE]
    /\ ifip = [c \in Clients |-> NoIp]
    /\ ev = [c \in Clients |-> << >>]
    /\ lq = [c \in Clients |-> << >>]
    /\ net = [c \in Clients |-> << >>]
    /\ bound = [c \in Clients |-> {}]
    /\ up = Hosts
    /\ used = [loss |-> 0, moves |-> 0, binds |-> 0]

-----------------------------------------------------------------------------
\* Registrations.

\* main is in the callback of a timer.
InHand(h) == main[h].at \in {"fired", "resched"}

\* An id for a new registration of h.
NewId(h) ==
    LET taken == DOMAIN tq[h].tm
    IN  CHOOSE n \in 1..MaxIds : n \notin taken /\ \A m \in 1..n - 1 : m \in taken

\* The registration with this id, in the list or just unlinked.
RegOf(h, id) ==
    LET S == {i \in DOMAIN regs[h] : regs[h][i].id = id}
    IN  IF S = {} THEN hc[h].reg ELSE regs[h][CHOOSE i \in S : TRUE]

\* The first registration of list l with property P is at First({i : P(l[i])}).
First(S) == CHOOSE i \in S : \A j \in S : i <= j

LocalAt(c, srv) == {i \in DOMAIN regs[c] : regs[c][i].type = "LOCAL" /\ regs[c][i].srv = srv}

RemoteAt(srv) ==
    {i \in DOMAIN regs[Router] : regs[Router][i].type = "REMOTE" /\ regs[Router][i].srv = srv}

\* hostctrl_service_register and hostctrl_service_unregister: the datagram has the
\* address that c has now, and goes out if the stack can resolve the router.
Send(c, msgs) ==
    net' = IF route[c] = "none" THEN net
           ELSE [net EXCEPT ![c] = @ \o [i \in DOMAIN msgs |-> [from |-> ip[c]] @@ msgs[i]]]

Register(srv, old) == [type |-> "REGISTER", srv |-> srv, old |-> old]

\* Requests of the router's daemon to its stack (ctrl_handle_add_service_msg,
\* ctrl_handle_del_service_msg, ctrl_handle_mod_service_msg).
RulesFor(r) == {i \in DOMAIN table : table[i] = r}

AddRule(r) == table' = IF RulesFor(r) = {} THEN Append(table, r) ELSE table

DelRule(r) == table' = IF RulesFor(r) = {} THEN table ELSE RemoveAt(table, First(RulesFor(r)))

ModRule(r, new) ==
    table' = IF RulesFor(r) = {} THEN table ELSE [table EXCEPT ![First(RulesFor(r))] = new]

-----------------------------------------------------------------------------
\* main of every daemon: the loop around select.

\* main, up to select: how long to wait.
Loop(h) ==
    /\ main[h].at = "loop"
    /\ sel' = [sel EXCEPT ![h] = timer_next_timeout(tq[h])]
    /\ main' = [main EXCEPT ![h] = [at |-> "select"]]
    /\ UNCHANGED <<regs, tq, hc, table, route, ip, ifip, ev, lq, net, bound, up, used>>

Told(h) == h \in Clients /\ ev[h] # << >>

\* select has timed out: timer_handle_timeout, whatever happened since.
TimerFires(h) ==
    /\ main[h].at = "select" /\ sel[h] = 0
    /\ IF tq[h].map = << >>
       THEN main' = [main EXCEPT ![h] = [at |-> "loop"]]
       ELSE main' = [main EXCEPT ![h] = [at |-> "fired", id |-> tq[h].map[1]]]
    /\ tq' = [tq EXCEPT ![h] = heap_remove_first(@)]
    /\ sel' = [sel EXCEPT ![h] = -1]
    /\ UNCHANGED <<regs, hc, table, route, ip, ifip, ev, lq, net, bound, up, used>>

\* Mutant: the rule of a registration that ran out stays.
registration_timeout_remoteKeeps(h) ==
    /\ main[h].at = "fired" /\ RegOf(h, main[h].id).type = "REMOTE"
    /\ main' = [main EXCEPT ![h] = [at |-> "loop"]]
    /\ UNCHANGED <<regs, tq, sel, hc, table, route, ip, ifip, ev, lq, net, bound, up, used>>

\* registration_timeout_remote: the registration stays in the list.
registration_timeout_remote(h) ==
    /\ main[h].at = "fired" /\ RegOf(h, main[h].id).type = "REMOTE"
    /\ DelRule(<<RegOf(h, main[h].id).srv, RegOf(h, main[h].id).ip>>)
    /\ main' = [main EXCEPT ![h] = [at |-> "loop"]]
    /\ UNCHANGED <<regs, tq, sel, hc, route, ip, ifip, ev, lq, net, bound, up, used>>

\* registration_timeout_local: the refresh, and the timer again.
registration_timeout_local(h) ==
    /\ main[h].at = "fired" /\ RegOf(h, main[h].id).type = "LOCAL"
    /\ Send(h, <<Register(RegOf(h, main[h].id).srv, RegOf(h, main[h].id).ip)>>)
    /\ main' = [main EXCEPT ![h].at = "resched"]
    /\ UNCHANGED <<regs, tq, sel, hc, table, route, ip, ifip, ev, lq, bound, up, used>>

Reschedule(h) ==
    /\ main[h].at = "resched"
    /\ \E q \in timer_add(tq[h], main[h].id, LOCAL_SERVICE_TIMEOUT, "main") :
          tq' = [tq EXCEPT ![h] = q]
    /\ main' = [main EXCEPT ![h] = [at |-> "loop"]]
    /\ UNCHANGED <<regs, sel, hc, table, route, ip, ifip, ev, lq, net, bound, up, used>>

\* The signal's pipe is drained, so that the next change of the front raises it anew.
timer_queue_signal_lower(q) == [q EXCEPT !.sig = FALSE]

\* A new address is reported to do_callback, which only notes the first one of
\* the interface; every other message of the kernel is logged.
rtnl_read(h) ==
    /\ ev' = [ev EXCEPT ![h] = Tail(@)]
    /\ IF ifip[h] = NoIp
       THEN /\ main' = [main EXCEPT ![h] = [at |-> "loop"]]
            /\ ifip' = [ifip EXCEPT ![h] = Head(ev[h])]
       ELSE /\ main' = [main EXCEPT ![h] = [at |-> "sleep", ip |-> Head(ev[h])]]
            /\ UNCHANGED ifip

\* select returns with something to read.
Wakes(h) ==
    /\ main[h].at = "select" /\ (tq[h].sig \/ Told(h))
    /\ tq' = [tq EXCEPT ![h] = timer_queue_signal_lower(@)]
    /\ sel' = [sel EXCEPT ![h] = -1]
    /\ IF Told(h) THEN rtnl_read(h)
       ELSE /\ main' = [main EXCEPT ![h] = [at |-> "loop"]]
            /\ UNCHANGED <<ev, ifip>>
    /\ UNCHANGED <<regs, hc, table, route, ip, lq, net, bound, up, used>>

\* The daemon of c is no more.
Gone(c) ==
    /\ regs' = [regs EXCEPT ![c] = << >>]
    /\ tq' = [tq EXCEPT ![c] = NewQueue]
    /\ lq' = [lq EXCEPT ![c] = << >>]
    /\ ev' = [ev EXCEPT ![c] = << >>]
    /\ sel' = [sel EXCEPT ![c] = -1]
    /\ main' = [main EXCEPT ![c] = Idle]
    /\ hc' = [hc EXCEPT ![c] = Idle]
    /\ up' = up \ {c}
    /\ UNCHANGED <<table, route, ip, ifip, net, bound, used>>

-----------------------------------------------------------------------------
\* main of a client: its start, and servd_interface_up.

\* ctrl_handle_get_service_msg: the stack answers with the default rule it has.
ctrl_handle_get_service_msg(c) ==
    lq' = [lq EXCEPT ![c] = Append(@, [type |-> "GET", route |-> route[c]])]

\* main, when the channels run: it asks for the default rule.
Boot(c) ==
    /\ main[c].at = "boot"
    /\ ctrl_handle_get_service_msg(c)
    /\ main' = [main EXCEPT ![c] = [at |-> "bootwait"]]
    /\ UNCHANGED <<regs, tq, sel, hc, table, route, ip, ifip, ev, net, bound, up, used>>

\* rtnl_getaddr: the kernel answers with the address the interface has.
rtnl_request(c) == ev' = [ev EXCEPT ![c] = Append(@, ip[c])]

\* signal_wait returns, signalled or not, and the addresses are asked for.
Booted(c) ==
    /\ main[c].at = "bootwait"
    /\ rtnl_request(c)
    /\ main' = [main EXCEPT ![c] = [at |-> "loop"]]
    /\ UNCHANGED <<regs, tq, sel, hc, table, route, ip, ifip, lq, net, bound, up, used>>

\* servd_interface_up after its sleep, which is longer than any handler: the
\* default rule is asked for.
InterfaceUp(c) ==
    /\ main[c].at = "sleep" /\ hc[c].at \notin {"add", "sched"}
    /\ ctrl_handle_get_service_msg(c)
    /\ main' = [main EXCEPT ![c].at = "wait"]
    /\ UNCHANGED <<regs, tq, sel, hc, table, route, ip, ifip, ev, net, bound, up, used>>

\* signal_wait returns, signalled or not; registration_redo, with the address that
\* do_callback knew, and the address the interface has now.
registration_redo(c) ==
    /\ main[c].at = "wait"
    /\ Send(c, [i \in DOMAIN regs[c] |-> Register(regs[c][i].srv, ifip[c])])
    /\ regs' = [regs EXCEPT ![c] = [i \in DOMAIN @ |-> [@[i] EXCEPT !.ip = main[c].ip]]]
    /\ ifip' = [ifip EXCEPT ![c] = main[c].ip]
    /\ main' = [main EXCEPT ![c] = [at |-> "loop"]]
    /\ UNCHANGED <<tq, sel, hc, table, route, ip, ev, lq, bound, up, used>>

\* The exit signal: registration_clear, which tells nobody, and the end.
Exit(c) ==
    /\ c \in Exits /\ main[c].at = "select" /\ hc[c] = Idle
    /\ Gone(c)

-----------------------------------------------------------------------------
\* The thread of the local channel of a client (local_ctrlmsg_recv).

\* The first local registration of the service gets the new address.
registration_update_local(list, found, new_ip) == [list EXCEPT ![First(found)].ip = new_ip]

\* register_service_remotely up to the send: registration_update_local.  The
\* message comes from the stack, which has no IP address: local_ip is 0.0.0.0.
RecvRegister(c) ==
    /\ hc[c] = Idle /\ lq[c] # << >> /\ Head(lq[c]).type = "REGISTER"
    /\ LET srv == Head(lq[c]).srv
           old == LocalAt(c, srv)
       IN  IF old = {}
           THEN /\ hc' = [hc EXCEPT ![c] = [at |-> "register", srv |-> srv, old |-> NoIp]]
                /\ UNCHANGED regs
           ELSE /\ hc' = [hc EXCEPT ![c] = [at |-> "register", srv |-> srv,
                                            old |-> regs[c][First(old)].ip]]
                /\ regs' = [regs EXCEPT ![c] = registration_update_local(@, old, Zero)]
    /\ lq' = [lq EXCEPT ![c] = Tail(@)]
    /\ UNCHANGED <<tq, sel, main, table, route, ip, ifip, ev, net, bound, up, used>>

\* The send.  A service that is not in the list is added if the send succeeds, with
\* the address that the channel's socket has.
register_service_remotely(c) ==
    /\ hc[c].at = "register"
    /\ Send(c, <<Register(hc[c].srv, hc[c].old)>>)
    /\ hc' = [hc EXCEPT ![c] = IF hc[c].old # NoIp \/ route[c] = "none" THEN Idle
                               ELSE [at |-> "add", srv |-> hc[c].srv, ip |-> ip[c]]]
    /\ UNCHANGED <<regs, tq, sel, main, table, route, ip, ifip, ev, lq, bound, up, used>>

\* registration_add, under the lock, and then the timer.
Append1(h, type) ==
    /\ regs' = [regs EXCEPT ![h] =
                  Append(@, [id |-> NewId(h), type |-> type, srv |-> hc[h].srv, ip |-> hc[h].ip])]
    /\ tq' = [tq EXCEPT ![h] = timer_init(@, NewId(h))]
    /\ hc' = [hc EXCEPT ![h] = [at |-> "sched", id |-> NewId(h)] @@ @]

Schedule(h, exp, thr) ==
    \E q \in timer_add(tq[h], hc[h].id, exp, thr) : tq' = [tq EXCEPT ![h] = q]

AddLocal(c) ==
    /\ hc[c].at = "add"
    /\ Append1(c, "LOCAL")
    /\ UNCHANGED <<sel, main, table, route, ip, ifip, ev, lq, net, bound, up, used>>

ScheduleLocal(c) ==
    /\ hc[c].at = "sched"
    /\ Schedule(c, LOCAL_SERVICE_TIMEOUT, "lhc")
    /\ hc' = [hc EXCEPT ![c] = Idle]
    /\ UNCHANGED <<regs, sel, main, table, route, ip, ifip, ev, lq, net, bound, up, used>>

\* unregister_service_remotely: the datagram, then registration_del, which unlinks
\* the first registration of the service and outside the lock takes its timer and
\* frees it.
unregister_service_remotely(c) ==
    /\ hc[c] = Idle /\ lq[c] # << >> /\ Head(lq[c]).type = "UNREGISTER"
    /\ Send(c, <<[type |-> "UNREGISTER", srv |-> Head(lq[c]).srv, old |-> NoIp]>>)
    /\ hc' = [hc EXCEPT ![c] = [at |-> "del", srv |-> Head(lq[c]).srv]]
    /\ lq' = [lq EXCEPT ![c] = Tail(@)]
    /\ UNCHANGED <<regs, tq, sel, main, table, route, ip, ifip, ev, bound, up, used>>

registration_del(c) ==
    /\ hc[c].at = "del"
    /\ LET S == {i \in DOMAIN regs[c] : regs[c][i].srv = hc[c].srv}
       IN  IF S = {}
           THEN hc' = [hc EXCEPT ![c] = Idle] /\ UNCHANGED regs
           ELSE /\ hc' = [hc EXCEPT ![c] = [at |-> "free", reg |-> regs[c][First(S)]]]
                /\ regs' = [regs EXCEPT ![c] = RemoveAt(@, First(S))]
    /\ UNCHANGED <<tq, sel, main, table, route, ip, ifip, ev, lq, net, bound, up, used>>

\* timer_del and free.  If main is in the callback of this timer, or the heap still
\* points to it, the daemon goes on with memory that is freed and is taken to crash.
FreeReg(c) ==
    /\ hc[c].at = "free"
    /\ LET id == hc[c].reg.id
           q == timer_del(tq[c], id, "lhc")
           inUse == id \in Mapped(q) \/ (InHand(c) /\ main[c].id = id)
       IN  \/ inUse /\ Gone(c)
           \/ /\ ~inUse
              /\ tq' = [tq EXCEPT ![c] = timer_free(q, id)]
              /\ hc' = [hc EXCEPT ![c] = Idle]
              /\ UNCHANGED <<regs, sel, main, table, route, ip, ifip, ev, lq, net, bound, up, used>>

\* local_service_get_result: no default rule, or another one, becomes a rule to the
\* router.
local_service_get_result(c) ==
    /\ hc[c] = Idle /\ lq[c] # << >> /\ Head(lq[c]).type = "GET"
    /\ route' = [route EXCEPT ![c] = IF @ = Head(lq[c]).route THEN "router" ELSE @]
    /\ lq' = [lq EXCEPT ![c] = Tail(@)]
    /\ UNCHANGED <<regs, tq, sel, main, hc, table, ip, ifip, ev, net, bound, up, used>>

-----------------------------------------------------------------------------
\* The thread of the remote channel of the router (remote_ctrlmsg_recv).

\* handle_incoming_registration: the registrations of the service with the old
\* address, whose timers are then set one after the other.
RecvRemote(c) ==
    LET m == Head(net[c])
        S == {i \in RemoteAt(m.srv) : regs[Router][i].ip = m.old}
        found == SetToSortSeq(S, <)
    IN  /\ hc[Router] = Idle /\ net[c] # << >> /\ m.type = "REGISTER"
        /\ net' = [net EXCEPT ![c] = Tail(@)]
        /\ hc' = [hc EXCEPT ![Router] =
                     IF S = {} THEN [at |-> "add", srv |-> m.srv, ip |-> m.from]
                     ELSE [at |-> "update", srv |-> m.srv, old |-> m.old, ip |-> m.from,
                           todo |-> found, first |-> FALSE]]
        /\ UNCHANGED <<regs, tq, sel, main, table, route, ip, ifip, ev, lq, bound, up, used>>

\* The registration that registration_update_remote is at, and where it goes on.
Current == regs[Router][Head(hc[Router].todo)].id
AfterMod(h) == [h EXCEPT !.todo = Tail(@), !.first = FALSE,
                         !.at = IF Tail(h.todo) = << >> THEN "modify" ELSE "update"]

\* Mutant: registration_update_remote leaves the timer alone.
registration_update_remoteNoTimer ==
    /\ hc[Router].at = "update"
    /\ regs' = [regs EXCEPT ![Router][Head(hc[Router].todo)].ip = hc[Router].ip]
    /\ hc' = [hc EXCEPT ![Router] = AfterMod(@)]
    /\ UNCHANGED <<tq, sel, main, table, route, ip, ifip, ev, lq, net, bound, up, used>>

\* One round of its loop: the new address, and timer_mod up to timer_del, which looks
\* at the timer without the lock of the queue.
registration_update_remote ==
    /\ hc[Router].at = "update"
    /\ regs' = [regs EXCEPT ![Router][Head(hc[Router].todo)].ip = hc[Router].ip]
    /\ hc' = [hc EXCEPT ![Router] =
                 IF timer_scheduled(tq[Router], Current)
                 THEN [@ EXCEPT !.at = "timer_del", !.first = IsFirst(tq[Router], Current)]
                 ELSE [@ EXCEPT !.at = "insert"]]
    /\ UNCHANGED <<tq, sel, main, table, route, ip, ifip, ev, lq, net, bound, up, used>>

\* timer_mod: timer_del, under the lock, and the rest under the lock again.
timer_mod_del ==
    /\ hc[Router].at = "timer_del" /\ tq[Router].strays < MaxStrays
    /\ tq' = [tq EXCEPT ![Router] = timer_del(@, Current, "rhc")]
    /\ hc' = [hc EXCEPT ![Router].at = "insert"]
    /\ UNCHANGED <<regs, sel, main, table, route, ip, ifip, ev, lq, net, bound, up, used>>

timer_mod_insert ==
    /\ hc[Router].at = "insert"
    /\ \E q \in Insert(tq[Router], Current, REMOTE_SERVICE_TIMEOUT, "rhc", hc[Router].first) :
          tq' = [tq EXCEPT ![Router] = q]
    /\ hc' = [hc EXCEPT ![Router] = AfterMod(@)]
    /\ UNCHANGED <<regs, sel, main, table, route, ip, ifip, ev, lq, net, bound, up, used>>

\* The rest of handle_incoming_registration.
ModifyRemote ==
    /\ hc[Router].at = "modify"
    /\ ModRule(<<hc[Router].srv, hc[Router].old>>, <<hc[Router].srv, hc[Router].ip>>)
    /\ hc' = [hc EXCEPT ![Router] = Idle]
    /\ UNCHANGED <<regs, tq, sel, main, route, ip, ifip, ev, lq, net, bound, up, used>>

AddRemote ==
    /\ hc[Router].at = "add"
    /\ Append1(Router, "REMOTE")
    /\ UNCHANGED <<sel, main, table, route, ip, ifip, ev, lq, net, bound, up, used>>

\* Mutant: the timer is not started.
ScheduleRemoteNever ==
    /\ hc[Router].at = "sched"
    /\ hc' = [hc EXCEPT ![Router].at = "rule"]
    /\ UNCHANGED <<regs, tq, sel, main, table, route, ip, ifip, ev, lq, net, bound, up, used>>

ScheduleRemote ==
    /\ hc[Router].at = "sched"
    /\ Schedule(Router, REMOTE_SERVICE_TIMEOUT, "rhc")
    /\ hc' = [hc EXCEPT ![Router].at = "rule"]
    /\ UNCHANGED <<regs, sel, main, table, route, ip, ifip, ev, lq, net, bound, up, used>>

RuleRemote ==
    /\ hc[Router].at = "rule"
    /\ AddRule(<<hc[Router].srv, hc[Router].ip>>)
    /\ hc' = [hc EXCEPT ![Router] = Idle]
    /\ UNCHANGED <<regs, tq, sel, main, route, ip, ifip, ev, lq, net, bound, up, used>>

\* handle_incoming_unregistration: registration_exists, and then the rule.
RecvUnregister(c) ==
    LET m == Head(net[c])
    IN  /\ hc[Router] = Idle /\ net[c] # << >> /\ m.type = "UNREGISTER"
        /\ net' = [net EXCEPT ![c] = Tail(@)]
        /\ hc' = [hc EXCEPT ![Router] = IF RemoteAt(m.srv) = {} THEN Idle
                                        ELSE [at |-> "unrule", srv |-> m.srv, ip |-> m.from]]
        /\ UNCHANGED <<regs, tq, sel, main, table, route, ip, ifip, ev, lq, bound, up, used>>

handle_incoming_unregistration ==
    /\ hc[Router].at = "unrule"
    /\ DelRule(<<hc[Router].srv, hc[Router].ip>>)
    /\ hc' = [hc EXCEPT ![Router] = Idle]
    /\ UNCHANGED <<regs, tq, sel, main, route, ip, ifip, ev, lq, net, bound, up, used>>

-----------------------------------------------------------------------------
\* Applications, addresses, the network and time.

Tell(c, m) == lq' = IF c \in up THEN [lq EXCEPT ![c] = Append(@, m)] ELSE lq

\* serval_bind: the stack tells the daemon, if there is one.
serval_bind(c, srv) ==
    /\ used.binds < MaxBinds
    /\ srv \in bound[c] => c \in Rebinders
    /\ bound' = [bound EXCEPT ![c] = @ \cup {srv}]
    /\ used' = [used EXCEPT !.binds = @ + 1]
    /\ Tell(c, [type |-> "REGISTER", srv |-> srv])
    /\ UNCHANGED <<regs, tq, sel, main, hc, table, route, ip, ifip, ev, net, up>>

\* unregister_service, when the socket is shut down.
unregister_service(c, srv) ==
    /\ srv \in bound[c]
    /\ bound' = [bound EXCEPT ![c] = @ \ {srv}]
    /\ Tell(c, [type |-> "UNREGISTER", srv |-> srv])
    /\ UNCHANGED <<regs, tq, sel, main, hc, table, route, ip, ifip, ev, net, up, used>>

\* The interface goes down and comes up with another address; its default rule may
\* be gone, or be the stack's own.
Move(c) ==
    /\ used.moves < MaxMoves /\ c \in up /\ ifip[c] # NoIp
    /\ \E a \in Addrs[c] \ {ip[c]}, r \in {"none", "other", "router"} :
          /\ ip' = [ip EXCEPT ![c] = a]
          /\ route' = [route EXCEPT ![c] = r]
          /\ ev' = [ev EXCEPT ![c] = Append(@, a)]
    /\ used' = [used EXCEPT !.moves = @ + 1]
    /\ UNCHANGED <<regs, tq, sel, main, hc, table, ifip, lq, net, bound, up>>

Lose(c) ==
    /\ used.loss < MaxLoss /\ net[c] # << >>
    /\ net' = [net EXCEPT ![c] = Tail(@)]
    /\ used' = [used EXCEPT !.loss = @ + 1]
    /\ UNCHANGED <<regs, tq, sel, main, hc, table, route, ip, ifip, ev, lq, bound, up>>

MainReady(h) ==
    \/ main[h].at \in {"loop", "fired", "resched", "boot", "bootwait", "sleep", "wait"}
    \/ main[h].at = "select" /\ (sel[h] = 0 \/ tq[h].sig \/ Told(h))

HcReady(h) ==
    \/ hc[h] # Idle
    \/ IF h = Router THEN \E c \in Clients : net[c] # << >> ELSE lq[h] # << >>

\* Every thread waits.
Quiet == \A h \in up : ~MainReady(h) /\ ~HcReady(h)

Tick ==
    /\ Quiet
    /\ \E h \in Hosts : sel[h] > 0
    /\ sel' = [h \in Hosts |-> IF sel[h] > 0 THEN sel[h] - 1 ELSE sel[h]]
    /\ UNCHANGED <<regs, tq, main, hc, table, route, ip, ifip, ev, lq, net, bound, up, used>>

-----------------------------------------------------------------------------
MainStep(h) ==
    \/ Loop(h) \/ TimerFires(h) \/ Wakes(h)
    \/ registration_timeout_remote(h) \/ registration_timeout_local(h) \/ Reschedule(h)
    \/ h \in Clients /\ (Boot(h) \/ Booted(h) \/ InterfaceUp(h) \/ registration_redo(h))

LhcStep(c) ==
    \/ RecvRegister(c) \/ register_service_remotely(c) \/ AddLocal(c) \/ ScheduleLocal(c)
    \/ unregister_service_remotely(c) \/ registration_del(c) \/ FreeReg(c)
    \/ local_service_get_result(c)

RhcStep ==
    \/ \E c \in Clients : RecvRemote(c) \/ RecvUnregister(c)
    \/ registration_update_remote \/ timer_mod_del \/ timer_mod_insert
    \/ ModifyRemote \/ AddRemote \/ ScheduleRemote \/ RuleRemote
    \/ handle_incoming_unregistration

Next ==
    \/ \E h \in up : MainStep(h)
    \/ \E c \in Clients \cap up : LhcStep(c) \/ Exit(c)
    \/ RhcStep
    \/ \E c \in Clients : Move(c) \/ Lose(c)
    \/ \E c \in Clients : \E srv \in Binds[c] : serval_bind(c, srv) \/ unregister_service(c, srv)
    \/ Tick

Spec == Init /\ [][Next]_vars

\* Threads run and time passes.
FairSpec ==
    /\ Spec
    /\ \A h \in Hosts :
          /\ []<>~(h \in up /\ MainReady(h)) \/ []<><<main'[h] # main[h]>>_vars
          /\ []<>~(h \in up /\ HcReady(h)) \/ []<><<hc'[h] # hc[h] \/ (h \in Clients /\ lq'[h] # lq[h])>>_vars
    /\ []<>~(Quiet /\ \E h \in Hosts : sel[h] > 0) \/ []<><<sel' # sel>>_vars

-----------------------------------------------------------------------------
\* Properties.

\* The router's timer queue is in order: every timer_del so far took out the timer
\* it was called for.  heap_remove can leave the index of the timer it moves wrong
\* (common/heap.c:146-151), and a later timer_mod of that timer then takes out
\* another one, or none; what the daemon does after that is not promised here.
Orderly == tq[Router].strays = 0

\* main is never asleep in select without a timeout, or without its signal being
\* raised, while a timer is in the queue.  A timer that another thread puts into an
\* empty heap is at index 0, for which timer_mod raises the signal
\* (common/timer.c:137-144); this does not depend on the indexes of other timers.
TimerAwaited ==
    \A h \in up : main[h].at = "select" /\ tq[h].map # << >> => sel[h] >= 0 \/ tq[h].sig

\* Every forwarding rule in the router's service table will run out unless it is
\* refreshed, while the timer queue is in order: a registration for it has its timer
\* in the heap or in main's hands, or the handler of a registration is about to set
\* the timer again and to change the rule.
RuleOwned ==
    Orderly => \A i \in DOMAIN table :
        \/ \E j \in DOMAIN regs[Router] :
              /\ <<regs[Router][j].srv, regs[Router][j].ip>> = table[i]
              /\ \/ regs[Router][j].id \in Mapped(tq[Router])
                 \/ InHand(Router) /\ main[Router].id = regs[Router][j].id
        \/ /\ hc[Router].at \in {"update", "timer_del", "insert", "modify"}
           /\ table[i] = <<hc[Router].srv, hc[Router].old>>

\* A service that is in the list of a client's daemon gets a rule for the address
\* of the client at the router, whatever became of single datagrams and whenever
\* the client moved, and keeps it while main refreshes it, as long as the router's
\* timer queue is in order.
StaysReachable ==
    \/ <>~Orderly
    \/ \A c \in Clients : <>[](\A i \in DOMAIN regs[c] :
          c \in up => \E j \in DOMAIN table : table[j] = <<regs[c][i].srv, ip[c]>>)

\* The rule for a service that is no longer bound, for an address that the client
\* no longer has or for a daemon that is gone does not stay, as long as the router's
\* timer queue is in order.
StaleGoes ==
    \/ <>~Orderly
    \/ <>[](\A i \in DOMAIN table : \E c \in Clients :
            c \in up /\ table[i][1] \in bound[c] /\ table[i][2] = ip[c])

\* The timer queue stays in order, as timer_del's comment assumes ("in case we removed
\* the first item in the queue"); false of the code with two registrations.
QueueInOrder == Orderly

\* A registration is sent again with the address the client had
\* (registration_update_local, remote_service_register).
OldIsOwn ==
    \A c \in Clients : \A i \in DOMAIN net[c] :
        net[c][i].type = "REGISTER" => net[c][i].old \in Addrs[c] \cup {NoIp}

=============================================================================
