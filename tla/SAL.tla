-------------------------------- MODULE SAL --------------------------------
(***************************************************************************)
(* The Service Access Layer connection protocol of src/stack/serval_sal.c: *)
(* connection set-up, close, reset, flow migration and control-packet      *)
(* retransmission between active openers (the flows of Clients) and one    *)
(* listening service, whose request socks and children own the flows of    *)
(* Servers.                                                                *)
(*                                                                         *)
(* A socket is a record; each C function that works on a socket is the     *)
(* operator of the same name from that record to its next value.  What the *)
(* function transmits is collected in the field "out" and put on the wire  *)
(* by the action.  The network is the set of every packet ever sent: a     *)
(* packet that is never received was lost, one received twice was          *)
(* duplicated (or retransmitted), and the order of reception is free.      *)
(***************************************************************************)
EXTENDS Integers, Sequences, FiniteSets

CONSTANTS
    SeqMod,          \* size of the verno space; 2^32 in the code, even here
    NumClients,      \* active openers
    NumFlows,        \* flow ids the listening host hands out (bound)
    ISS,             \* ISS[f]: the random initial verno of flow f
    ClientAddrs,     \* addresses of the opener's devices
    ServerAddrs,     \* addresses of the listening host's devices
    ClientAddr,      \* the device the SYN leaves on
    ServerAddr,      \* the address the service resolves to
    NoAddr,          \* the all-zero address
    NoCtrl,          \* the empty control queue
    MaxRetransmits,  \* sysctl_sal_max_retransmits
    MaxMigrations,   \* MaxMigrations[f]: migrations requested of flow f (bound)
    Closers,         \* flows whose application closes its socket (bound)
    ListenerCloses,  \* whether the listening application closes (bound)
    Backlog,         \* sk_max_ack_backlog of the listener
    MaxRequests,     \* max_request_qlen of the listener
    Transport,       \* "udp" (no conn_close hook) or "tcp"
    Racers           \* flows whose timers' callbacks may wait for the lock (bound)

Clients == 0..NumClients - 1
Servers == NumClients..NumClients + NumFlows - 1
Flows == Clients \cup Servers
NoFlow == -1
Seq32 == 0..SeqMod - 1
AddrsOf(f) == IF f \in Clients THEN ClientAddrs ELSE ServerAddrs
Addrs == ClientAddrs \cup ServerAddrs

States == {"INIT", "CONNECTED", "REQUEST", "RESPOND", "FINWAIT1", "FINWAIT2",
           "TIMEWAIT", "CLOSED", "CLOSEWAIT", "LASTACK", "LISTEN", "CLOSING"}
SalStates == {"RSYN_INITIAL", "RSYN_SENT", "RSYN_RECV", "RSYN_SENT_RECV"}
Flags == {"SYN", "RSYN", "ACK", "RST", "FIN"}
Errors == {"none", "ECONNREFUSED", "EPIPE", "ECONNRESET", "ETIMEDOUT"}

ASSUME SALAssumption ==
    /\ SeqMod \in Nat /\ SeqMod >= 4 /\ SeqMod % 2 = 0
    /\ NumClients \in Nat \ {0} /\ NumFlows \in Nat \ {0}
    /\ ISS \in [Flows -> Seq32]
    /\ ClientAddr \in ClientAddrs /\ ServerAddr \in ServerAddrs
    /\ ClientAddrs \cap ServerAddrs = {}
    /\ NoAddr \notin Addrs
    /\ NoCtrl \notin [flags : SUBSET Flags, verno : Seq32]
    /\ MaxRetransmits \in Nat /\ MaxMigrations \in [Flows -> Nat]
    /\ Backlog \in Nat /\ MaxRequests \in Nat
    /\ Closers \subseteq Flows /\ ListenerCloses \in BOOLEAN
    /\ Transport \in {"udp", "tcp"}
    /\ Racers \subseteq Flows

VARIABLES
    sock,       \* sock[f]: the serval_sock of flow f
    lsk,        \* the listening socket: its state and its two request queues
    nextflow,   \* serval_flow_id of the listening host
    migrations, \* migrations[f]: migrations requested so far
    net         \* every packet sent

vars == <<sock, lsk, nextflow, migrations, net>>

-----------------------------------------------------------------------------
\* Sequence numbers wrap: before() is the sign of the 32-bit difference.

Add(a, n) == (a + n) % SeqMod

before(a, b) == (a - b) % SeqMod >= SeqMod \div 2

after(a, b) == before(b, a)

-----------------------------------------------------------------------------
\* Sockets and packets.

CtrlSkb == [flags : SUBSET Flags, verno : Seq32]

Packet ==
    [src : Flows \cup {NoFlow}, dst : Flows \cup {NoFlow}, flags : SUBSET Flags,
     verno : Seq32, ackno : Seq32, srvext : BOOLEAN,
     saddr : Addrs \cup {NoAddr}, daddr : Addrs \cup {NoAddr}]

Sock ==
    [id : Flows, peer : Flows \cup {NoFlow},
     state : States, sal : SalStates,
     una : Seq32, nxt : Seq32, rcvnxt : Seq32,
     q : CtrlSkb \cup {NoCtrl}, retransmits : 0..MaxRetransmits,
     saddr : Addrs \cup {NoAddr}, daddr : Addrs \cup {NoAddr},
     migdev : Addrs \cup {NoAddr}, migdaddr : Addrs \cup {NoAddr},
     hashed : BOOLEAN, dead : BOOLEAN, err : Errors,
     finSent : BOOLEAN, finRcvd : BOOLEAN, finPending : BOOLEAN,
     rtx : BOOLEAN, rtxFired : BOOLEAN, tw : BOOLEAN, twFired : BOOLEAN,
     releasing : BOOLEAN, destroyed : 0..2, late : BOOLEAN, out : SUBSET Packet]

Rsk == [peer : Flows \cup {NoFlow}, local : Flows, rcvseq : Seq32,
        raddr : Addrs \cup {NoAddr}, laddr : Addrs \cup {NoAddr}]

\* A socket right after serval_sock_init().
InitSock(f) ==
    [id |-> f, peer |-> NoFlow, state |-> "INIT", sal |-> "RSYN_INITIAL",
     una |-> 0, nxt |-> 0, rcvnxt |-> 0, q |-> NoCtrl, retransmits |-> 0,
     saddr |-> NoAddr, daddr |-> NoAddr, migdev |-> NoAddr, migdaddr |-> NoAddr,
     hashed |-> FALSE, dead |-> FALSE, err |-> "none",
     finSent |-> FALSE, finRcvd |-> FALSE, finPending |-> FALSE,
     rtx |-> FALSE, rtxFired |-> FALSE, tw |-> FALSE, twFired |-> FALSE,
     releasing |-> FALSE, destroyed |-> 0, late |-> FALSE, out |-> {}]

-----------------------------------------------------------------------------
\* Transmission.

\* serval_sal_transmit_skb: a socket without a destination resolves its
\* service; RSYN packets leave on the migration device and, while answering an
\* RSYN, go to the address the peer is moving to.  The ackno is the receive
\* state at the time of transmission (irrelevant, so zero, without ACK).
serval_sal_transmit_skb(sk, flags, verno, conn) ==
    LET rsyn == "RSYN" \in flags
        src == IF rsyn /\ sk.migdev # NoAddr THEN sk.migdev ELSE sk.saddr
        dst == IF rsyn /\ sk.sal = "RSYN_RECV" THEN sk.migdaddr
               ELSE IF sk.daddr = NoAddr THEN ServerAddr ELSE sk.daddr
    IN [sk EXCEPT !.out = @ \cup
          {[src |-> sk.id, dst |-> sk.peer, flags |-> flags, verno |-> verno,
            ackno |-> IF "ACK" \in flags THEN sk.rcvnxt ELSE 0,
            srvext |-> conn \/ "SYN" \in flags, saddr |-> src, daddr |-> dst]}]


\* Mutant: the timer dies with an ACK that does not cover the queued packet.
MutTimerNotRearmed(sk, ackno, all) ==
    IF sk.q = NoCtrl THEN sk
    ELSE IF all \/ after(ackno, sk.q.verno)
    THEN [sk EXCEPT !.q = NoCtrl, !.rtx = FALSE, !.retransmits = 0]
    ELSE [sk EXCEPT !.rtx = FALSE]

\* Mutant: the timer outlives the packet.
MutTimerNotCleared(sk, ackno, all) ==
    IF sk.q # NoCtrl /\ (all \/ after(ackno, sk.q.verno))
    THEN [sk EXCEPT !.q = NoCtrl, !.retransmits = 0]
    ELSE sk

\* serval_sal_clean_rtx_queue: drop the queued control packet if the ackno
\* covers it (or all is set); the retransmission timer goes with it.
serval_sal_clean_rtx_queue(sk, ackno, all) ==
    IF sk.q = NoCtrl THEN sk
    ELSE IF all \/ after(ackno, sk.q.verno)
    THEN [sk EXCEPT !.q = NoCtrl, !.rtx = FALSE, !.retransmits = 0]
    ELSE [sk EXCEPT !.rtx = TRUE]


\* Mutant: una stays behind when the queue head changes.
MutUnaNotMoved(sk, skb) == [sk EXCEPT !.q = skb]

\* serval_sal_queue_ctrl_skb: the packet becomes the head of the queue.
serval_sal_queue_ctrl_skb(sk, skb) == [sk EXCEPT !.q = skb, !.una = skb.verno]

\* serval_sal_queue_and_push: the new control packet overrides the queued one
\* and inherits its flags, is queued, arms the timer and is transmitted.
serval_sal_queue_and_push(sk, flags, verno) ==
    LET merged == IF sk.q = NoCtrl THEN flags ELSE flags \cup sk.q.flags
        clean == serval_sal_clean_rtx_queue(sk, 0, TRUE)
        queued == serval_sal_queue_ctrl_skb(
                      clean, [flags |-> merged, verno |-> verno])
    IN serval_sal_transmit_skb([queued EXCEPT !.rtx = TRUE],
                               merged, verno, FALSE)

\* Pure ACKs are neither queued nor numbered.
serval_sal_send_ack(sk) ==
    serval_sal_transmit_skb(sk, {"ACK"}, sk.nxt, FALSE)

-----------------------------------------------------------------------------
\* Opening, ending and moving a connection.

serval_sal_send_syn(sk) ==
    serval_sal_queue_and_push([sk EXCEPT !.nxt = Add(ISS[sk.id], 1)],
                              {"SYN"}, ISS[sk.id])


\* Mutant: an armed timer survives the socket.
MutDestroyKeepsTimers(sk) ==
    IF ~sk.dead THEN sk
    ELSE [sk EXCEPT !.q = NoCtrl, !.destroyed = IF @ = 2 THEN 2 ELSE @ + 1]

\* serval_sock_destroy: only an orphaned socket is torn down; a callback that
\* already runs is not stopped.
serval_sock_destroy(sk) ==
    IF ~sk.dead THEN sk
    ELSE [sk EXCEPT !.rtx = FALSE, !.tw = FALSE, !.q = NoCtrl,
                    !.destroyed = IF @ = 2 THEN 2 ELSE @ + 1]

serval_sock_set_state(sk, new) ==
    [sk EXCEPT !.state = new, !.hashed = @ /\ new # "CLOSED"]

\* serval_sal_done / serval_sock_done: CLOSED, retransmission stopped (not the
\* TIMEWAIT timer), and destroyed if no user is left.
serval_sal_done(sk) ==
    serval_sock_destroy(
        [serval_sock_set_state(sk, "CLOSED") EXCEPT !.rtx = FALSE])


\* Mutant: TIMEWAIT and FINWAIT2 without a timer.
MutNoTimewaitTimer(sk, state) == serval_sock_set_state(sk, state)

serval_sal_timewait(sk, state) ==
    [serval_sock_set_state(sk, state) EXCEPT !.tw = TRUE]

\* serval_sal_send_rsyn: refused before the handshake and after the end.
serval_sal_send_rsyn(sk, verno) ==
    IF sk.state \in {"REQUEST", "LISTEN", "CLOSED"} THEN sk
    ELSE LET moved ==
                 [sk EXCEPT !.sal =
                    CASE @ = "RSYN_INITIAL" -> "RSYN_SENT"
                      [] @ = "RSYN_RECV" -> "RSYN_SENT_RECV"
                      [] OTHER -> @]
             fin == IF sk.state \in {"FINWAIT1", "CLOSING", "LASTACK"}
                    THEN {"FIN"} ELSE {}
         IN serval_sal_queue_and_push(moved, {"RSYN"} \cup fin, verno)

\* serval_sal_migrate: the verno is consumed even if the RSYN is refused.
serval_sal_migrate(sk) ==
    serval_sal_send_rsyn([sk EXCEPT !.nxt = Add(@, 1)], sk.nxt)


\* Mutant: the verno is advanced before the FIN takes it.
MutFinPreIncrement(sk) ==
    serval_sal_queue_and_push(
        [sk EXCEPT !.nxt = Add(@, 1), !.finSent = TRUE, !.finPending = FALSE],
        {"FIN"}, Add(sk.nxt, 1))

\* serval_sal_send_fin: a FIN that overrides an RSYN carries the RSYN too.
serval_sal_send_fin(sk) ==
    LET mig == CASE sk.sal = "RSYN_SENT" -> {"RSYN"}
                 [] sk.sal = "RSYN_RECV" -> {"RSYN", "ACK"}
                 [] OTHER -> {}
    IN serval_sal_queue_and_push(
           [sk EXCEPT !.nxt = Add(@, 1), !.finSent = TRUE, !.finPending = FALSE],
           {"FIN"} \cup mig, sk.nxt)

serval_sal_send_active_reset(sk) ==
    serval_sal_transmit_skb(sk, {"RST", "ACK"}, sk.nxt, FALSE)

\* serval_sal_close: unread says that the transport still held data the
\* application never read (TCP only); TCP sends its own FIN first and the SAL
\* FIN follows when that is acknowledged.
serval_sal_close(sk, unread) ==
    IF sk.state \in {"FINWAIT1", "FINWAIT2", "CLOSING", "TIMEWAIT"} THEN sk
    ELSE IF sk.state \notin {"CLOSEWAIT", "CONNECTED", "RESPOND"}
    THEN serval_sal_done(sk)
    ELSE LET fin == serval_sock_set_state(
                        sk, IF sk.state = "CLOSEWAIT" THEN "LASTACK"
                            ELSE "FINWAIT1")
         IN IF Transport = "udp" THEN serval_sal_send_fin(fin)
            ELSE IF unread
            THEN serval_sal_send_active_reset(
                     serval_sock_set_state(fin, "CLOSED"))
            ELSE [fin EXCEPT !.finPending = TRUE]

\* serval_release up to the point where it lets go of the lock: close and
\* orphan.  Afterwards it destroys what was closed by then, and only that.
serval_release(sk, unread) ==
    LET shut == IF sk.state = "CLOSED" THEN sk ELSE serval_sal_close(sk, unread)
    IN [shut EXCEPT !.dead = TRUE, !.releasing = shut.state = "CLOSED"]

-----------------------------------------------------------------------------
\* Reception on a socket.  The nonce of a flow is known to its two ends only,
\* so a control extension is valid when it comes from the peer flow.

has_valid_control_extension(sk, p) == "SYN" \in p.flags \/ p.src = sk.peer

has_valid_verno(sk, p) ==
    \/ sk.state \in {"LISTEN", "REQUEST"}
    \/ ~before(p.verno, sk.rcvnxt)
    \/ p.flags = {"ACK"}
    \/ p.flags = {"RSYN", "ACK"}

\* serval_sal_ack_process as a pair: whether the ACK was accepted, and the
\* socket.  An ACK during a migration answer empties the queue and, unless it
\* is itself part of a migration, completes the peer's move.
ack_valid(sk, p) ==
    /\ "ACK" \in p.flags
    /\ ~before(p.ackno, sk.una)
    /\ \/ ~after(p.ackno, sk.nxt)
       \/ sk.sal \in {"RSYN_RECV", "RSYN_SENT_RECV"}


\* Mutant: the migration completes without installing the peer's address.
MutDaddrNotInstalled(sk, p) ==
    IF ~ack_valid(sk, p) THEN sk
    ELSE LET answering == sk.sal \in {"RSYN_RECV", "RSYN_SENT_RECV"}
             acked == [serval_sal_clean_rtx_queue(sk, p.ackno, answering)
                          EXCEPT !.una = p.ackno]
         IN IF answering /\ "RSYN" \notin p.flags
            THEN [acked EXCEPT !.sal = IF @ = "RSYN_RECV" THEN "RSYN_INITIAL"
                                       ELSE "RSYN_SENT",
                               !.migdaddr = NoAddr]
            ELSE acked

serval_sal_ack_process(sk, p) ==
    IF ~ack_valid(sk, p) THEN sk
    ELSE LET answering == sk.sal \in {"RSYN_RECV", "RSYN_SENT_RECV"}
             acked == [serval_sal_clean_rtx_queue(sk, p.ackno, answering)
                          EXCEPT !.una = p.ackno]
         IN IF answering /\ "RSYN" \notin p.flags
            THEN [acked EXCEPT
                    !.sal = IF @ = "RSYN_RECV" THEN "RSYN_INITIAL"
                            ELSE "RSYN_SENT",
                    !.daddr = sk.migdaddr, !.migdaddr = NoAddr]
            ELSE acked

\* serval_sal_rcv_reset: the error depends on the state; then done.
serval_sal_rcv_reset(sk) ==
    IF sk.state = "CLOSED" THEN sk
    ELSE serval_sal_done(
           [sk EXCEPT !.err = CASE sk.state = "REQUEST" -> "ECONNREFUSED"
                                [] sk.state = "CLOSEWAIT" -> "EPIPE"
                                [] OTHER -> "ECONNRESET"])

\* serval_sal_send_reset, as the packet sent in reply to p (none to a reset).
\* SYN and FIN enter the ackno by their bit values, 1 and 32.
serval_sal_send_reset(p) ==
    IF "RST" \in p.flags THEN {}
    ELSE LET ack == "ACK" \in p.flags
             bits == (IF "SYN" \in p.flags THEN 1 ELSE 0)
                     + (IF "FIN" \in p.flags THEN 32 ELSE 0)
         IN {[src |-> p.dst, dst |-> p.src,
              flags |-> IF ack THEN {"RST"} ELSE {"RST", "ACK"},
              verno |-> IF ack THEN p.ackno ELSE 0,
              ackno |-> IF ack THEN 0 ELSE Add(p.verno, bits),
              srvext |-> FALSE, saddr |-> p.daddr, daddr |-> p.saddr]}

\* serval_sal_rcv_rsynack: the initiator installs its new device; when both
\* ends are moving it only notes where the peer is.  Ignored answers of a
\* pending migration are not acknowledged, all others are.
serval_sal_rcv_rsynack(sk, p) ==
    CASE sk.sal = "RSYN_SENT" ->
           IF sk.migdev = NoAddr \/ p.ackno # Add(sk.una, 1) THEN sk
           ELSE serval_sal_send_ack([sk EXCEPT !.sal = "RSYN_INITIAL",
                                               !.saddr = sk.migdev,
                                               !.migdev = NoAddr])
      [] sk.sal = "RSYN_SENT_RECV" ->
           serval_sal_send_ack([sk EXCEPT !.sal = "RSYN_RECV",
                                          !.migdaddr = p.saddr])
      [] OTHER -> serval_sal_send_ack(sk)


\* Mutant: the verno of the RSYN is not consumed by its receiver's window.
MutRsynSkipsVerno(sk, p) ==
    IF \/ ~has_valid_control_extension(sk, p)
       \/ sk.state \in {"CLOSED", "LISTEN", "REQUEST"}
    THEN sk
    ELSE serval_sal_queue_and_push(
           [sk EXCEPT !.sal = CASE @ = "RSYN_INITIAL" -> "RSYN_RECV"
                                [] @ = "RSYN_SENT" -> "RSYN_SENT_RECV"
                                [] OTHER -> @,
                      !.rcvnxt = Add(p.verno, 2),
                      !.migdaddr = p.saddr],
           {"RSYN", "ACK"}, sk.nxt)

\* serval_sal_rcv_rsyn: remember the peer's new address and answer from the
\* control queue, without consuming a verno.
serval_sal_rcv_rsyn(sk, p) ==
    IF \/ ~has_valid_control_extension(sk, p)
       \/ sk.state \in {"CLOSED", "LISTEN", "REQUEST"}
    THEN sk
    ELSE serval_sal_queue_and_push(
           [sk EXCEPT !.sal = CASE @ = "RSYN_INITIAL" -> "RSYN_RECV"
                                [] @ = "RSYN_SENT" -> "RSYN_SENT_RECV"
                                [] OTHER -> @,
                      !.rcvnxt = Add(p.verno, 1),
                      !.migdaddr = p.saddr],
           {"RSYN", "ACK"}, sk.nxt)

serval_sal_rcv_fin(sk, p) ==
    IF ~has_valid_control_extension(sk, p) THEN sk
    ELSE serval_sal_send_ack([sk EXCEPT !.finRcvd = TRUE,
                                        !.rcvnxt = Add(p.verno, 1)])

\* A FIN that serval_sal_rcv_fin takes.
fin_ok(sk, p) == "FIN" \in p.flags /\ has_valid_control_extension(sk, p)

connected_state_process(sk, p) ==
    LET a == serval_sal_ack_process(sk, p)
    IN IF fin_ok(a, p)
       THEN serval_sock_set_state(serval_sal_rcv_fin(a, p), "CLOSEWAIT")
       ELSE a

closewait_state_process(sk, p) ==
    LET r == IF "FIN" \in p.flags THEN serval_sal_send_ack(sk) ELSE sk
    IN serval_sal_ack_process(r, p)


\* Mutant: the opener acknowledges the SYN-ACK but stays in REQUEST.
MutStaysInRequest(sk, p) ==
    IF \/ ~has_valid_control_extension(sk, p)
       \/ ~({"SYN", "ACK"} \subseteq p.flags)
       \/ ~ack_valid(sk, p)
    THEN sk
    ELSE LET c == [serval_sal_ack_process(sk, p) EXCEPT
                     !.daddr = p.saddr, !.saddr = p.daddr, !.peer = p.src,
                     !.rcvnxt = Add(p.verno, 1)]
         IN serval_sal_transmit_skb(c, {"ACK"}, c.nxt, TRUE)

\* A SYN-ACK with a good ackno connects; its ACK carries the serviceID.
request_state_process(sk, p) ==
    IF \/ ~has_valid_control_extension(sk, p)
       \/ ~({"SYN", "ACK"} \subseteq p.flags)
       \/ ~ack_valid(sk, p)
    THEN sk
    ELSE LET c == [serval_sal_ack_process(sk, p) EXCEPT
                     !.daddr = p.saddr, !.saddr = p.daddr, !.peer = p.src,
                     !.rcvnxt = Add(p.verno, 1)]
             e == serval_sock_set_state(c, "CONNECTED")
         IN serval_sal_transmit_skb(e, {"ACK"}, e.nxt, TRUE)

respond_state_process(sk, p) ==
    IF ~has_valid_control_extension(sk, p) \/ ~ack_valid(sk, p) THEN sk
    ELSE serval_sock_set_state(
             [serval_sal_ack_process(sk, p) EXCEPT !.daddr = p.saddr],
             "CONNECTED")

finwait1_state_process(sk, p) ==
    LET ack_ok == ack_valid(sk, p)
        a == serval_sal_ack_process(sk, p)
    IN IF "FIN" \in p.flags
       THEN IF ~fin_ok(a, p) THEN a
            ELSE LET r == serval_sal_rcv_fin(a, p)
                 IN IF ack_ok THEN serval_sal_timewait(r, "TIMEWAIT")
                    ELSE serval_sock_set_state(r, "CLOSING")
       ELSE IF ack_ok THEN serval_sal_timewait(a, "FINWAIT2") ELSE a

finwait2_state_process(sk, p) ==
    IF fin_ok(sk, p)
    THEN serval_sal_timewait(serval_sal_rcv_fin(sk, p), "TIMEWAIT")
    ELSE sk

closing_state_process(sk, p) ==
    LET a == IF ack_valid(sk, p)
             THEN serval_sal_timewait(serval_sal_ack_process(sk, p), "TIMEWAIT")
             ELSE sk
    IN IF "FIN" \in p.flags THEN serval_sal_send_ack(a) ELSE a

lastack_state_process(sk, p) ==
    LET r == IF "FIN" \in p.flags THEN serval_sal_send_ack(sk) ELSE sk
        a == serval_sal_ack_process(r, p)
    IN IF ack_valid(r, p) THEN serval_sal_done(a) ELSE a

\* serval_sal_state_process: stale vernos are answered with an ACK, resets
\* end the socket, migration is handled first, then the state's handler runs.
serval_sal_state_process(sk, p) ==
    IF ~has_valid_verno(sk, p) THEN serval_sal_send_ack(sk)
    ELSE IF "RST" \in p.flags THEN serval_sal_rcv_reset(sk)
    ELSE LET m == CASE {"RSYN", "ACK"} \subseteq p.flags ->
                         serval_sal_rcv_rsynack(sk, p)
                    [] "RSYN" \in p.flags /\ "ACK" \notin p.flags ->
                         serval_sal_rcv_rsyn(sk, p)
                    [] OTHER -> sk
         IN CASE m.state = "CONNECTED" -> connected_state_process(m, p)
              [] m.state = "REQUEST" -> request_state_process(m, p)
              [] m.state = "RESPOND" -> respond_state_process(m, p)
              [] m.state = "FINWAIT1" -> finwait1_state_process(m, p)
              [] m.state = "FINWAIT2" -> finwait2_state_process(m, p)
              [] m.state = "CLOSING" -> closing_state_process(m, p)
              [] m.state = "LASTACK" -> lastack_state_process(m, p)
              [] m.state = "CLOSEWAIT" -> closewait_state_process(m, p)
              [] m.state = "TIMEWAIT" ->
                   IF "FIN" \in p.flags THEN serval_sal_send_ack(m) ELSE m
              [] OTHER -> m

-----------------------------------------------------------------------------
\* The listening socket: a SYN queue of request socks (a set: every search in
\* it is by a key that is unique in it) and a FIFO accept queue.

Listener == [state : {"LISTEN", "CLOSED"}, syn : SUBSET Rsk, accept : Seq(Rsk),
             qlen : Nat, ackBacklog : Nat]

Queued == lsk.syn \cup {lsk.accept[i] : i \in 1..Len(lsk.accept)}

serval_sal_find_rsk(p) == {r \in Queued : r.peer = p.src}


\* Mutant: the SYN queue is never full.
MutRequestQueueUnbounded == FALSE

request_queue_is_full == lsk.qlen > MaxRequests

acceptq_is_full == lsk.ackBacklog > Backlog

pure_syn(p) == "SYN" \in p.flags /\ "ACK" \notin p.flags

\* serval_sal_send_synack: built by hand, sent once per SYN, never queued.
serval_sal_send_synack(r) ==
    {[src |-> r.local, dst |-> r.peer, flags |-> {"SYN", "ACK"},
      verno |-> ISS[r.local], ackno |-> Add(r.rcvseq, 1), srvext |-> FALSE,
      saddr |-> r.laddr, daddr |-> r.raddr]}

\* The child of request sock r, in RESPOND.
serval_sal_create_respond_sock(r) ==
    [InitSock(r.local) EXCEPT
        !.peer = r.peer, !.state = "RESPOND", !.una = ISS[r.local],
        !.nxt = Add(ISS[r.local], 1), !.rcvnxt = Add(r.rcvseq, 1),
        !.saddr = r.laddr, !.daddr = r.raddr, !.hashed = TRUE]

-----------------------------------------------------------------------------
\* Actions.

\* What a socket operation leaves behind: the socket, and its packets.
Commit(f, sk) ==
    /\ sock' = [sock EXCEPT ![f] = [sk EXCEPT !.out = {}]]
    /\ net' = net \cup sk.out

\* serval_connect on an unconnected socket.
Connect(f) ==
    /\ sock[f].state = "INIT"
    /\ Commit(f, serval_sal_send_syn(
                    [sock[f] EXCEPT !.state = "REQUEST", !.hashed = TRUE,
                                    !.saddr = ClientAddr]))
    /\ UNCHANGED <<lsk, nextflow, migrations>>

\* The application closes the socket; a child must have been accepted.
Close(f, unread) ==
    /\ f \in Closers
    /\ sock[f].state # "INIT" /\ ~sock[f].dead
    /\ \A r \in Queued : r.local # f
    /\ unread => Transport = "tcp" /\ sock[f].state \in {"CONNECTED", "CLOSEWAIT"}
    /\ Commit(f, serval_release(sock[f], unread))
    /\ UNCHANGED <<lsk, nextflow, migrations>>

\* serval_release has the lock again.
ReleaseEnd(f) ==
    /\ sock[f].releasing
    /\ Commit(f, serval_sock_destroy([sock[f] EXCEPT !.releasing = FALSE]))
    /\ UNCHANGED <<lsk, nextflow, migrations>>

\* TCP learns that its own FIN was acknowledged and sends the SAL FIN.
TcpFinAcked(f) ==
    /\ sock[f].finPending
    /\ sock[f].state \in {"FINWAIT1", "FINWAIT2", "CLOSING", "LASTACK"}
    /\ sock[sock[f].peer].state # "INIT"
    /\ Commit(f, serval_sal_send_fin(sock[f]))
    /\ UNCHANGED <<lsk, nextflow, migrations>>

\* serval_tcp_write_err: TCP gives up on its own FIN.
TcpWriteErr(f) ==
    /\ sock[f].finPending
    /\ sock[f].state # "CLOSED"
    /\ Commit(f, serval_sal_done([sock[f] EXCEPT !.err = "ETIMEDOUT"]))
    /\ UNCHANGED <<lsk, nextflow, migrations>>

\* serval_sock_migrate_flow: move the flow to the device with address a.
Migrate(f, a) ==
    /\ sock[f].hashed
    /\ migrations[f] < MaxMigrations[f]
    /\ migrations' = [migrations EXCEPT ![f] = @ + 1]
    /\ Commit(f, serval_sal_migrate([sock[f] EXCEPT !.migdev = a]))
    /\ UNCHANGED <<lsk, nextflow>>

\* serval_accept: the head of the accept queue goes to the application.
Accept ==
    /\ lsk.state = "LISTEN"
    /\ lsk.accept # << >>
    /\ lsk' = [lsk EXCEPT !.accept = Tail(@), !.ackBacklog = @ - 1]
    /\ UNCHANGED <<sock, nextflow, migrations, net>>

\* serval_listen_stop, and the state change of serval_release: children that
\* were never accepted are orphaned and unhashed; nothing is sent.
ListenStop ==
    /\ ListenerCloses
    /\ lsk.state = "LISTEN"
    /\ sock' = [f \in Flows |->
                  IF \E i \in 1..Len(lsk.accept) : lsk.accept[i].local = f
                  THEN [sock[f] EXCEPT !.dead = TRUE, !.hashed = FALSE]
                  ELSE sock[f]]
    /\ lsk' = [lsk EXCEPT !.state = "CLOSED", !.syn = {}, !.accept = << >>,
                          !.qlen = @ - Cardinality(lsk.syn),
                          !.ackBacklog = @ - Len(lsk.accept)]
    /\ UNCHANGED <<nextflow, migrations, net>>

\* Timers.  A callback that has started waits for the socket lock; nothing
\* that runs meanwhile can stop it (del_timer finds the timer not pending).
RexmitFire(f) ==
    /\ f \in Racers
    /\ sock[f].rtx
    /\ sock' = [sock EXCEPT ![f].rtx = FALSE, ![f].rtxFired = TRUE]
    /\ UNCHANGED <<lsk, nextflow, migrations, net>>

TimewaitFire(f) ==
    /\ f \in Racers
    /\ sock[f].tw
    /\ sock' = [sock EXCEPT ![f].tw = FALSE, ![f].twFired = TRUE]
    /\ UNCHANGED <<lsk, nextflow, migrations, net>>


\* Mutant: the timer is not re-armed after a retransmission.
MutRexmitOnce(sk) ==
    IF sk.retransmits = MaxRetransmits
    THEN serval_sal_done([sk EXCEPT !.err = "ETIMEDOUT"])
    ELSE [IF sk.q = NoCtrl THEN sk
          ELSE serval_sal_transmit_skb(sk, sk.q.flags, sk.q.verno, FALSE)
            EXCEPT !.retransmits = @ + 1]

\* serval_sal_rexmit_timeout: give up at the limit, else retransmit the head
\* of the queue (if there is one) and re-arm.
serval_sal_rexmit_timeout(sk) ==
    IF sk.retransmits = MaxRetransmits
    THEN serval_sal_done([sk EXCEPT !.err = "ETIMEDOUT"])
    ELSE [IF sk.q = NoCtrl THEN sk
          ELSE serval_sal_transmit_skb(sk, sk.q.flags, sk.q.verno, FALSE)
            EXCEPT !.retransmits = @ + 1, !.rtx = TRUE]

\* History, in the field late: a callback of a timer came after the packet it
\* was for, or after the end of the socket, because it had waited for the lock
\* or because serval_release had let go of it.
Ended(sk) == sk.dead /\ sk.state = "CLOSED"

RexmitRuns(sk) ==
    IF sk.rtxFired
    THEN [sk EXCEPT !.rtxFired = FALSE, !.late = @ \/ sk.q = NoCtrl \/ Ended(sk)]
    ELSE [sk EXCEPT !.rtx = FALSE, !.late = @ \/ sk.releasing]

TimewaitRuns(sk) ==
    IF sk.twFired
    THEN [sk EXCEPT !.twFired = FALSE, !.late = @ \/ Ended(sk)]
    ELSE [sk EXCEPT !.tw = FALSE, !.late = @ \/ sk.releasing]

RexmitTimeout(f) ==
    /\ sock[f].rtx \/ sock[f].rtxFired
    /\ Commit(f, serval_sal_rexmit_timeout(RexmitRuns(sock[f])))
    /\ UNCHANGED <<lsk, nextflow, migrations>>

\* serval_sal_timewait_timeout: TIMEWAIT and FINWAIT2 end here.
TimewaitTimeout(f) ==
    /\ sock[f].tw \/ sock[f].twFired
    /\ Commit(f, serval_sal_done(TimewaitRuns(sock[f])))
    /\ UNCHANGED <<lsk, nextflow, migrations>>

\* serval_sock_request_queue_prune, run by TCP's keepalive timer only (the
\* SAL's own serval_sal_synack_timeout is empty): expired request socks go.
Prune ==
    /\ Transport = "tcp"
    /\ lsk.state = "LISTEN"
    /\ \E expired \in SUBSET lsk.syn :
          /\ expired # {}
          /\ lsk' = [lsk EXCEPT !.syn = @ \ expired,
                                !.qlen = @ - Cardinality(expired)]
    /\ UNCHANGED <<sock, nextflow, migrations, net>>

-----------------------------------------------------------------------------
\* serval_sal_rcv: a packet in the network arrives.  Anything but a pure SYN is
\* demuxed on its flow; what has no flow goes to the listener if it carries a
\* serviceID and is dropped otherwise.

demux_flow(p) == ~pure_syn(p) /\ p.dst \in Flows /\ sock[p.dst].hashed

RcvFlow(p) ==
    /\ demux_flow(p)
    /\ Commit(p.dst, serval_sal_state_process(sock[p.dst], p))
    /\ UNCHANGED <<lsk, nextflow, migrations>>

demux_service(p) == ~demux_flow(p) /\ p.srvext /\ lsk.state = "LISTEN"

\* A SYN whose request sock exists is answered again.
RcvDuplicateSyn(p) ==
    /\ demux_service(p) /\ pure_syn(p)
    /\ \E r \in serval_sal_find_rsk(p) : net' = net \cup serval_sal_send_synack(r)
    /\ UNCHANGED <<sock, lsk, nextflow, migrations>>

\* serval_sal_rcv_syn: a new request sock, unless a queue is full.
RcvSyn(p) ==
    /\ demux_service(p) /\ pure_syn(p)
    /\ serval_sal_find_rsk(p) = {}
    /\ ~request_queue_is_full /\ ~acceptq_is_full
    /\ nextflow \in Servers
    /\ LET r == [peer |-> p.src, local |-> nextflow, rcvseq |-> p.verno,
                 raddr |-> p.saddr, laddr |-> p.daddr]
       IN /\ lsk' = [lsk EXCEPT !.syn = @ \cup {r}, !.qlen = @ + 1]
          /\ net' = net \cup serval_sal_send_synack(r)
    /\ nextflow' = nextflow + 1
    /\ UNCHANGED <<sock, migrations>>

\* serval_sal_request_sock_handle and serval_sal_child_process: the ACK that
\* matches a request sock makes a child, which processes the same packet.
RcvConnAck(p) ==
    /\ demux_service(p) /\ "ACK" \in p.flags
    /\ \E r \in lsk.syn :
          /\ r.local = p.dst /\ r.peer = p.src
          /\ p.verno = Add(r.rcvseq, 1) /\ p.ackno = Add(ISS[r.local], 1)
          /\ lsk' = [lsk EXCEPT !.syn = @ \ {r}, !.accept = Append(@, r),
                                !.qlen = @ - 1, !.ackBacklog = @ + 1]
          /\ Commit(r.local, serval_sal_state_process(
                                 serval_sal_create_respond_sock(r), p))
    /\ UNCHANGED <<nextflow, migrations>>

\* No listener is left for the serviceID: anything but a SYN is reset.
RcvNoMatch(p) ==
    /\ ~demux_flow(p) /\ p.srvext /\ lsk.state # "LISTEN"
    /\ ~pure_syn(p)
    /\ net' = net \cup serval_sal_send_reset(p)
    /\ UNCHANGED <<sock, lsk, nextflow, migrations>>

Deliver(p) ==
    \/ RcvFlow(p)
    \/ RcvDuplicateSyn(p)
    \/ RcvSyn(p)
    \/ RcvConnAck(p)
    \/ RcvNoMatch(p)

-----------------------------------------------------------------------------
Init ==
    /\ sock = [f \in Flows |-> InitSock(f)]
    /\ lsk = [state |-> "LISTEN", syn |-> {}, accept |-> << >>,
              qlen |-> 0, ackBacklog |-> 0]
    /\ nextflow = NumClients
    /\ migrations = [f \in Flows |-> 0]
    /\ net = {}

Next ==
    \/ \E f \in Clients : Connect(f)
    \/ \E f \in Flows :
          \/ \E unread \in BOOLEAN : Close(f, unread)
          \/ ReleaseEnd(f)
          \/ TcpFinAcked(f) \/ TcpWriteErr(f)
          \/ \E a \in AddrsOf(f) : Migrate(f, a)
          \/ RexmitFire(f) \/ TimewaitFire(f)
          \/ RexmitTimeout(f) \/ TimewaitTimeout(f)
    \/ Accept \/ ListenStop \/ Prune
    \/ \E p \in net : Deliver(p)

Spec == Init /\ [][Next]_vars

\* The kernel runs every armed timer; the network and TCP owe nothing.
Fairness ==
    \A f \in Flows : WF_vars(RexmitTimeout(f)) /\ WF_vars(TimewaitTimeout(f))

FairSpec == Spec /\ Fairness

-----------------------------------------------------------------------------
\* Properties.

\* Every field stays in its range; retransmits never passes the limit.
TypeOK ==
    /\ sock \in [Flows -> Sock]
    /\ lsk \in Listener
    /\ nextflow \in NumClients..NumClients + NumFlows
    /\ migrations \in [Flows -> Nat]
    /\ \A f \in Flows : migrations[f] <= MaxMigrations[f]
    /\ net \subseteq Packet

\* serval_sal_queue_ctrl_skb sets una to the queued verno and
\* serval_sal_ack_process moves una: whatever the order of ACKs, an override by
\* a FIN or an RSYN, or the wrap of the verno space, the packet waiting in the
\* control queue is the oldest unacknowledged one.
QueueHeadIsUna ==
    \A f \in Flows : sock[f].q # NoCtrl => sock[f].q.verno = sock[f].una

\* A queued control packet of a live socket always has a retransmission coming
\* (clean_rtx_queue, queue_and_push and rexmit_timeout hand the timer around).
QueuedHasTimer ==
    \A f \in Flows :
        sock[f].q # NoCtrl /\ sock[f].state # "CLOSED"
            => sock[f].rtx \/ sock[f].rtxFired

\* "If we removed the first packet in the queue, we should also clear the
\* retransmit timer since it is no longer valid": a timer runs without a packet
\* only if a callback that waited for the lock came after the packet was gone
\* and serval_sal_rexmit_timeout set the timer all the same.
TimerOnlyWhileQueued ==
    \A f \in Flows : sock[f].rtx /\ sock[f].q = NoCtrl => sock[f].late

\* serval_sock_destroy drops the socket's last reference: the close path, a
\* reset, TCP giving up and the two timers may all end a socket, but only one
\* of them destroys it, unless a timer's callback came after the end: neither
\* serval_sal_done nor serval_sock_destroy looks whether it was there before.
DestroyedOnce ==
    \A f \in Flows : sock[f].destroyed = 2 => sock[f].late

\* Without the callbacks that came late: false, since they do.
NeverDestroyedAgain == \A f \in Flows : sock[f].destroyed < 2

\* The two ends of one connection.
Established(f) == sock[f].peer # NoFlow /\ sock[sock[f].peer].peer = f

\* serval_sal_request_sock_handle makes a child only for an opener that took
\* this very child's SYN-ACK and left REQUEST; so an opener has at most one
\* child, however often its SYN is duplicated or its request sock is pruned.
HandshakeAgreement ==
    \A s \in Servers : sock[s].state # "INIT" =>
        /\ sock[s].peer \in Clients
        /\ Established(s)
        /\ sock[sock[s].peer].state \notin {"INIT", "REQUEST"}

\* rcv_seq.nxt (set from the verno of SYN, FIN and RSYN) never passes what the
\* peer has numbered: otherwise its next control packet would count as old.
RcvNotAhead ==
    \A f \in Flows : Established(f) =>
        ~after(sock[f].rcvnxt, sock[sock[f].peer].nxt)

\* snd_seq.una (moved by serval_sal_ack_process) is never beyond what the peer
\* has received.
AckNotInvented ==
    \A f \in Flows : Established(f) =>
        ~after(sock[f].una, sock[sock[f].peer].rcvnxt)

\* The two counters of the listening socket are the lengths of its queues
\* (serval_sock_request_queue_added/removed, sk_acceptq_added/removed).
ListenerCounts ==
    /\ lsk.qlen = Cardinality(lsk.syn)
    /\ lsk.ackBacklog = Len(lsk.accept)

\* serval_sal_rcv_syn checks each queue's length when a SYN arrives, not when
\* the ACK moves a request sock to the accept queue: the accept queue may pass
\* its backlog, but the two queues together are bounded.
QueuesBounded ==
    Len(lsk.accept) + Cardinality(lsk.syn) <= Backlog + MaxRequests + 1

\* After a migration (both ends back in RSYN_INITIAL, nothing pending) each end
\* sends to the address the other one uses.
AddressesAgree ==
    \A f \in Flows :
        LET g == sock[f].peer
        IN /\ Established(f)
           /\ sock[f].state = "CONNECTED" /\ sock[g].state = "CONNECTED"
           /\ sock[f].sal = "RSYN_INITIAL" /\ sock[g].sal = "RSYN_INITIAL"
           /\ sock[f].migdev = NoAddr /\ sock[g].migdev = NoAddr
           => sock[f].daddr = sock[g].saddr

\* While one end moves, the other, which stays, knows an address (inet_daddr or
\* mig_daddr) that the mover has or is moving to: the flow is never out of reach.
DaddrReachable ==
    \A f \in Flows : Established(f) /\ migrations[f] = 0 =>
        ({sock[f].daddr, sock[f].migdaddr} \ {NoAddr})
            \cap {sock[sock[f].peer].saddr, sock[sock[f].peer].migdev} # {}

\* A connect is decided: serval_sal_rexmit_timeout answers for a lost SYN.
RequestEnds ==
    \A c \in Clients : sock[c].state = "REQUEST" ~> sock[c].state # "REQUEST"

\* TCP has not sent its own FIN, or not had it acknowledged, and not given up.
HeldBack(f) == sock[f].finPending /\ sock[f].state # "CLOSED"

\* A close comes to its end whatever the network loses: FIN retransmission or
\* the FINWAIT2/TIMEWAIT timer closes the socket, unless TCP holds the SAL's FIN
\* back for ever, which it may (a peer whose window stays shut is probed
\* without end).
CloseCompletes ==
    \A f \in Flows :
        \/ <>[]HeldBack(f)
        \/ sock[f].state \in {"FINWAIT1", "FINWAIT2", "CLOSING", "TIMEWAIT", "LASTACK"}
              ~> sock[f].state = "CLOSED"

\* "Just send another RSYN+ACK to acknowledge the new address change": a
\* migration whose RSYN-ACK is lost or late still ends, with the new address or
\* with the end of the connection.
MigrationEnds ==
    \A f \in Flows : sock[f].sal = "RSYN_SENT" ~>
        sock[f].sal = "RSYN_INITIAL" \/ sock[f].state = "CLOSED"

\* "We've received our FIN-ACK already": in FINWAIT2 the FIN is acknowledged
\* and no longer queued.
FinWait2Acked ==
    \A f \in Flows : sock[f].state = "FINWAIT2" => sock[f].q = NoCtrl

=============================================================================
