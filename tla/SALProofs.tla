----------------------------- MODULE SALProofs -----------------------------
(***************************************************************************)
(* Theorems about SAL, for every verno space, number of openers and flows, *)
(* limit and timer behaviour.  Each operator on a socket gets a lemma that *)
(* it preserves SockInv: the socket's type, and that the queued control    *)
(* packet is the oldest unacknowledged one.                                *)
(***************************************************************************)
EXTENDS SAL, FiniteSetTheorems, TLAPS

SockInv(sk) == sk \in Sock /\ (sk.q # NoCtrl => sk.q.verno = sk.una)

-----------------------------------------------------------------------------
\* Verno arithmetic.

\* Adding to a verno wraps around inside the verno space.
LEMMA AddType ==
    ASSUME NEW a \in Seq32, NEW n \in Nat
    PROVE  Add(a, n) \in Seq32
BY SALAssumption DEF Add, Seq32

\* The small constants are vernos, and zero retransmissions are within limits.
LEMMA Constants ==
    /\ 0 \in Seq32 /\ 1 \in Nat
    /\ 0 \in 0..MaxRetransmits /\ 0 \in 0..2
    /\ \A f \in Flows : ISS[f] \in Seq32
BY SALAssumption DEF Seq32

\* Reduction of a difference of two vernos modulo the size of the space.
LEMMA ModDifference ==
    ASSUME NEW M \in Nat, M > 0, NEW x \in 0..M - 1
    PROVE  x % M = x /\ (x # 0 => (-x) % M = M - x)
OBVIOUS

\* before() and after() miss no pair: a verno that is neither before nor after
\* another one equals it.
LEMMA NeitherBeforeNorAfter ==
    ASSUME NEW a \in Seq32, NEW b \in Seq32, ~before(a, b), ~after(a, b)
    PROVE  a = b
<1>1. SeqMod \in Nat /\ SeqMod >= 4 /\ SeqMod % 2 = 0
  BY SALAssumption, Zenon
<1> QED BY <1>1, ModDifference DEF before, after, Seq32

-----------------------------------------------------------------------------
\* Transmission.

\* serval_sal_transmit_skb adds one well-formed packet and touches nothing else.
LEMMA TransmitInv ==
    ASSUME NEW sk, SockInv(sk), NEW flags \in SUBSET Flags, NEW verno \in Seq32,
           NEW conn \in BOOLEAN
    PROVE  SockInv(serval_sal_transmit_skb(sk, flags, verno, conn))
<1> DEFINE src == IF "RSYN" \in flags /\ sk.migdev # NoAddr
                  THEN sk.migdev ELSE sk.saddr
           dst == IF "RSYN" \in flags /\ sk.sal = "RSYN_RECV" THEN sk.migdaddr
                  ELSE IF sk.daddr = NoAddr THEN ServerAddr ELSE sk.daddr
           p == [src |-> sk.id, dst |-> sk.peer, flags |-> flags,
                 verno |-> verno,
                 ackno |-> IF "ACK" \in flags THEN sk.rcvnxt ELSE 0,
                 srvext |-> conn \/ "SYN" \in flags,
                 saddr |-> src, daddr |-> dst]
<1>1. src \in Addrs \cup {NoAddr} /\ dst \in Addrs \cup {NoAddr}
  BY SALAssumption, Zenon DEF SockInv, Sock, Addrs
<1>2. p \in Packet
  BY <1>1, Constants, Zenon DEF SockInv, Sock, Packet
<1>3. serval_sal_transmit_skb(sk, flags, verno, conn)
        = [sk EXCEPT !.out = @ \cup {p}]
  BY Zenon DEF serval_sal_transmit_skb
<1> HIDE DEF p
<1> QED BY <1>2, <1>3 DEF SockInv, Sock

\* Stopping or starting the retransmission timer.
LEMMA RtxInv ==
    ASSUME NEW sk, SockInv(sk), NEW b \in BOOLEAN
    PROVE  SockInv([sk EXCEPT !.rtx = b]) /\ [sk EXCEPT !.rtx = b].q = sk.q
<1>1. sk \in Sock
  BY Zenon DEF SockInv
<1>2. [sk EXCEPT !.rtx = b] \in Sock
  BY <1>1, Zenon DEF Sock
<1>3. [sk EXCEPT !.rtx = b].q = sk.q /\ [sk EXCEPT !.rtx = b].una = sk.una
  BY <1>1, SMT DEF Sock
<1> QED BY <1>2, <1>3, Zenon DEF SockInv

\* A socket with an empty queue has nothing to satisfy but its type.
LEMMA EmptyQueue ==
    ASSUME NEW sk \in Sock, sk.q = NoCtrl
    PROVE  SockInv(sk)
BY Zenon DEF SockInv

\* A change that leaves the queue and una alone keeps SockInv.
LEMMA SameQueue ==
    ASSUME NEW sk, SockInv(sk), NEW c \in Sock, c.q = sk.q, c.una = sk.una
    PROVE  SockInv(c)
BY Zenon DEF SockInv

\* Emptying the queue, or re-arming the timer for what stays in it.
LEMMA CleanInv ==
    ASSUME NEW sk, SockInv(sk), NEW ackno \in Seq32, NEW all \in BOOLEAN
    PROVE  LET c == serval_sal_clean_rtx_queue(sk, ackno, all)
           IN /\ SockInv(c)
              /\ c.q = NoCtrl \/ (c.q = sk.q /\ ~after(ackno, sk.q.verno))
<1> DEFINE c == serval_sal_clean_rtx_queue(sk, ackno, all)
           e == [sk EXCEPT !.q = NoCtrl, !.rtx = FALSE, !.retransmits = 0]
<1>1. CASE sk.q = NoCtrl
  BY <1>1, Zenon DEF serval_sal_clean_rtx_queue, SockInv
<1>2. CASE sk.q # NoCtrl /\ (all \/ after(ackno, sk.q.verno))
  <2>1. sk \in Sock
    BY Zenon DEF SockInv
  <2>2. e \in Sock
    BY <2>1, Constants, Zenon DEF Sock
  <2>3. e.q = NoCtrl
    BY <2>1, Zenon DEF Sock
  <2>4. SockInv(e)
    BY <2>2, <2>3, EmptyQueue, Zenon
  <2> QED BY <1>2, <2>3, <2>4, Zenon DEF serval_sal_clean_rtx_queue
<1>3. CASE sk.q # NoCtrl /\ ~(all \/ after(ackno, sk.q.verno))
  BY <1>3, RtxInv, Zenon DEF serval_sal_clean_rtx_queue
<1> QED BY <1>1, <1>2, <1>3, Zenon

\* The queued packet becomes the oldest unacknowledged one.
LEMMA QueueCtrlInv ==
    ASSUME NEW sk, SockInv(sk), NEW skb \in CtrlSkb
    PROVE  SockInv(serval_sal_queue_ctrl_skb(sk, skb))
<1> DEFINE c == serval_sal_queue_ctrl_skb(sk, skb)
<1>1. skb.verno \in Seq32
  BY Zenon DEF CtrlSkb
<1>2. c \in Sock /\ c.q = skb /\ c.una = skb.verno
  BY <1>1, ZenonT(40) DEF serval_sal_queue_ctrl_skb, SockInv, Sock
<1> QED BY <1>2, Zenon DEF SockInv

\* Overriding the queued packet with a merged one.
LEMMA PushInv ==
    ASSUME NEW sk, SockInv(sk), NEW flags \in SUBSET Flags, NEW verno \in Seq32
    PROVE  SockInv(serval_sal_queue_and_push(sk, flags, verno))
<1> DEFINE merged == IF sk.q = NoCtrl THEN flags ELSE flags \cup sk.q.flags
           clean == serval_sal_clean_rtx_queue(sk, 0, TRUE)
           skb == [flags |-> merged, verno |-> verno]
           queued == serval_sal_queue_ctrl_skb(clean, skb)
           armed == [queued EXCEPT !.rtx = TRUE]
<1>1. merged \in SUBSET Flags
  BY Zenon DEF SockInv, Sock, CtrlSkb
<1>2. SockInv(clean)
  BY CleanInv, Constants, Zenon
<1>3. skb \in CtrlSkb
  BY <1>1, Zenon DEF CtrlSkb
<1> HIDE DEF skb, merged, clean
<1>4. SockInv(queued)
  BY <1>2, <1>3, QueueCtrlInv, Zenon
<1> HIDE DEF queued
<1>5. SockInv(armed)
  BY <1>4, RtxInv, Zenon
<1> HIDE DEF armed
<1>6. SockInv(serval_sal_transmit_skb(armed, merged, verno, FALSE))
  BY <1>1, <1>5, TransmitInv, Zenon
<1> QED
  BY <1>6, Zenon DEF serval_sal_queue_and_push, armed, queued, clean, skb, merged

\* A plain ACK leaves the socket as it is.
LEMMA SendAckInv ==
    ASSUME NEW sk, SockInv(sk)
    PROVE  SockInv(serval_sal_send_ack(sk))
<1>1. sk.nxt \in Seq32 /\ {"ACK"} \in SUBSET Flags
  BY Zenon DEF SockInv, Sock, Flags
<1> QED BY <1>1, TransmitInv, Zenon DEF serval_sal_send_ack

-----------------------------------------------------------------------------
\* Opening, ending and moving a connection.

\* Numbering a packet.
LEMMA NxtInv ==
    ASSUME NEW sk, SockInv(sk), NEW n \in Seq32
    PROVE  SockInv([sk EXCEPT !.nxt = n])
<1>1. sk \in Sock
  BY Zenon DEF SockInv
<1>2. [sk EXCEPT !.nxt = n] \in Sock
  BY <1>1, Zenon DEF Sock
<1>3. [sk EXCEPT !.nxt = n].q = sk.q /\ [sk EXCEPT !.nxt = n].una = sk.una
  BY <1>1, SMT DEF Sock
<1> QED BY <1>2, <1>3, SameQueue, Zenon

\* The SYN takes the initial verno.
LEMMA SendSynInv ==
    ASSUME NEW sk, SockInv(sk)
    PROVE  SockInv(serval_sal_send_syn(sk))
<1>1. ISS[sk.id] \in Seq32
  BY Constants, Zenon DEF SockInv, Sock
<1>2. Add(ISS[sk.id], 1) \in Seq32
  BY <1>1, AddType, Constants, Zenon
<1>3. SockInv([sk EXCEPT !.nxt = Add(ISS[sk.id], 1)])
  BY <1>2, NxtInv, Zenon
<1>4. {"SYN"} \in SUBSET Flags
  BY Zenon DEF Flags
<1> QED BY <1>1, <1>3, <1>4, PushInv, Zenon DEF serval_sal_send_syn

\* Tearing a socket down empties its queue.
LEMMA DestroyInv ==
    ASSUME NEW sk, SockInv(sk)
    PROVE  SockInv(serval_sock_destroy(sk))
<1> DEFINE n == IF sk.destroyed = 2 THEN 2 ELSE sk.destroyed + 1
           e == [sk EXCEPT !.rtx = FALSE, !.tw = FALSE, !.q = NoCtrl,
                           !.destroyed = n]
<1>1. sk \in Sock
  BY Zenon DEF SockInv
<1>2. sk.destroyed \in 0..2
  BY <1>1, Zenon DEF Sock
<1>3. n \in 0..2
  BY <1>2
<1>4. serval_sock_destroy(sk) = IF ~sk.dead THEN sk ELSE e
  BY Zenon DEF serval_sock_destroy
<1> HIDE DEF n
<1>5. e \in Sock
  BY <1>1, <1>3, Zenon DEF Sock
<1>6. e.q = NoCtrl
  BY <1>1, Zenon DEF Sock
<1> HIDE DEF e
<1>7. SockInv(e)
  BY <1>5, <1>6, EmptyQueue, Zenon
<1> QED BY <1>4, <1>7, Zenon

\* A state change, with or without leaving the flow table.
LEMMA SetStateInv ==
    ASSUME NEW sk, SockInv(sk), NEW new \in States
    PROVE  SockInv(serval_sock_set_state(sk, new))
<1> DEFINE b == sk.hashed /\ new # "CLOSED"
           e == [sk EXCEPT !.state = new, !.hashed = b]
<1>1. sk \in Sock
  BY Zenon DEF SockInv
<1>2. b \in BOOLEAN
  OBVIOUS
<1>3. serval_sock_set_state(sk, new) = e
  BY Zenon DEF serval_sock_set_state
<1> HIDE DEF b
<1>4. e \in Sock
  BY <1>1, <1>2, Zenon DEF Sock
<1>5. e.q = sk.q
  BY <1>1, Zenon DEF Sock
<1>6. e.una = sk.una
  BY <1>1, Zenon DEF Sock
<1> HIDE DEF e
<1> QED BY <1>3, <1>4, <1>5, <1>6, SameQueue, Zenon

\* Recording an error.
LEMMA ErrInv ==
    ASSUME NEW sk, SockInv(sk), NEW err \in Errors
    PROVE  SockInv([sk EXCEPT !.err = err])
<1> DEFINE e == [sk EXCEPT !.err = err]
<1>1. sk \in Sock
  BY Zenon DEF SockInv
<1>2. e \in Sock
  BY <1>1, Zenon DEF Sock
<1>3. e.q = sk.q
  BY <1>1, Zenon DEF Sock
<1>4. e.una = sk.una
  BY <1>1, Zenon DEF Sock
<1> HIDE DEF e
<1>5. SockInv(e)
  BY <1>2, <1>3, <1>4, SameQueue, Zenon
<1> QED BY <1>5, Zenon DEF e

\* The end of a socket.
LEMMA DoneInv ==
    ASSUME NEW sk, SockInv(sk)
    PROVE  SockInv(serval_sal_done(sk))
<1>1. SockInv(serval_sock_set_state(sk, "CLOSED"))
  BY SetStateInv, Zenon DEF States
<1>2. SockInv([serval_sock_set_state(sk, "CLOSED") EXCEPT !.rtx = FALSE])
  BY <1>1, RtxInv, Zenon
<1> QED BY <1>2, DestroyInv, Zenon DEF serval_sal_done

\* Entering TIMEWAIT or FINWAIT2.
LEMMA TimewaitInv ==
    ASSUME NEW sk, SockInv(sk), NEW state \in States
    PROVE  SockInv(serval_sal_timewait(sk, state))
<1> DEFINE s == serval_sock_set_state(sk, state)
           e == [s EXCEPT !.tw = TRUE]
<1>1. SockInv(s)
  BY SetStateInv, Zenon
<1>2. serval_sal_timewait(sk, state) = e
  BY Zenon DEF serval_sal_timewait
<1> HIDE DEF s
<1>3. s \in Sock
  BY <1>1, Zenon DEF SockInv
<1>4. e \in Sock
  BY <1>3, Zenon DEF Sock
<1>5. e.q = s.q
  BY <1>3, Zenon DEF Sock
<1>6. e.una = s.una
  BY <1>3, Zenon DEF Sock
<1> HIDE DEF e
<1> QED BY <1>1, <1>2, <1>4, <1>5, <1>6, SameQueue, Zenon

\* The next verno of a socket is a verno, and so is its successor.
LEMMA NxtType ==
    ASSUME NEW sk, SockInv(sk)
    PROVE  sk.nxt \in Seq32 /\ Add(sk.nxt, 1) \in Seq32
<1>1. sk.nxt \in Seq32
  BY Zenon DEF SockInv, Sock
<1> QED BY <1>1, AddType, Constants, Zenon

\* A step of the migration state machine.
LEMMA SalInv ==
    ASSUME NEW sk, SockInv(sk), NEW sal \in SalStates
    PROVE  SockInv([sk EXCEPT !.sal = sal])
<1> DEFINE e == [sk EXCEPT !.sal = sal]
<1>1. sk \in Sock
  BY Zenon DEF SockInv
<1>2. e \in Sock
  BY <1>1, Zenon DEF Sock
<1>3. e.q = sk.q
  BY <1>1, Zenon DEF Sock
<1>4. e.una = sk.una
  BY <1>1, Zenon DEF Sock
<1> HIDE DEF e
<1>5. SockInv(e)
  BY <1>2, <1>3, <1>4, SameQueue, Zenon
<1> QED BY <1>5, Zenon DEF e

\* The RSYN, with a FIN if one was sent before.
LEMMA SendRsynInv ==
    ASSUME NEW sk, SockInv(sk), NEW verno \in Seq32
    PROVE  SockInv(serval_sal_send_rsyn(sk, verno))
<1> DEFINE sal == CASE sk.sal = "RSYN_INITIAL" -> "RSYN_SENT"
                    [] sk.sal = "RSYN_RECV" -> "RSYN_SENT_RECV"
                    [] OTHER -> sk.sal
           moved == [sk EXCEPT !.sal = sal]
           fin == IF sk.state \in {"FINWAIT1", "CLOSING", "LASTACK"}
                  THEN {"FIN"} ELSE {}
<1>1. sk.sal \in SalStates
  BY Zenon DEF SockInv, Sock
<1>2. sal \in SalStates
  BY <1>1, Zenon DEF SalStates
<1>3. {"RSYN"} \cup fin \in SUBSET Flags
  BY Zenon DEF Flags
<1>4. serval_sal_send_rsyn(sk, verno)
        = IF sk.state \in {"REQUEST", "LISTEN", "CLOSED"} THEN sk
          ELSE serval_sal_queue_and_push(moved, {"RSYN"} \cup fin, verno)
  BY Zenon DEF serval_sal_send_rsyn
<1> HIDE DEF sal, fin
<1>5. SockInv(moved)
  BY <1>2, SalInv, Zenon
<1> HIDE DEF moved
<1>6. SockInv(serval_sal_queue_and_push(moved, {"RSYN"} \cup fin, verno))
  BY <1>3, <1>5, PushInv, Zenon
<1> QED BY <1>4, <1>6, Zenon

\* A migration.
LEMMA MigrateInv ==
    ASSUME NEW sk, SockInv(sk)
    PROVE  SockInv(serval_sal_migrate(sk))
<1>1. SockInv([sk EXCEPT !.nxt = Add(sk.nxt, 1)])
  BY NxtType, NxtInv, Zenon
<1>2. SockInv(serval_sal_send_rsyn([sk EXCEPT !.nxt = Add(sk.nxt, 1)], sk.nxt))
  BY <1>1, NxtType, SendRsynInv, Zenon
<1> QED BY <1>2, Zenon DEF serval_sal_migrate

\* The FIN consumes a verno and overrides what is queued.
LEMMA SendFinInv ==
    ASSUME NEW sk, SockInv(sk)
    PROVE  SockInv(serval_sal_send_fin(sk))
<1> DEFINE mig == CASE sk.sal = "RSYN_SENT" -> {"RSYN"}
                    [] sk.sal = "RSYN_RECV" -> {"RSYN", "ACK"}
                    [] OTHER -> {}
           n == Add(sk.nxt, 1)
           e == [sk EXCEPT !.nxt = n, !.finSent = TRUE, !.finPending = FALSE]
<1>1. {"FIN"} \cup mig \in SUBSET Flags
  BY Zenon DEF Flags
<1>2. sk \in Sock /\ n \in Seq32 /\ sk.nxt \in Seq32
  BY NxtType, Zenon DEF SockInv
<1>3. serval_sal_send_fin(sk)
        = serval_sal_queue_and_push(e, {"FIN"} \cup mig, sk.nxt)
  BY Zenon DEF serval_sal_send_fin
<1> HIDE DEF n, mig
<1>4. e \in Sock
  BY <1>2, Zenon DEF Sock
<1>5. e.q = sk.q
  BY <1>2, Zenon DEF Sock
<1>6. e.una = sk.una
  BY <1>2, Zenon DEF Sock
<1> HIDE DEF e
<1>7. SockInv(e)
  BY <1>4, <1>5, <1>6, SameQueue, Zenon
<1> QED BY <1>1, <1>2, <1>3, <1>7, PushInv, Zenon

\* A reset sent because unread data is thrown away.
LEMMA ActiveResetInv ==
    ASSUME NEW sk, SockInv(sk)
    PROVE  SockInv(serval_sal_send_active_reset(sk))
<1>1. {"RST", "ACK"} \in SUBSET Flags
  BY Zenon DEF Flags
<1> QED BY <1>1, NxtType, TransmitInv, Zenon DEF serval_sal_send_active_reset

\* Waiting for the transport's own FIN.
LEMMA FinPendingInv ==
    ASSUME NEW sk, SockInv(sk)
    PROVE  SockInv([sk EXCEPT !.finPending = TRUE])
<1> DEFINE e == [sk EXCEPT !.finPending = TRUE]
<1>1. sk \in Sock
  BY Zenon DEF SockInv
<1>2. e \in Sock
  BY <1>1, Zenon DEF Sock
<1>3. e.q = sk.q
  BY <1>1, Zenon DEF Sock
<1>4. e.una = sk.una
  BY <1>1, Zenon DEF Sock
<1> HIDE DEF e
<1>5. SockInv(e)
  BY <1>2, <1>3, <1>4, SameQueue, Zenon
<1> QED BY <1>5, Zenon DEF e

\* Every way a close can go.
LEMMA CloseInv ==
    ASSUME NEW sk, SockInv(sk), NEW unread
    PROVE  SockInv(serval_sal_close(sk, unread))
<1> DEFINE fin == serval_sock_set_state(
                      sk, IF sk.state = "CLOSEWAIT" THEN "LASTACK"
                          ELSE "FINWAIT1")
<1>1. SockInv(fin)
  BY SetStateInv, Zenon DEF States
<1>2. SockInv(serval_sal_done(sk))
  BY DoneInv, Zenon
<1> HIDE DEF fin
<1>3. SockInv(serval_sal_send_fin(fin))
  BY <1>1, SendFinInv, Zenon
<1>4. SockInv(serval_sock_set_state(fin, "CLOSED"))
  BY <1>1, SetStateInv, Zenon DEF States
<1>5. SockInv(serval_sal_send_active_reset(serval_sock_set_state(fin, "CLOSED")))
  BY <1>4, ActiveResetInv, Zenon
<1>6. SockInv([fin EXCEPT !.finPending = TRUE])
  BY <1>1, FinPendingInv, Zenon
<1> QED BY <1>2, <1>3, <1>5, <1>6, Zenon DEF serval_sal_close, fin

\* Closing and orphaning the socket.
LEMMA ReleaseInv ==
    ASSUME NEW sk, SockInv(sk), NEW unread
    PROVE  SockInv(serval_release(sk, unread))
<1> DEFINE shut == IF sk.state = "CLOSED" THEN sk
                   ELSE serval_sal_close(sk, unread)
           b == shut.state = "CLOSED"
           e == [shut EXCEPT !.dead = TRUE, !.releasing = b]
<1>1. SockInv(shut)
  BY CloseInv, Zenon
<1>2. serval_release(sk, unread) = e
  BY Zenon DEF serval_release
<1>3. b \in BOOLEAN
  OBVIOUS
<1> HIDE DEF shut, b
<1>4. shut \in Sock
  BY <1>1, Zenon DEF SockInv
<1>5. e \in Sock
  BY <1>3, <1>4, Zenon DEF Sock
<1>6. e.q = shut.q
  BY <1>4, Zenon DEF Sock
<1>7. e.una = shut.una
  BY <1>4, Zenon DEF Sock
<1> HIDE DEF e
<1>8. SockInv(e)
  BY <1>1, <1>5, <1>6, <1>7, SameQueue, Zenon
<1> QED BY <1>2, <1>8, Zenon

\* serval_release takes the lock again and destroys the socket.
LEMMA ReleaseEndInv ==
    ASSUME NEW sk, SockInv(sk)
    PROVE  SockInv(serval_sock_destroy([sk EXCEPT !.releasing = FALSE]))
<1> DEFINE e == [sk EXCEPT !.releasing = FALSE]
<1>1. sk \in Sock
  BY Zenon DEF SockInv
<1>2. e \in Sock
  BY <1>1, Zenon DEF Sock
<1>3. e.q = sk.q
  BY <1>1, Zenon DEF Sock
<1>4. e.una = sk.una
  BY <1>1, Zenon DEF Sock
<1> HIDE DEF e
<1>5. SockInv(e)
  BY <1>2, <1>3, <1>4, SameQueue, Zenon
<1>6. SockInv(serval_sock_destroy(e))
  BY <1>5, DestroyInv, Zenon
<1> QED BY <1>6, Zenon DEF e

-----------------------------------------------------------------------------
\* Reception on a socket.

\* The fields of a received packet.
LEMMA PacketType ==
    ASSUME NEW p \in Packet
    PROVE  /\ p.verno \in Seq32 /\ p.ackno \in Seq32
           /\ Add(p.verno, 1) \in Seq32
           /\ p.src \in Flows \cup {NoFlow}
           /\ p.saddr \in Addrs \cup {NoAddr} /\ p.daddr \in Addrs \cup {NoAddr}
<1>1. p.verno \in Seq32
  BY Zenon DEF Packet
<1>2. Add(p.verno, 1) \in Seq32
  BY <1>1, AddType, Constants, Zenon
<1> QED BY <1>1, <1>2, Zenon DEF Packet

\* An accepted ACK moves una, and either empties the queue or acknowledges
\* everything up to the queued packet: una stays the verno of that packet.
LEMMA AckMovesUna ==
    ASSUME NEW sk, SockInv(sk), NEW p \in Packet, ack_valid(sk, p),
           NEW all \in BOOLEAN
    PROVE  SockInv([serval_sal_clean_rtx_queue(sk, p.ackno, all)
                      EXCEPT !.una = p.ackno])
<1> DEFINE c == serval_sal_clean_rtx_queue(sk, p.ackno, all)
           e == [c EXCEPT !.una = p.ackno]
<1>1. p.ackno \in Seq32
  BY PacketType, Zenon
<1>2. SockInv(c) /\ (c.q = NoCtrl \/ (c.q = sk.q /\ ~after(p.ackno, sk.q.verno)))
  BY <1>1, CleanInv, Zenon
<1>3. ~before(p.ackno, sk.una)
  BY Zenon DEF ack_valid
<1>4. sk.una \in Seq32
  BY Zenon DEF SockInv, Sock
<1>5. c.q # NoCtrl => c.q.verno = p.ackno
  <2>1. SUFFICES ASSUME c.q # NoCtrl PROVE c.q.verno = p.ackno
    OBVIOUS
  <2>2. c.q = sk.q /\ ~after(p.ackno, sk.q.verno) /\ sk.q # NoCtrl
    BY <1>2, <2>1, Zenon
  <2>3. sk.q.verno = sk.una
    BY <2>2, Zenon DEF SockInv
  <2>4. p.ackno = sk.una
    BY <1>1, <1>3, <1>4, <2>2, <2>3, NeitherBeforeNorAfter, Zenon
  <2> QED BY <2>2, <2>3, <2>4, Zenon
<1>6. c \in Sock
  BY <1>2, Zenon DEF SockInv
<1> HIDE DEF c
<1>7. e \in Sock
  BY <1>1, <1>6, Zenon DEF Sock
<1>8. e.q = c.q
  BY <1>6, Zenon DEF Sock
<1>9. e.una = p.ackno
  BY <1>6, Zenon DEF Sock
<1> HIDE DEF e
<1>10. SockInv(e)
  BY <1>5, <1>7, <1>8, <1>9, Zenon DEF SockInv
<1> QED BY <1>10, Zenon DEF e, c

\* An ACK, with the end of the peer's migration.
LEMMA AckProcessInv ==
    ASSUME NEW sk, SockInv(sk), NEW p \in Packet
    PROVE  SockInv(serval_sal_ack_process(sk, p))
<1> DEFINE answering == sk.sal \in {"RSYN_RECV", "RSYN_SENT_RECV"}
           acked == [serval_sal_clean_rtx_queue(sk, p.ackno, answering)
                       EXCEPT !.una = p.ackno]
           sal == IF acked.sal = "RSYN_RECV" THEN "RSYN_INITIAL"
                  ELSE "RSYN_SENT"
           e == [acked EXCEPT !.sal = sal, !.daddr = sk.migdaddr,
                              !.migdaddr = NoAddr]
<1>1. CASE ~ack_valid(sk, p)
  BY <1>1, Zenon DEF serval_sal_ack_process
<1>2. CASE ack_valid(sk, p)
  <2>1. answering \in BOOLEAN
    OBVIOUS
  <2>2. serval_sal_ack_process(sk, p)
          = IF answering /\ "RSYN" \notin p.flags THEN e ELSE acked
    BY <1>2, Zenon DEF serval_sal_ack_process
  <2> HIDE DEF answering
  <2>3. SockInv(acked)
    BY <1>2, <2>1, AckMovesUna, Zenon
  <2> HIDE DEF acked
  <2>4. sal \in SalStates
    BY Zenon DEF SalStates
  <2>5. acked \in Sock /\ sk.migdaddr \in Addrs \cup {NoAddr}
    BY <2>3, Zenon DEF SockInv, Sock
  <2>6. NoAddr \in Addrs \cup {NoAddr}
    OBVIOUS
  <2> HIDE DEF sal
  <2>7. e \in Sock
    BY <2>4, <2>5, <2>6, Zenon DEF Sock
  <2>8. e.q = acked.q
    BY <2>5, Zenon DEF Sock
  <2>9. e.una = acked.una
    BY <2>5, Zenon DEF Sock
  <2> HIDE DEF e
  <2>10. SockInv(e)
    BY <2>3, <2>7, <2>8, <2>9, SameQueue, Zenon
  <2> QED BY <2>3, <2>2, <2>10, Zenon
<1> QED BY <1>1, <1>2, Zenon

\* A reset ends the socket.
LEMMA RcvResetInv ==
    ASSUME NEW sk, SockInv(sk)
    PROVE  SockInv(serval_sal_rcv_reset(sk))
<1> DEFINE err == CASE sk.state = "REQUEST" -> "ECONNREFUSED"
                    [] sk.state = "CLOSEWAIT" -> "EPIPE"
                    [] OTHER -> "ECONNRESET"
<1>1. err \in Errors
  BY Zenon DEF Errors
<1>2. serval_sal_rcv_reset(sk)
        = IF sk.state = "CLOSED" THEN sk
          ELSE serval_sal_done([sk EXCEPT !.err = err])
  BY Zenon DEF serval_sal_rcv_reset
<1> HIDE DEF err
<1>3. SockInv(serval_sal_done([sk EXCEPT !.err = err]))
  BY <1>1, ErrInv, DoneInv, Zenon
<1> QED BY <1>2, <1>3, Zenon

\* An RSYN-ACK: the mover installs its device, or notes the peer's move.
LEMMA RcvRsynackInv ==
    ASSUME NEW sk, SockInv(sk), NEW p \in Packet
    PROVE  SockInv(serval_sal_rcv_rsynack(sk, p))
<1> DEFINE d == [sk EXCEPT !.sal = "RSYN_INITIAL", !.saddr = sk.migdev,
                           !.migdev = NoAddr]
           e == [sk EXCEPT !.sal = "RSYN_RECV", !.migdaddr = p.saddr]
<1>1. sk \in Sock /\ p.saddr \in Addrs \cup {NoAddr}
  BY PacketType, Zenon DEF SockInv
<1>2. /\ NoAddr \in Addrs \cup {NoAddr} /\ sk.migdev \in Addrs \cup {NoAddr}
      /\ "RSYN_INITIAL" \in SalStates /\ "RSYN_RECV" \in SalStates
  BY <1>1, Zenon DEF SalStates, Sock
<1>3. d \in Sock
  BY <1>1, <1>2, Zenon DEF Sock
<1>4. d.q = sk.q
  BY <1>1, Zenon DEF Sock
<1>5. d.una = sk.una
  BY <1>1, Zenon DEF Sock
<1>6. e \in Sock
  BY <1>1, <1>2, Zenon DEF Sock
<1>7. e.q = sk.q
  BY <1>1, Zenon DEF Sock
<1>8. e.una = sk.una
  BY <1>1, Zenon DEF Sock
<1>9. serval_sal_rcv_rsynack(sk, p) \in
        {sk, serval_sal_send_ack(d), serval_sal_send_ack(e),
         serval_sal_send_ack(sk)}
  BY Zenon DEF serval_sal_rcv_rsynack
<1> HIDE DEF d, e
<1>10. SockInv(d) /\ SockInv(e)
  BY <1>3, <1>4, <1>5, <1>6, <1>7, <1>8, SameQueue, Zenon
<1>11. /\ SockInv(serval_sal_send_ack(d)) /\ SockInv(serval_sal_send_ack(e))
       /\ SockInv(serval_sal_send_ack(sk))
  BY <1>10, SendAckInv, Zenon
<1> QED BY <1>9, <1>11, Zenon

\* An RSYN: the answer is queued with the next, still unused, verno.
LEMMA RcvRsynInv ==
    ASSUME NEW sk, SockInv(sk), NEW p \in Packet
    PROVE  SockInv(serval_sal_rcv_rsyn(sk, p))
<1> DEFINE sal == CASE sk.sal = "RSYN_INITIAL" -> "RSYN_RECV"
                    [] sk.sal = "RSYN_SENT" -> "RSYN_SENT_RECV"
                    [] OTHER -> sk.sal
           n == Add(p.verno, 1)
           e == [sk EXCEPT !.sal = sal, !.rcvnxt = n, !.migdaddr = p.saddr]
<1>1. sk \in Sock /\ n \in Seq32 /\ p.saddr \in Addrs \cup {NoAddr}
  BY PacketType, Zenon DEF SockInv
<1>2. sk.sal \in SalStates
  BY <1>1, Zenon DEF Sock
<1>3. sal \in SalStates
  BY <1>2, Zenon DEF SalStates
<1>4. serval_sal_rcv_rsyn(sk, p)
        = IF \/ ~has_valid_control_extension(sk, p)
             \/ sk.state \in {"CLOSED", "LISTEN", "REQUEST"}
          THEN sk ELSE serval_sal_queue_and_push(e, {"RSYN", "ACK"}, sk.nxt)
  BY Zenon DEF serval_sal_rcv_rsyn
<1> HIDE DEF sal, n
<1>5. e \in Sock
  BY <1>1, <1>3, Zenon DEF Sock
<1>6. e.q = sk.q
  BY <1>1, Zenon DEF Sock
<1>7. e.una = sk.una
  BY <1>1, Zenon DEF Sock
<1> HIDE DEF e
<1>8. SockInv(e)
  BY <1>5, <1>6, <1>7, SameQueue, Zenon
<1>9. {"RSYN", "ACK"} \in SUBSET Flags
  BY Zenon DEF Flags
<1>10. SockInv(serval_sal_queue_and_push(e, {"RSYN", "ACK"}, sk.nxt))
  BY <1>8, <1>9, NxtType, PushInv, Zenon
<1> QED BY <1>4, <1>10, Zenon

\* A FIN is noted and acknowledged.
LEMMA RcvFinInv ==
    ASSUME NEW sk, SockInv(sk), NEW p \in Packet
    PROVE  SockInv(serval_sal_rcv_fin(sk, p))
<1> DEFINE n == Add(p.verno, 1)
           e == [sk EXCEPT !.finRcvd = TRUE, !.rcvnxt = n]
<1>1. sk \in Sock /\ n \in Seq32
  BY PacketType, Zenon DEF SockInv
<1>2. serval_sal_rcv_fin(sk, p)
        = IF ~has_valid_control_extension(sk, p) THEN sk
          ELSE serval_sal_send_ack(e)
  BY Zenon DEF serval_sal_rcv_fin
<1> HIDE DEF n
<1>3. e \in Sock
  BY <1>1, Zenon DEF Sock
<1>4. e.q = sk.q
  BY <1>1, Zenon DEF Sock
<1>5. e.una = sk.una
  BY <1>1, Zenon DEF Sock
<1> HIDE DEF e
<1>6. SockInv(e)
  BY <1>3, <1>4, <1>5, SameQueue, Zenon
<1> QED BY <1>2, <1>6, SendAckInv, Zenon

\* CONNECTED: an ACK, and a FIN that leads to CLOSEWAIT.
LEMMA ConnectedInv ==
    ASSUME NEW sk, SockInv(sk), NEW p \in Packet
    PROVE  SockInv(connected_state_process(sk, p))
<1> DEFINE a == serval_sal_ack_process(sk, p)
<1>1. SockInv(a)
  BY AckProcessInv, Zenon
<1>2. SockInv(serval_sal_rcv_fin(a, p))
  BY <1>1, RcvFinInv, Zenon
<1>3. SockInv(serval_sock_set_state(serval_sal_rcv_fin(a, p), "CLOSEWAIT"))
  BY <1>2, SetStateInv, Zenon DEF States
<1> QED BY <1>1, <1>3, Zenon DEF connected_state_process

\* CLOSEWAIT: a repeated FIN is acknowledged again, then the ACK is taken.
LEMMA ClosewaitInv ==
    ASSUME NEW sk, SockInv(sk), NEW p \in Packet
    PROVE  SockInv(closewait_state_process(sk, p))
<1> DEFINE r == IF "FIN" \in p.flags THEN serval_sal_send_ack(sk) ELSE sk
<1>1. SockInv(r)
  BY SendAckInv, Zenon
<1> HIDE DEF r
<1>2. SockInv(serval_sal_ack_process(r, p))
  BY <1>1, AckProcessInv, Zenon
<1> QED BY <1>2, Zenon DEF closewait_state_process, r

\* FINWAIT1: the peer's FIN and the ACK of ours, in either order or together.
LEMMA Finwait1Inv ==
    ASSUME NEW sk, SockInv(sk), NEW p \in Packet
    PROVE  SockInv(finwait1_state_process(sk, p))
<1> DEFINE a == serval_sal_ack_process(sk, p)
           r == serval_sal_rcv_fin(a, p)
<1>1. SockInv(a)
  BY AckProcessInv, Zenon
<1>2. SockInv(r)
  BY <1>1, RcvFinInv, Zenon
<1> HIDE DEF a, r
<1>3. SockInv(serval_sal_timewait(r, "TIMEWAIT"))
  BY <1>2, TimewaitInv, Zenon DEF States
<1>4. SockInv(serval_sock_set_state(r, "CLOSING"))
  BY <1>2, SetStateInv, Zenon DEF States
<1>5. SockInv(serval_sal_timewait(a, "FINWAIT2"))
  BY <1>1, TimewaitInv, Zenon DEF States
<1> QED BY <1>1, <1>3, <1>4, <1>5, Zenon DEF finwait1_state_process, a, r

\* FINWAIT2: the peer's FIN leads to TIMEWAIT.
LEMMA Finwait2Inv ==
    ASSUME NEW sk, SockInv(sk), NEW p \in Packet
    PROVE  SockInv(finwait2_state_process(sk, p))
<1>1. SockInv(serval_sal_rcv_fin(sk, p))
  BY RcvFinInv, Zenon
<1>2. SockInv(serval_sal_timewait(serval_sal_rcv_fin(sk, p), "TIMEWAIT"))
  BY <1>1, TimewaitInv, Zenon DEF States
<1> QED BY <1>2, Zenon DEF finwait2_state_process

\* CLOSING: the ACK of our FIN leads to TIMEWAIT.
LEMMA ClosingInv ==
    ASSUME NEW sk, SockInv(sk), NEW p \in Packet
    PROVE  SockInv(closing_state_process(sk, p))
<1> DEFINE a == IF ack_valid(sk, p)
                THEN serval_sal_timewait(serval_sal_ack_process(sk, p),
                                         "TIMEWAIT")
                ELSE sk
<1>1. SockInv(serval_sal_ack_process(sk, p))
  BY AckProcessInv, Zenon
<1>2. SockInv(serval_sal_timewait(serval_sal_ack_process(sk, p), "TIMEWAIT"))
  BY <1>1, TimewaitInv, Zenon DEF States
<1>3. SockInv(a)
  BY <1>2, Zenon
<1> HIDE DEF a
<1>4. SockInv(serval_sal_send_ack(a))
  BY <1>3, SendAckInv, Zenon
<1> QED BY <1>3, <1>4, Zenon DEF closing_state_process, a

\* LASTACK: the ACK of our FIN ends the socket.
LEMMA LastackInv ==
    ASSUME NEW sk, SockInv(sk), NEW p \in Packet
    PROVE  SockInv(lastack_state_process(sk, p))
<1> DEFINE r == IF "FIN" \in p.flags THEN serval_sal_send_ack(sk) ELSE sk
           a == serval_sal_ack_process(r, p)
<1>1. SockInv(r)
  BY SendAckInv, Zenon
<1> HIDE DEF r
<1>2. SockInv(a)
  BY <1>1, AckProcessInv, Zenon
<1> HIDE DEF a
<1>3. SockInv(serval_sal_done(a))
  BY <1>2, DoneInv, Zenon
<1> QED BY <1>2, <1>3, Zenon DEF lastack_state_process, a, r

\* REQUEST: a SYN-ACK with a good ackno connects the opener.
LEMMA RequestInv ==
    ASSUME NEW sk, SockInv(sk), NEW p \in Packet
    PROVE  SockInv(request_state_process(sk, p))
<1> DEFINE a == serval_sal_ack_process(sk, p)
           n == Add(p.verno, 1)
           c == [a EXCEPT !.daddr = p.saddr, !.saddr = p.daddr, !.peer = p.src,
                          !.rcvnxt = n]
           e == serval_sock_set_state(c, "CONNECTED")
<1>1. SockInv(a)
  BY AckProcessInv, Zenon
<1>2. request_state_process(sk, p)
        = IF \/ ~has_valid_control_extension(sk, p)
             \/ ~({"SYN", "ACK"} \subseteq p.flags)
             \/ ~ack_valid(sk, p)
          THEN sk ELSE serval_sal_transmit_skb(e, {"ACK"}, e.nxt, TRUE)
  BY Zenon DEF request_state_process
<1>3. /\ a \in Sock /\ n \in Seq32 /\ p.src \in Flows \cup {NoFlow}
      /\ p.saddr \in Addrs \cup {NoAddr} /\ p.daddr \in Addrs \cup {NoAddr}
  BY <1>1, PacketType, Zenon DEF SockInv
<1> HIDE DEF a, n
<1>4. c \in Sock
  BY <1>3, ZenonT(40) DEF Sock
<1>5. c.q = a.q
  BY <1>3, Zenon DEF Sock
<1>6. c.una = a.una
  BY <1>3, Zenon DEF Sock
<1> HIDE DEF c
<1>7. SockInv(c)
  BY <1>1, <1>4, <1>5, <1>6, SameQueue, Zenon
<1>8. SockInv(e)
  BY <1>7, SetStateInv, Zenon DEF States
<1> HIDE DEF e
<1>9. {"ACK"} \in SUBSET Flags
  BY Zenon DEF Flags
<1>10. SockInv(serval_sal_transmit_skb(e, {"ACK"}, e.nxt, TRUE))
  BY <1>8, <1>9, NxtType, TransmitInv, Zenon
<1> QED BY <1>2, <1>10, Zenon

\* RESPOND: the ACK of the SYN-ACK connects the child.
LEMMA RespondInv ==
    ASSUME NEW sk, SockInv(sk), NEW p \in Packet
    PROVE  SockInv(respond_state_process(sk, p))
<1> DEFINE a == serval_sal_ack_process(sk, p)
           e == [a EXCEPT !.daddr = p.saddr]
<1>1. SockInv(a)
  BY AckProcessInv, Zenon
<1>2. respond_state_process(sk, p)
        = IF ~has_valid_control_extension(sk, p) \/ ~ack_valid(sk, p) THEN sk
          ELSE serval_sock_set_state(e, "CONNECTED")
  BY Zenon DEF respond_state_process
<1>3. a \in Sock /\ p.saddr \in Addrs \cup {NoAddr}
  BY <1>1, PacketType, Zenon DEF SockInv
<1> HIDE DEF a
<1>4. e \in Sock
  BY <1>3, Zenon DEF Sock
<1>5. e.q = a.q
  BY <1>3, Zenon DEF Sock
<1>6. e.una = a.una
  BY <1>3, Zenon DEF Sock
<1> HIDE DEF e
<1>7. SockInv(e)
  BY <1>1, <1>4, <1>5, <1>6, SameQueue, Zenon
<1>8. SockInv(serval_sock_set_state(e, "CONNECTED"))
  BY <1>7, SetStateInv, Zenon DEF States
<1> QED BY <1>2, <1>8, Zenon

\* serval_sal_state_process, in every state and for every packet.
LEMMA StateProcessInv ==
    ASSUME NEW sk, SockInv(sk), NEW p \in Packet
    PROVE  SockInv(serval_sal_state_process(sk, p))
<1> DEFINE m == CASE {"RSYN", "ACK"} \subseteq p.flags ->
                       serval_sal_rcv_rsynack(sk, p)
                  [] "RSYN" \in p.flags /\ "ACK" \notin p.flags ->
                       serval_sal_rcv_rsyn(sk, p)
                  [] OTHER -> sk
<1>1. SockInv(serval_sal_send_ack(sk)) /\ SockInv(serval_sal_rcv_reset(sk))
  BY SendAckInv, RcvResetInv, Zenon
<1>2. m \in {serval_sal_rcv_rsynack(sk, p), serval_sal_rcv_rsyn(sk, p), sk}
  OBVIOUS
<1>3. SockInv(m)
  BY <1>2, RcvRsynackInv, RcvRsynInv, Zenon
<1>4. serval_sal_state_process(sk, p) \in
        {serval_sal_send_ack(sk), serval_sal_rcv_reset(sk), m,
         connected_state_process(m, p), request_state_process(m, p),
         respond_state_process(m, p), finwait1_state_process(m, p),
         finwait2_state_process(m, p), closing_state_process(m, p),
         lastack_state_process(m, p), closewait_state_process(m, p),
         serval_sal_send_ack(m)}
  BY Zenon DEF serval_sal_state_process
<1> HIDE DEF m
<1>5. /\ SockInv(connected_state_process(m, p))
      /\ SockInv(request_state_process(m, p))
      /\ SockInv(respond_state_process(m, p))
      /\ SockInv(finwait1_state_process(m, p))
      /\ SockInv(finwait2_state_process(m, p))
      /\ SockInv(closing_state_process(m, p))
      /\ SockInv(lastack_state_process(m, p))
      /\ SockInv(closewait_state_process(m, p))
      /\ SockInv(serval_sal_send_ack(m))
  BY <1>3, ConnectedInv, RequestInv, RespondInv, Finwait1Inv, Finwait2Inv,
     ClosingInv, LastackInv, ClosewaitInv, SendAckInv, Zenon
<1> QED BY <1>1, <1>3, <1>4, <1>5, Zenon

-----------------------------------------------------------------------------
\* Timers and the listening socket.

\* A retransmission stays within the limit, or ends the socket.
LEMMA RexmitInv ==
    ASSUME NEW sk, SockInv(sk)
    PROVE  SockInv(serval_sal_rexmit_timeout(sk))
<1> DEFINE t == IF sk.q = NoCtrl THEN sk
                ELSE serval_sal_transmit_skb(sk, sk.q.flags, sk.q.verno, FALSE)
           n == t.retransmits + 1
           e == [t EXCEPT !.retransmits = n, !.rtx = TRUE]
<1>1. SockInv(serval_sal_done([sk EXCEPT !.err = "ETIMEDOUT"]))
  BY ErrInv, DoneInv, Zenon DEF Errors
<1>2. serval_sal_rexmit_timeout(sk)
        = IF sk.retransmits = MaxRetransmits
          THEN serval_sal_done([sk EXCEPT !.err = "ETIMEDOUT"]) ELSE e
  BY Zenon DEF serval_sal_rexmit_timeout
<1>3. sk.q # NoCtrl => sk.q.flags \in SUBSET Flags /\ sk.q.verno \in Seq32
  BY Zenon DEF SockInv, Sock, CtrlSkb
<1>4. SockInv(t)
  BY <1>3, TransmitInv, Zenon
<1>5. t.retransmits = sk.retransmits
  <2>1. sk \in Sock
    BY Zenon DEF SockInv
  <2> QED BY <2>1, SMT DEF Sock, serval_sal_transmit_skb
<1>6. sk.retransmits \in 0..MaxRetransmits
  BY Zenon DEF SockInv, Sock
<1>7. t \in Sock
  BY <1>4, Zenon DEF SockInv
<1> HIDE DEF t
<1>8. sk.retransmits # MaxRetransmits => n \in 0..MaxRetransmits
  BY <1>5, <1>6, SALAssumption
<1> HIDE DEF n
<1>9. ASSUME sk.retransmits # MaxRetransmits PROVE SockInv(e)
  <2>1. e \in Sock
    BY <1>7, <1>8, <1>9, Zenon DEF Sock
  <2>2. e.q = t.q
    BY <1>7, Zenon DEF Sock
  <2>3. e.una = t.una
    BY <1>7, Zenon DEF Sock
  <2> HIDE DEF e
  <2> QED BY <1>4, <2>1, <2>2, <2>3, SameQueue, Zenon
<1> QED BY <1>1, <1>2, <1>9, Zenon

\* A fresh socket.
LEMMA InitSockInv ==
    ASSUME NEW f \in Flows
    PROVE  SockInv(InitSock(f))
<1>1. "INIT" \in States /\ "RSYN_INITIAL" \in SalStates /\ "none" \in Errors
  BY Zenon DEF States, SalStates, Errors
<1>2. NoFlow \in Flows \cup {NoFlow} /\ NoAddr \in Addrs \cup {NoAddr}
      /\ NoCtrl \in CtrlSkb \cup {NoCtrl} /\ {} \in SUBSET Packet
  OBVIOUS
<1>3. InitSock(f) \in Sock
  BY <1>1, <1>2, Constants, Zenon DEF InitSock, Sock
<1>4. InitSock(f).q = NoCtrl
  BY Zenon DEF InitSock
<1> QED BY <1>3, <1>4, EmptyQueue, Zenon

\* The child of a request sock.
LEMMA RespondSockInv ==
    ASSUME NEW r \in Rsk
    PROVE  SockInv(serval_sal_create_respond_sock(r))
<1> DEFINE i == InitSock(r.local)
           m == Add(ISS[r.local], 1)
           n == Add(r.rcvseq, 1)
           c == [i EXCEPT !.peer = r.peer, !.state = "RESPOND",
                          !.una = ISS[r.local], !.nxt = m, !.rcvnxt = n,
                          !.saddr = r.laddr, !.daddr = r.raddr, !.hashed = TRUE]
<1>1. /\ r.local \in Flows /\ r.peer \in Flows \cup {NoFlow} /\ r.rcvseq \in Seq32
      /\ r.raddr \in Addrs \cup {NoAddr} /\ r.laddr \in Addrs \cup {NoAddr}
  BY Zenon DEF Rsk
<1>2. ISS[r.local] \in Seq32
  BY <1>1, Constants, Zenon
<1>3. m \in Seq32 /\ n \in Seq32 /\ "RESPOND" \in States
  BY <1>1, <1>2, AddType, Constants, Zenon DEF States
<1>4. serval_sal_create_respond_sock(r) = c
  BY Zenon DEF serval_sal_create_respond_sock
<1>5. i \in Sock
  BY <1>1, InitSockInv, Zenon DEF SockInv
<1>6. i.q = NoCtrl
  BY Zenon DEF InitSock
<1> HIDE DEF i, m, n
<1>7. c \in Sock
  BY <1>1, <1>2, <1>3, <1>5, ZenonT(40) DEF Sock
<1>8. c.q = i.q
  BY <1>5, Zenon DEF Sock
<1> HIDE DEF c
<1> QED BY <1>4, <1>6, <1>7, <1>8, EmptyQueue, Zenon

\* The SYN-ACK, built without a socket.
LEMMA SynackType ==
    ASSUME NEW r \in Rsk
    PROVE  serval_sal_send_synack(r) \subseteq Packet
<1>1. ISS[r.local] \in Seq32 /\ r.rcvseq \in Seq32
  BY Constants, Zenon DEF Rsk
<1>2. Add(r.rcvseq, 1) \in Seq32
  BY <1>1, AddType, Constants, Zenon
<1> QED BY <1>1, <1>2 DEF serval_sal_send_synack, Packet, Rsk, Flags

\* A reset in reply to a packet that no socket takes.
LEMMA ResetType ==
    ASSUME NEW p \in Packet
    PROVE  serval_sal_send_reset(p) \subseteq Packet
<1> DEFINE bits == (IF "SYN" \in p.flags THEN 1 ELSE 0)
                   + (IF "FIN" \in p.flags THEN 32 ELSE 0)
<1>1. p.verno \in Seq32 /\ p.ackno \in Seq32 /\ bits \in Nat
  BY DEF Packet
<1>2. Add(p.verno, bits) \in Seq32
  BY <1>1, AddType, Zenon
<1> DEFINE ack == "ACK" \in p.flags
           flags == IF ack THEN {"RST"} ELSE {"RST", "ACK"}
           verno == IF ack THEN p.ackno ELSE 0
           ackno == IF ack THEN 0 ELSE Add(p.verno, bits)
           q == [src |-> p.dst, dst |-> p.src, flags |-> flags,
                 verno |-> verno, ackno |-> ackno, srvext |-> FALSE,
                 saddr |-> p.daddr, daddr |-> p.saddr]
<1>3. flags \in SUBSET Flags /\ verno \in Seq32 /\ ackno \in Seq32
  BY <1>1, <1>2, Constants, Zenon DEF Flags
<1>4. serval_sal_send_reset(p) = IF "RST" \in p.flags THEN {} ELSE {q}
  BY Zenon DEF serval_sal_send_reset
<1> HIDE DEF flags, verno, ackno
<1>5. q \in Packet
  BY <1>3, Zenon DEF Packet
<1> QED BY <1>4, <1>5, Zenon

-----------------------------------------------------------------------------
\* The changes the actions make before or after calling an operator.

\* A retransmission callback starts.
LEMMA RtxFiredInv ==
    ASSUME NEW sk, SockInv(sk)
    PROVE  SockInv([sk EXCEPT !.rtx = FALSE, !.rtxFired = TRUE])
<1> DEFINE e == [sk EXCEPT !.rtx = FALSE, !.rtxFired = TRUE]
<1>1. sk \in Sock
  BY Zenon DEF SockInv
<1>2. e \in Sock
  BY <1>1, ZenonT(40) DEF Sock
<1>3. e.q = sk.q
  BY <1>1, Zenon DEF Sock
<1>4. e.una = sk.una
  BY <1>1, Zenon DEF Sock
<1> HIDE DEF e
<1>5. SockInv(e)
  BY <1>2, <1>3, <1>4, SameQueue, Zenon
<1> QED BY <1>5, Zenon DEF e

\* The retransmission timer's callback has the socket lock.
LEMMA RexmitRunsInv ==
    ASSUME NEW sk, SockInv(sk)
    PROVE  SockInv(RexmitRuns(sk))
<1> DEFINE l == sk.late \/ sk.q = NoCtrl \/ Ended(sk)
           m == sk.late \/ sk.releasing
           e == [sk EXCEPT !.rtxFired = FALSE, !.late = l]
           g == [sk EXCEPT !.rtx = FALSE, !.late = m]
<1>1. sk \in Sock
  BY Zenon DEF SockInv
<1>2. RexmitRuns(sk) = IF sk.rtxFired THEN e ELSE g
  BY Zenon DEF RexmitRuns
<1>3. l \in BOOLEAN /\ m \in BOOLEAN
  OBVIOUS
<1> HIDE DEF l, m
<1>4. e \in Sock
  BY <1>1, <1>3, ZenonT(40) DEF Sock
<1>5. g \in Sock
  BY <1>1, <1>3, ZenonT(40) DEF Sock
<1>6. e.q = sk.q /\ e.una = sk.una
  BY <1>1, Zenon DEF Sock
<1>7. g.q = sk.q /\ g.una = sk.una
  BY <1>1, Zenon DEF Sock
<1> HIDE DEF e, g
<1>8. SockInv(e) /\ SockInv(g)
  BY <1>4, <1>5, <1>6, <1>7, SameQueue, Zenon
<1> QED BY <1>2, <1>8, Zenon

\* The callback of the TIMEWAIT timer starts.
LEMMA TwFiredInv ==
    ASSUME NEW sk, SockInv(sk)
    PROVE  SockInv([sk EXCEPT !.tw = FALSE, !.twFired = TRUE])
<1> DEFINE e == [sk EXCEPT !.tw = FALSE, !.twFired = TRUE]
<1>1. sk \in Sock
  BY Zenon DEF SockInv
<1>2. e \in Sock
  BY <1>1, Zenon DEF Sock
<1>3. e.q = sk.q
  BY <1>1, Zenon DEF Sock
<1>4. e.una = sk.una
  BY <1>1, Zenon DEF Sock
<1> HIDE DEF e
<1>5. SockInv(e)
  BY <1>2, <1>3, <1>4, SameQueue, Zenon
<1> QED BY <1>5, Zenon DEF e

\* The TIMEWAIT timer's callback has the socket lock.
LEMMA TimewaitRunsInv ==
    ASSUME NEW sk, SockInv(sk)
    PROVE  SockInv(TimewaitRuns(sk))
<1> DEFINE l == sk.late \/ Ended(sk)
           m == sk.late \/ sk.releasing
           e == [sk EXCEPT !.twFired = FALSE, !.late = l]
           g == [sk EXCEPT !.tw = FALSE, !.late = m]
<1>1. sk \in Sock
  BY Zenon DEF SockInv
<1>2. TimewaitRuns(sk) = IF sk.twFired THEN e ELSE g
  BY Zenon DEF TimewaitRuns
<1>3. l \in BOOLEAN /\ m \in BOOLEAN
  OBVIOUS
<1> HIDE DEF l, m
<1>4. e \in Sock
  BY <1>1, <1>3, ZenonT(40) DEF Sock
<1>5. g \in Sock
  BY <1>1, <1>3, ZenonT(40) DEF Sock
<1>6. e.q = sk.q /\ e.una = sk.una
  BY <1>1, Zenon DEF Sock
<1>7. g.q = sk.q /\ g.una = sk.una
  BY <1>1, Zenon DEF Sock
<1> HIDE DEF e, g
<1>8. SockInv(e) /\ SockInv(g)
  BY <1>4, <1>5, <1>6, <1>7, SameQueue, Zenon
<1> QED BY <1>2, <1>8, Zenon

\* A migration notes the device to move to.
LEMMA MigdevInv ==
    ASSUME NEW sk, SockInv(sk),
           NEW a \in Addrs \cup {NoAddr}
    PROVE  SockInv([sk EXCEPT !.migdev = a])
<1> DEFINE e == [sk EXCEPT !.migdev = a]
<1>1. sk \in Sock
  BY Zenon DEF SockInv
<1>2. e \in Sock
  BY <1>1, Zenon DEF Sock
<1>3. e.q = sk.q
  BY <1>1, Zenon DEF Sock
<1>4. e.una = sk.una
  BY <1>1, Zenon DEF Sock
<1> HIDE DEF e
<1>5. SockInv(e)
  BY <1>2, <1>3, <1>4, SameQueue, Zenon
<1> QED BY <1>5, Zenon DEF e

\* A child that was never accepted leaves the flow table.
LEMMA OrphanInv ==
    ASSUME NEW sk, SockInv(sk)
    PROVE  SockInv([sk EXCEPT !.dead = TRUE, !.hashed = FALSE])
<1> DEFINE e == [sk EXCEPT !.dead = TRUE, !.hashed = FALSE]
<1>1. sk \in Sock
  BY Zenon DEF SockInv
<1>2. e \in Sock
  BY <1>1, Zenon DEF Sock
<1>3. e.q = sk.q
  BY <1>1, Zenon DEF Sock
<1>4. e.una = sk.una
  BY <1>1, Zenon DEF Sock
<1> HIDE DEF e
<1>5. SockInv(e)
  BY <1>2, <1>3, <1>4, SameQueue, Zenon
<1> QED BY <1>5, Zenon DEF e

\* A connecting socket enters the flow table.
LEMMA RequestSockInv ==
    ASSUME NEW sk, SockInv(sk),
           "REQUEST" \in States, NEW a \in Addrs \cup {NoAddr}
    PROVE  SockInv([sk EXCEPT !.state = "REQUEST", !.hashed = TRUE, !.saddr = a])
<1> DEFINE e == [sk EXCEPT !.state = "REQUEST", !.hashed = TRUE, !.saddr = a]
<1>1. sk \in Sock
  BY Zenon DEF SockInv
<1>2. e \in Sock
  BY <1>1, Zenon DEF Sock
<1>3. e.q = sk.q
  BY <1>1, Zenon DEF Sock
<1>4. e.una = sk.una
  BY <1>1, Zenon DEF Sock
<1> HIDE DEF e
<1>5. SockInv(e)
  BY <1>2, <1>3, <1>4, SameQueue, Zenon
<1> QED BY <1>5, Zenon DEF e

-----------------------------------------------------------------------------
\* The inductive invariant.

IndInv ==
    /\ TypeOK
    /\ QueueHeadIsUna
    /\ IsFiniteSet(lsk.syn)
    /\ ListenerCounts
    /\ QueuesBounded

\* What Commit leaves behind: well-formed sockets and packets.
LEMMA CommitInv ==
    ASSUME TypeOK, QueueHeadIsUna, NEW f \in Flows, NEW sk, SockInv(sk),
           Commit(f, sk)
    PROVE  /\ sock' \in [Flows -> Sock]
           /\ net' \subseteq Packet
           /\ QueueHeadIsUna'
<1> DEFINE e == [sk EXCEPT !.out = {}]
<1>1. sk \in Sock
  BY Zenon DEF SockInv
<1>2. e \in Sock
  BY <1>1, Zenon DEF Sock
<1>3. e.q = sk.q
  BY <1>1, Zenon DEF Sock
<1>4. e.una = sk.una
  BY <1>1, Zenon DEF Sock
<1>5. sock' = [sock EXCEPT ![f] = e] /\ net' = net \cup sk.out
  BY Zenon DEF Commit
<1>6. sk.out \subseteq Packet
  BY <1>1, Zenon DEF Sock
<1>7. net' \subseteq Packet
  BY <1>5, <1>6, Zenon DEF TypeOK
<1> HIDE DEF e
<1>8. SockInv(e)
  BY <1>2, <1>3, <1>4, SameQueue, Zenon
<1>9. sock' \in [Flows -> Sock]
  BY <1>2, <1>5, Zenon DEF TypeOK
<1>10. ASSUME NEW g \in Flows
       PROVE  sock'[g].q # NoCtrl => sock'[g].q.verno = sock'[g].una
  <2>1. CASE g = f
    <3>1. sock'[g] = e
      BY <1>5, <2>1, Zenon DEF TypeOK
    <3> QED BY <1>8, <3>1, Zenon DEF SockInv
  <2>2. CASE g # f
    <3>1. sock'[g] = sock[g]
      BY <1>5, <2>2, Zenon DEF TypeOK
    <3> QED BY <3>1, Zenon DEF QueueHeadIsUna
  <2> QED BY <2>1, <2>2, Zenon
<1> QED BY <1>7, <1>9, <1>10, Zenon DEF QueueHeadIsUna

\* The invariants of a socket, from those of the state.
LEMMA SockInvHolds ==
    ASSUME TypeOK, QueueHeadIsUna, NEW f \in Flows
    PROVE  SockInv(sock[f]) /\ sock[f] \in Sock
<1>1. sock[f] \in Sock
  BY Zenon DEF TypeOK
<1> QED BY <1>1, Zenon DEF SockInv, QueueHeadIsUna

\* A step that only commits a socket preserves the invariant.
LEMMA CommitStep ==
    ASSUME IndInv, NEW f \in Flows, NEW sk, SockInv(sk), Commit(f, sk),
           UNCHANGED <<lsk, nextflow, migrations>>
    PROVE  IndInv'
<1>1. sock' \in [Flows -> Sock] /\ net' \subseteq Packet /\ QueueHeadIsUna'
  BY CommitInv, Zenon DEF IndInv
<1>2. TypeOK'
  BY <1>1, Zenon DEF IndInv, TypeOK
<1> QED BY <1>1, <1>2, Zenon DEF IndInv, ListenerCounts, QueuesBounded

\* A step that leaves the sockets alone and keeps the listener in order
\* preserves the invariant.
LEMMA ListenerStep ==
    ASSUME IndInv, UNCHANGED <<sock, migrations>>,
           lsk' \in Listener, net' \subseteq Packet,
           nextflow' \in NumClients..NumClients + NumFlows,
           IsFiniteSet(lsk'.syn), ListenerCounts', QueuesBounded'
    PROVE  IndInv'
<1>1. TypeOK'
  BY Zenon DEF IndInv, TypeOK
<1>2. QueueHeadIsUna'
  BY Zenon DEF IndInv, QueueHeadIsUna
<1> QED BY <1>1, <1>2, Zenon DEF IndInv

\* Connecting.
LEMMA ConnectStep ==
    ASSUME IndInv, NEW f \in Clients, Connect(f)
    PROVE  IndInv'
<1> DEFINE r == [sock[f] EXCEPT !.state = "REQUEST", !.hashed = TRUE,
                                !.saddr = ClientAddr]
<1>1. f \in Flows
  BY Zenon DEF Flows
<1>2. SockInv(sock[f])
  BY <1>1, SockInvHolds, Zenon DEF IndInv
<1>3. "REQUEST" \in States /\ ClientAddr \in Addrs \cup {NoAddr}
  BY SALAssumption, Zenon DEF States, Addrs
<1>4. SockInv(r)
  BY <1>2, <1>3, RequestSockInv, Zenon
<1>5. Commit(f, serval_sal_send_syn(r)) /\ UNCHANGED <<lsk, nextflow, migrations>>
  BY Zenon DEF Connect
<1> HIDE DEF r
<1>6. SockInv(serval_sal_send_syn(r))
  BY <1>4, SendSynInv, Zenon
<1> QED BY <1>1, <1>5, <1>6, CommitStep, Zenon

\* Closing, with or without unread data.
LEMMA CloseStep ==
    ASSUME IndInv, NEW f \in Flows, NEW unread, Close(f, unread)
    PROVE  IndInv'
<1>1. SockInv(serval_release(sock[f], unread))
  BY SockInvHolds, ReleaseInv, Zenon DEF IndInv
<1> QED BY <1>1, CommitStep, Zenon DEF Close

\* The end of closing.
LEMMA ReleaseEndStep ==
    ASSUME IndInv, NEW f \in Flows, ReleaseEnd(f)
    PROVE  IndInv'
<1>1. SockInv(serval_sock_destroy([sock[f] EXCEPT !.releasing = FALSE]))
  BY SockInvHolds, ReleaseEndInv, Zenon DEF IndInv
<1> QED BY <1>1, CommitStep, Zenon DEF ReleaseEnd

\* TCP's own FIN is acknowledged, or TCP gives up on it.
LEMMA TcpStep ==
    ASSUME IndInv, NEW f \in Flows, TcpFinAcked(f) \/ TcpWriteErr(f)
    PROVE  IndInv'
<1>1. SockInv(sock[f])
  BY SockInvHolds, Zenon DEF IndInv
<1>2. CASE TcpFinAcked(f)
  <2>1. SockInv(serval_sal_send_fin(sock[f]))
    BY <1>1, SendFinInv, Zenon
  <2> QED BY <1>2, <2>1, CommitStep, Zenon DEF TcpFinAcked
<1>3. CASE TcpWriteErr(f)
  <2>1. SockInv([sock[f] EXCEPT !.err = "ETIMEDOUT"])
    BY <1>1, ErrInv, Zenon DEF Errors
  <2>2. SockInv(serval_sal_done([sock[f] EXCEPT !.err = "ETIMEDOUT"]))
    BY <2>1, DoneInv, Zenon
  <2> QED BY <1>3, <2>2, CommitStep, Zenon DEF TcpWriteErr
<1> QED BY <1>2, <1>3, Zenon

\* A migration also counts the request.
LEMMA MigrateStep ==
    ASSUME IndInv, NEW f \in Flows, NEW a \in AddrsOf(f), Migrate(f, a)
    PROVE  IndInv'
<1> DEFINE m == [sock[f] EXCEPT !.migdev = a]
<1>1. SockInv(sock[f])
  BY SockInvHolds, Zenon DEF IndInv
<1>2. a \in Addrs \cup {NoAddr}
  BY Zenon DEF AddrsOf, Addrs
<1>3. SockInv(m)
  BY <1>1, <1>2, MigdevInv, Zenon
<1>4. /\ Commit(f, serval_sal_migrate(m)) /\ UNCHANGED <<lsk, nextflow>>
      /\ migrations' = [migrations EXCEPT ![f] = @ + 1]
      /\ migrations[f] < MaxMigrations[f]
  BY Zenon DEF Migrate
<1> HIDE DEF m
<1>5. SockInv(serval_sal_migrate(m))
  BY <1>3, MigrateInv, Zenon
<1>6. sock' \in [Flows -> Sock] /\ net' \subseteq Packet /\ QueueHeadIsUna'
  BY <1>4, <1>5, CommitInv, Zenon DEF IndInv
<1>7. migrations \in [Flows -> Nat] /\ \A g \in Flows : migrations[g] <= MaxMigrations[g]
  BY Zenon DEF IndInv, TypeOK
<1>8. /\ migrations' \in [Flows -> Nat]
      /\ \A g \in Flows : migrations'[g] <= MaxMigrations[g]
  BY <1>4, <1>7, SALAssumption
<1>9. TypeOK'
  BY <1>4, <1>6, <1>8, Zenon DEF IndInv, TypeOK
<1> QED BY <1>4, <1>6, <1>9, Zenon DEF IndInv, ListenerCounts, QueuesBounded

\* A timer expires: its callback starts, or runs at once.
LEMMA TimerStep ==
    ASSUME IndInv, NEW f \in Flows,
           RexmitFire(f) \/ TimewaitFire(f) \/ RexmitTimeout(f) \/ TimewaitTimeout(f)
    PROVE  IndInv'
<1>1. SockInv(sock[f]) /\ sock \in [Flows -> Sock]
  BY SockInvHolds, Zenon DEF IndInv, TypeOK
<1>2. ASSUME NEW e, SockInv(e), sock' = [sock EXCEPT ![f] = e],
             UNCHANGED <<lsk, nextflow, migrations, net>>
      PROVE  IndInv'
  <2>1. sock' \in [Flows -> Sock]
    BY <1>1, <1>2, Zenon DEF SockInv
  <2>2. \A g \in Flows : sock'[g] = IF g = f THEN e ELSE sock[g]
    BY <1>1, <1>2, Zenon
  <2>3. QueueHeadIsUna'
    BY <1>2, <2>2, Zenon DEF IndInv, QueueHeadIsUna, SockInv
  <2>4. TypeOK'
    BY <1>2, <2>1, Zenon DEF IndInv, TypeOK
  <2> QED BY <1>2, <2>3, <2>4, Zenon DEF IndInv, ListenerCounts, QueuesBounded
<1>3. CASE RexmitFire(f)
  <2> DEFINE e == [sock[f] EXCEPT !.rtx = FALSE, !.rtxFired = TRUE]
  <2>1. SockInv(e)
    BY <1>1, RtxFiredInv, Zenon
  <2>2. sock' = [sock EXCEPT ![f] = e] /\ UNCHANGED <<lsk, nextflow, migrations, net>>
    BY <1>1, <1>3, Zenon DEF RexmitFire
  <2> HIDE DEF e
  <2> QED BY <1>2, <2>1, <2>2, Zenon
<1>4. CASE TimewaitFire(f)
  <2> DEFINE e == [sock[f] EXCEPT !.tw = FALSE, !.twFired = TRUE]
  <2>1. SockInv(e)
    BY <1>1, TwFiredInv, Zenon
  <2>2. sock' = [sock EXCEPT ![f] = e] /\ UNCHANGED <<lsk, nextflow, migrations, net>>
    BY <1>1, <1>4, Zenon DEF TimewaitFire
  <2> HIDE DEF e
  <2> QED BY <1>2, <2>1, <2>2, Zenon
<1>5. CASE RexmitTimeout(f)
  <2> DEFINE e == RexmitRuns(sock[f])
  <2>1. SockInv(e)
    BY <1>1, RexmitRunsInv, Zenon
  <2>2. /\ Commit(f, serval_sal_rexmit_timeout(e))
        /\ UNCHANGED <<lsk, nextflow, migrations>>
    BY <1>5, Zenon DEF RexmitTimeout
  <2> HIDE DEF e
  <2>3. SockInv(serval_sal_rexmit_timeout(e))
    BY <2>1, RexmitInv, Zenon
  <2> QED BY <2>2, <2>3, CommitStep, Zenon
<1>6. CASE TimewaitTimeout(f)
  <2> DEFINE e == TimewaitRuns(sock[f])
  <2>1. SockInv(e)
    BY <1>1, TimewaitRunsInv, Zenon
  <2>2. Commit(f, serval_sal_done(e)) /\ UNCHANGED <<lsk, nextflow, migrations>>
    BY <1>6, Zenon DEF TimewaitTimeout
  <2> HIDE DEF e
  <2>3. SockInv(serval_sal_done(e))
    BY <2>1, DoneInv, Zenon
  <2> QED BY <2>2, <2>3, CommitStep, Zenon
<1> QED BY <1>3, <1>4, <1>5, <1>6, Zenon

\* What the invariant says of the listening socket.
LEMMA ListenerFacts ==
    ASSUME IndInv
    PROVE  /\ lsk \in Listener /\ lsk.syn \in SUBSET Rsk /\ lsk.accept \in Seq(Rsk)
           /\ IsFiniteSet(lsk.syn) /\ Cardinality(lsk.syn) \in Nat
           /\ Len(lsk.accept) \in Nat
           /\ lsk.qlen = Cardinality(lsk.syn) /\ lsk.ackBacklog = Len(lsk.accept)
           /\ Len(lsk.accept) + Cardinality(lsk.syn) <= Backlog + MaxRequests + 1
<1>1. lsk \in Listener /\ IsFiniteSet(lsk.syn)
  BY Zenon DEF IndInv, TypeOK
<1>2. lsk.syn \in SUBSET Rsk /\ lsk.accept \in Seq(Rsk)
  BY <1>1, Zenon DEF Listener
<1>3. Cardinality(lsk.syn) \in Nat
  BY <1>1, FS_CardinalityType, Zenon
<1> QED BY <1>1, <1>2, <1>3 DEF IndInv, ListenerCounts, QueuesBounded

LEMMA NotAbove == \A m, n \in Nat : ~(m > n) => m <= n
  OBVIOUS

LEMMA OneMoves == \A m, n \in Nat : (m + 1) + (n - 1) = m + n
  OBVIOUS

\* serval_accept takes the head of the accept queue.
LEMMA AcceptStep ==
    ASSUME IndInv, Accept
    PROVE  IndInv'
<1> DEFINE t == Tail(lsk.accept)
           n == lsk.ackBacklog - 1
           l == [lsk EXCEPT !.accept = t, !.ackBacklog = n]
<1>1. lsk' = l /\ lsk.accept # << >> /\ UNCHANGED <<sock, nextflow, migrations, net>>
  BY Zenon DEF Accept
<1>2. lsk \in Listener
  BY ListenerFacts, Zenon
<1>3. t \in Seq(Rsk) /\ n \in Nat /\ n = Len(t) /\ Len(t) = Len(lsk.accept) - 1
  BY <1>1, ListenerFacts
<1> HIDE DEF t, n
<1>4. l \in Listener
  BY <1>2, <1>3, Zenon DEF Listener
<1>5. l.syn = lsk.syn /\ l.qlen = lsk.qlen /\ l.accept = t /\ l.ackBacklog = n
  BY <1>2, Zenon DEF Listener
<1> HIDE DEF l
<1>6. IsFiniteSet(lsk'.syn) /\ ListenerCounts' /\ QueuesBounded'
  BY <1>1, <1>3, <1>5, ListenerFacts, SALAssumption DEF ListenerCounts, QueuesBounded
<1> QED BY <1>1, <1>4, <1>6, ListenerStep, Zenon DEF IndInv, TypeOK

\* Expired request socks leave the SYN queue.
LEMMA PruneStep ==
    ASSUME IndInv, Prune
    PROVE  IndInv'
<1>1. PICK expired \in SUBSET lsk.syn :
         lsk' = [lsk EXCEPT !.syn = @ \ expired,
                            !.qlen = @ - Cardinality(expired)]
  BY Zenon DEF Prune
<1>2. UNCHANGED <<sock, nextflow, migrations, net>>
  BY Zenon DEF Prune
<1> DEFINE s == lsk.syn \ expired
           n == lsk.qlen - Cardinality(expired)
           l == [lsk EXCEPT !.syn = s, !.qlen = n]
<1>3. lsk' = l
  BY <1>1, Zenon
<1>4. lsk \in Listener /\ s \in SUBSET Rsk
  BY ListenerFacts, Zenon
<1>5. lsk.syn \cap expired = expired
  OBVIOUS
<1>6. IsFiniteSet(s) /\ Cardinality(s) = Cardinality(lsk.syn) - Cardinality(expired)
  <2>1. IsFiniteSet(lsk.syn)
    BY ListenerFacts, Zenon
  <2>2. /\ IsFiniteSet(lsk.syn \ expired)
        /\ Cardinality(lsk.syn \ expired)
             = Cardinality(lsk.syn) - Cardinality(lsk.syn \cap expired)
    BY <2>1, FS_Difference, Zenon
  <2> QED BY <1>5, <2>2, Zenon
<1>7. Cardinality(s) \in Nat /\ IsFiniteSet(expired) /\ Cardinality(expired) \in Nat
  BY <1>6, ListenerFacts, FS_CardinalityType, FS_Subset, Zenon
<1>8. n = Cardinality(s) /\ n \in Nat
  BY <1>6, <1>7, ListenerFacts, Zenon
<1> HIDE DEF s, n
<1>9. l \in Listener
  BY <1>4, <1>8, Zenon DEF Listener
<1>10. l.syn = s /\ l.qlen = n /\ l.accept = lsk.accept /\ l.ackBacklog = lsk.ackBacklog
  BY <1>4, Zenon DEF Listener
<1> HIDE DEF l
<1>11. IsFiniteSet(lsk'.syn) /\ ListenerCounts' /\ QueuesBounded'
  BY <1>3, <1>6, <1>7, <1>8, <1>10, ListenerFacts, SALAssumption
     DEF ListenerCounts, QueuesBounded
<1> QED BY <1>2, <1>3, <1>9, <1>11, ListenerStep, Zenon DEF IndInv, TypeOK

\* Closing the listener empties both queues and orphans the children.
LEMMA ListenStopStep ==
    ASSUME IndInv, ListenStop
    PROVE  IndInv'
<1> DEFINE n == lsk.qlen - Cardinality(lsk.syn)
           b == lsk.ackBacklog - Len(lsk.accept)
           l == [lsk EXCEPT !.state = "CLOSED", !.syn = {}, !.accept = << >>,
                            !.qlen = n, !.ackBacklog = b]
           orphaned(f) == \E i \in 1..Len(lsk.accept) : lsk.accept[i].local = f
           o(f) == [sock[f] EXCEPT !.dead = TRUE, !.hashed = FALSE]
<1>1. /\ lsk' = l /\ UNCHANGED <<nextflow, migrations, net>>
      /\ sock' = [f \in Flows |-> IF orphaned(f) THEN o(f) ELSE sock[f]]
  BY Zenon DEF ListenStop
<1>2. lsk \in Listener
  BY ListenerFacts, Zenon
<1>3. n = 0 /\ b = 0 /\ 0 \in Nat
  BY ListenerFacts
<1>4. {} \in SUBSET Rsk /\ << >> \in Seq(Rsk) /\ "CLOSED" \in {"LISTEN", "CLOSED"}
  OBVIOUS
<1> HIDE DEF n, b
<1>5. l \in Listener
  BY <1>2, <1>3, <1>4, Zenon DEF Listener
<1>6. l.syn = {} /\ l.qlen = n /\ l.accept = << >> /\ l.ackBacklog = b
  BY <1>2, Zenon DEF Listener
<1> HIDE DEF l
<1>7. IsFiniteSet(lsk'.syn) /\ ListenerCounts' /\ QueuesBounded'
  <2>1. /\ lsk'.syn = {} /\ lsk'.qlen = 0
        /\ lsk'.accept = << >> /\ lsk'.ackBacklog = 0
    BY <1>1, <1>3, <1>6, Zenon
  <2>2. Len(lsk'.accept) = 0 /\ Cardinality(lsk'.syn) = 0 /\ IsFiniteSet(lsk'.syn)
    BY <2>1, FS_EmptySet, Zenon
  <2>3. 0 <= Backlog + MaxRequests + 1
    BY SALAssumption
  <2> QED BY <2>1, <2>2, <2>3 DEF ListenerCounts, QueuesBounded
<1> HIDE DEF orphaned
<1>8. ASSUME NEW f \in Flows PROVE SockInv(sock'[f])
  <2>1. SockInv(sock[f])
    BY SockInvHolds, Zenon DEF IndInv
  <2>2. SockInv(o(f))
    BY <2>1, OrphanInv, Zenon
  <2> HIDE DEF o
  <2>3. sock'[f] = o(f) \/ sock'[f] = sock[f]
    BY <1>1, Zenon
  <2> QED BY <2>1, <2>2, <2>3, Zenon
<1>9. sock' = [f \in Flows |-> sock'[f]]
  BY <1>1, Zenon
<1>10. sock' \in [Flows -> Sock]
  BY <1>8, <1>9, Zenon DEF SockInv
<1>11. QueueHeadIsUna'
  BY <1>8, Zenon DEF QueueHeadIsUna, SockInv
<1>12. TypeOK'
  BY <1>1, <1>5, <1>10, Zenon DEF IndInv, TypeOK
<1> QED BY <1>7, <1>11, <1>12, Zenon DEF IndInv

\* A packet for a flow in the flow table.
LEMMA RcvFlowStep ==
    ASSUME IndInv, NEW p \in net, RcvFlow(p)
    PROVE  IndInv'
<1>1. p \in Packet /\ p.dst \in Flows
  BY Zenon DEF IndInv, TypeOK, RcvFlow, demux_flow
<1>2. SockInv(sock[p.dst])
  BY <1>1, SockInvHolds, Zenon DEF IndInv
<1>3. SockInv(serval_sal_state_process(sock[p.dst], p))
  BY <1>1, <1>2, StateProcessInv, Zenon
<1> QED BY <1>1, <1>3, CommitStep, Zenon DEF RcvFlow

\* A repeated SYN, or a packet no socket takes: only a packet is sent.
LEMMA ReplyStep ==
    ASSUME IndInv, NEW p \in net, RcvDuplicateSyn(p) \/ RcvNoMatch(p)
    PROVE  IndInv'
<1>1. p \in Packet /\ net \subseteq Packet
  BY Zenon DEF IndInv, TypeOK
<1>2. net' \subseteq Packet
  <2>1. CASE RcvDuplicateSyn(p)
    <3>1. PICK r \in serval_sal_find_rsk(p) :
             net' = net \cup serval_sal_send_synack(r)
      BY <2>1, Zenon DEF RcvDuplicateSyn
    <3>2. r \in Rsk
      BY ListenerFacts DEF serval_sal_find_rsk, Queued
    <3> QED BY <1>1, <3>1, <3>2, SynackType, Zenon
  <2>2. CASE RcvNoMatch(p)
    BY <1>1, <2>2, ResetType, Zenon DEF RcvNoMatch
  <2> QED BY <2>1, <2>2, Zenon
<1>3. UNCHANGED <<sock, lsk, nextflow, migrations>>
  BY Zenon DEF RcvDuplicateSyn, RcvNoMatch
<1> QED BY <1>2, <1>3, ListenerStep, Zenon DEF IndInv, TypeOK, ListenerCounts, QueuesBounded

\* A new request sock is queued only if both queues have room.
LEMMA RcvSynStep ==
    ASSUME IndInv, NEW p \in net, RcvSyn(p)
    PROVE  IndInv'
<1> DEFINE r == [peer |-> p.src, local |-> nextflow, rcvseq |-> p.verno,
                 raddr |-> p.saddr, laddr |-> p.daddr]
           s == lsk.syn \cup {r}
           n == lsk.qlen + 1
           l == [lsk EXCEPT !.syn = s, !.qlen = n]
<1>1. /\ lsk' = l /\ net' = net \cup serval_sal_send_synack(r)
      /\ nextflow \in Servers /\ nextflow' = nextflow + 1
      /\ UNCHANGED <<sock, migrations>>
      /\ serval_sal_find_rsk(p) = {}
      /\ ~request_queue_is_full /\ ~acceptq_is_full
  BY Zenon DEF RcvSyn
<1>2. p \in Packet /\ net \subseteq Packet
  BY Zenon DEF IndInv, TypeOK
<1>3. r \in Rsk
  BY <1>1, <1>2, PacketType, Zenon DEF Rsk, Flows
<1>4. r \notin lsk.syn
  BY <1>1 DEF serval_sal_find_rsk, Queued
<1>5. nextflow' \in NumClients..NumClients + NumFlows
  BY <1>1, SALAssumption DEF Servers
<1>6. net' \subseteq Packet
  BY <1>1, <1>2, <1>3, SynackType, Zenon
<1> HIDE DEF r
<1>7. IsFiniteSet(s) /\ Cardinality(s) = Cardinality(lsk.syn) + 1
  BY <1>4, ListenerFacts, FS_AddElement, Zenon
<1>8. n = Cardinality(s) /\ n \in Nat /\ s \in SUBSET Rsk /\ lsk \in Listener
  BY <1>3, <1>7, ListenerFacts
<1>9. Cardinality(lsk.syn) <= MaxRequests /\ Len(lsk.accept) <= Backlog
  <2>1. ~(Cardinality(lsk.syn) > MaxRequests) /\ ~(Len(lsk.accept) > Backlog)
    BY <1>1, ListenerFacts, Zenon DEF request_queue_is_full, acceptq_is_full
  <2> QED
    BY <2>1, ListenerFacts, SALAssumption, NotAbove, Zenon
<1> HIDE DEF s, n
<1>10. l \in Listener
  BY <1>8, Zenon DEF Listener
<1>11. l.syn = s /\ l.qlen = n /\ l.accept = lsk.accept /\ l.ackBacklog = lsk.ackBacklog
  BY <1>8, Zenon DEF Listener
<1> HIDE DEF l
<1>12. IsFiniteSet(lsk'.syn) /\ ListenerCounts' /\ QueuesBounded'
  BY <1>1, <1>7, <1>8, <1>9, <1>11, ListenerFacts, SALAssumption
     DEF ListenerCounts, QueuesBounded
<1> QED BY <1>1, <1>5, <1>6, <1>10, <1>12, ListenerStep, Zenon

\* The ACK that completes a handshake moves one request sock from the SYN queue
\* to the accept queue: the total stays the same, whatever the backlog.
LEMMA RcvConnAckStep ==
    ASSUME IndInv, NEW p \in net, RcvConnAck(p)
    PROVE  IndInv'
<1>1. PICK r \in lsk.syn :
         /\ lsk' = [lsk EXCEPT !.syn = @ \ {r}, !.accept = Append(@, r),
                               !.qlen = @ - 1, !.ackBacklog = @ + 1]
         /\ Commit(r.local, serval_sal_state_process(
                                serval_sal_create_respond_sock(r), p))
  BY Zenon DEF RcvConnAck
<1>2. UNCHANGED <<nextflow, migrations>>
  BY Zenon DEF RcvConnAck
<1>3. r \in Rsk /\ r.local \in Flows /\ p \in Packet
  BY ListenerFacts, Zenon DEF Rsk, IndInv, TypeOK
<1>4. SockInv(serval_sal_state_process(serval_sal_create_respond_sock(r), p))
  BY <1>3, RespondSockInv, StateProcessInv, Zenon
<1>5. sock' \in [Flows -> Sock] /\ net' \subseteq Packet /\ QueueHeadIsUna'
  BY <1>1, <1>3, <1>4, CommitInv, Zenon DEF IndInv
<1> DEFINE s == lsk.syn \ {r}
           t == Append(lsk.accept, r)
           n == lsk.qlen - 1
           b == lsk.ackBacklog + 1
           l == [lsk EXCEPT !.syn = s, !.accept = t, !.qlen = n, !.ackBacklog = b]
<1>6. lsk' = l
  BY <1>1, Zenon
<1>7. IsFiniteSet(s) /\ Cardinality(s) = Cardinality(lsk.syn) - 1
  BY ListenerFacts, FS_RemoveElement, Zenon
<1>8. Cardinality(s) \in Nat
  BY <1>7, FS_CardinalityType, Zenon
<1>9. t \in Seq(Rsk) /\ Len(t) = Len(lsk.accept) + 1
  BY <1>3, ListenerFacts
<1>10. /\ n = Cardinality(s) /\ n \in Nat /\ b = Len(t) /\ b \in Nat
       /\ s \in SUBSET Rsk /\ lsk \in Listener
  BY <1>7, <1>8, <1>9, ListenerFacts
<1> HIDE DEF s, t, n, b
<1>11. l \in Listener
  BY <1>9, <1>10, Zenon DEF Listener
<1>12. l.syn = s /\ l.accept = t /\ l.qlen = n /\ l.ackBacklog = b
  BY <1>10, Zenon DEF Listener
<1> HIDE DEF l
<1>13. IsFiniteSet(lsk'.syn) /\ ListenerCounts' /\ QueuesBounded'
  <2>1. Len(t) + Cardinality(s) = Len(lsk.accept) + Cardinality(lsk.syn)
    BY <1>7, <1>9, ListenerFacts, OneMoves, Zenon
  <2>2. Len(t) + Cardinality(s) <= Backlog + MaxRequests + 1
    BY <2>1, ListenerFacts, Zenon
  <2> QED
    BY <1>6, <1>7, <1>10, <1>12, <2>2, Zenon DEF ListenerCounts, QueuesBounded
<1>14. TypeOK'
  BY <1>2, <1>5, <1>6, <1>11, Zenon DEF IndInv, TypeOK
<1> QED BY <1>5, <1>13, <1>14, Zenon DEF IndInv

-----------------------------------------------------------------------------
\* Theorems.

\* The initial state satisfies the invariant.
LEMMA InitInd == Init => IndInv
<1> SUFFICES ASSUME Init PROVE IndInv
  OBVIOUS
<1>1. sock \in [Flows -> Sock] /\ QueueHeadIsUna
  <2>1. \A f \in Flows : SockInv(InitSock(f))
    BY InitSockInv, Zenon
  <2>2. sock = [f \in Flows |-> InitSock(f)]
    BY Zenon DEF Init
  <2>3. \A f \in Flows : SockInv(sock[f])
    BY <2>1, <2>2, Zenon
  <2>4. sock \in [Flows -> Sock]
    BY <2>1, <2>2, Zenon DEF SockInv
  <2> QED BY <2>3, <2>4, Zenon DEF QueueHeadIsUna, SockInv
<1>2. /\ lsk \in Listener /\ lsk.syn = {} /\ lsk.accept = << >>
      /\ lsk.qlen = 0 /\ lsk.ackBacklog = 0
  BY DEF Init, Listener
<1>3. IsFiniteSet(lsk.syn) /\ Cardinality(lsk.syn) = 0 /\ Len(lsk.accept) = 0
  BY <1>2, FS_EmptySet, Zenon
<1>4. 0 <= Backlog + MaxRequests + 1
  BY SALAssumption
<1>5. ListenerCounts /\ QueuesBounded
  BY <1>2, <1>3, <1>4 DEF ListenerCounts, QueuesBounded
<1>6. TypeOK
  BY <1>1, <1>2, SALAssumption DEF Init, TypeOK
<1> QED BY <1>1, <1>3, <1>5, <1>6, Zenon DEF IndInv

\* Every step preserves the invariant.
LEMMA NextInd == IndInv /\ [Next]_vars => IndInv'
<1> SUFFICES ASSUME IndInv, [Next]_vars PROVE IndInv'
  OBVIOUS
<1>1. ASSUME NEW f \in Clients, Connect(f) PROVE IndInv'
  BY <1>1, ConnectStep, Zenon
<1>2. ASSUME NEW f \in Flows, NEW unread \in BOOLEAN, Close(f, unread) PROVE IndInv'
  BY <1>2, CloseStep, Zenon
<1>3. ASSUME NEW f \in Flows, TcpFinAcked(f) \/ TcpWriteErr(f) PROVE IndInv'
  BY <1>3, TcpStep, Zenon
<1>4. ASSUME NEW f \in Flows, NEW a \in AddrsOf(f), Migrate(f, a) PROVE IndInv'
  BY <1>4, MigrateStep, Zenon
<1>5. ASSUME NEW f \in Flows, \/ RexmitFire(f) \/ TimewaitFire(f)
                              \/ RexmitTimeout(f) \/ TimewaitTimeout(f)
      PROVE  IndInv'
  BY <1>5, TimerStep, Zenon
<1>6. CASE Accept
  BY <1>6, AcceptStep, Zenon
<1>7. CASE ListenStop
  BY <1>7, ListenStopStep, Zenon
<1>8. CASE Prune
  BY <1>8, PruneStep, Zenon
<1>9. ASSUME NEW p \in net, Deliver(p) PROVE IndInv'
  BY <1>9, RcvFlowStep, ReplyStep, RcvSynStep, RcvConnAckStep, Zenon DEF Deliver
<1>10. CASE UNCHANGED vars
  BY <1>10, Zenon DEF vars, IndInv, TypeOK, QueueHeadIsUna, ListenerCounts, QueuesBounded
<1>11. ASSUME NEW f \in Flows, ReleaseEnd(f) PROVE IndInv'
  BY <1>11, ReleaseEndStep, Zenon
<1> QED
  BY <1>1, <1>2, <1>3, <1>4, <1>5, <1>6, <1>7, <1>8, <1>9, <1>10, <1>11, Zenon DEF Next

\* The invariant holds in every reachable state.
THEOREM Invariance == Spec => []IndInv
BY InitInd, NextInd, PTL DEF Spec

\* Every socket, request sock and packet keeps its type: no verno leaves the
\* verno space, no retransmission counter passes sysctl_sal_max_retransmits.
THEOREM TypeCorrect == Spec => []TypeOK
<1>1. IndInv => TypeOK
  BY Zenon DEF IndInv
<1> QED BY <1>1, Invariance, PTL

\* The control packet in a socket's queue is always the oldest unacknowledged
\* one, whatever the order of ACKs, overriding control packets, lost, repeated
\* and reordered packets, late timers and verno wrap-around.
THEOREM QueueHead == Spec => []QueueHeadIsUna
<1>1. IndInv => QueueHeadIsUna
  BY Zenon DEF IndInv
<1> QED BY <1>1, Invariance, PTL

\* The listener's two queues together never exceed the two limits plus one,
\* although the accept queue alone may pass its backlog.
THEOREM BoundedQueues == Spec => []QueuesBounded
<1>1. IndInv => QueuesBounded
  BY Zenon DEF IndInv
<1> QED BY <1>1, Invariance, PTL

=============================================================================
