--------------------------- MODULE SALLifeProofs ---------------------------
(***************************************************************************)
(* Theorems about the life of a socket of SAL: a queued control packet has *)
(* a timer, a timer has a packet, a socket is destroyed once, and a child  *)
(* exists only for an opener that took its SYN-ACK.  Each operator on a    *)
(* socket gets a lemma that it preserves Life, beside the one of SALProofs *)
(* that it preserves SockInv.                                              *)
(***************************************************************************)
EXTENDS SALProofs

\* The only packets that make a child: they carry the serviceID and an ACK.
ConnAck(p) == p.srvext /\ "ACK" \in p.flags

\* A socket before serval_connect or serval_sal_create_respond_sock.
Fresh(sk) ==
    /\ sk.state = "INIT" /\ sk.q = NoCtrl
    /\ ~sk.hashed /\ ~sk.finPending
    /\ ~sk.rtx /\ ~sk.rtxFired /\ ~sk.tw /\ ~sk.twFired
    /\ sk.destroyed = 0 /\ ~sk.releasing /\ ~sk.late

\* A destroyed socket: only a callback that still waits for the lock, which
\* is late, calls serval_sock_destroy on it again.
Gone(sk) ==
    /\ sk.destroyed = 1 /\ sk.dead /\ sk.state = "CLOSED"
    /\ ~sk.rtx /\ ~sk.tw /\ ~sk.releasing

\* What holds of a socket until a callback has come late to it.
Unraced(sk) ==
    /\ sk.rtx => sk.q # NoCtrl
    /\ sk.releasing => sk.dead /\ sk.state = "CLOSED"
    /\ sk.destroyed = 0 \/ Gone(sk)

\* A socket that has left INIT.
Sane(sk) ==
    /\ sk.state # "INIT"
    /\ sk.state = "REQUEST" =>
         sk.id \in Clients /\ (sk.q # NoCtrl => sk.q.flags = {"SYN"})
    /\ sk.q # NoCtrl => ("SYN" \in sk.q.flags => sk.id \in Clients)
    /\ \A p \in sk.out : ConnAck(p) =>
         /\ p.src = sk.id /\ p.dst = sk.peer
         /\ sk.id \in Clients /\ sk.state # "REQUEST"
    /\ sk.state = "CLOSED" => ~sk.hashed
    /\ ~sk.late => Unraced(sk)

\* ... and whose queued packet is timed (not so while a callback runs).
Life(sk) ==
    /\ Sane(sk)
    /\ sk.q # NoCtrl /\ sk.state # "CLOSED" => sk.rtx \/ sk.rtxFired

\* ... and is neither destroyed nor about to be, unless a callback came late.
Alive(sk) == Life(sk) /\ (~sk.late => sk.destroyed = 0 /\ ~sk.releasing)

\* The fields Life depends on, all but the packets to send.
SameCore(c, sk) ==
    /\ c.id = sk.id /\ c.peer = sk.peer /\ c.state = sk.state /\ c.q = sk.q
    /\ c.hashed = sk.hashed /\ c.dead = sk.dead
    /\ c.rtx = sk.rtx /\ c.rtxFired = sk.rtxFired
    /\ c.tw = sk.tw /\ c.twFired = sk.twFired /\ c.destroyed = sk.destroyed
    /\ c.releasing = sk.releasing /\ c.late = sk.late

\* The same socket in the same state.
Kept(c, sk) ==
    c.id = sk.id /\ c.peer = sk.peer /\ c.state = sk.state /\ c.dead = sk.dead

\* The same socket; its peer is chosen in REQUEST, which it never enters again.
Moved(c, sk) ==
    /\ c.id = sk.id
    /\ sk.state # "REQUEST" => c.peer = sk.peer /\ c.state # "REQUEST"

-----------------------------------------------------------------------------
\* Transmission.

\* A change outside the fields that Life reads.
LEMMA CoreLife ==
    ASSUME NEW sk, NEW c, Alive(sk), SameCore(c, sk), c.out = sk.out
    PROVE  Alive(c) /\ Kept(c, sk)
BY Zenon DEF Alive, Life, Sane, SameCore, Kept, Unraced, Gone

\* A socket in the same state has moved nowhere.
LEMMA KeptMoved ==
    ASSUME NEW sk, NEW c, Kept(c, sk)
    PROVE  Moved(c, sk)
BY Zenon DEF Kept, Moved

\* serval_sal_transmit_skb: a packet with ACK and serviceID leaves only an
\* opener that is past REQUEST.
LEMMA TransmitSane ==
    ASSUME NEW sk, SockInv(sk), Sane(sk), NEW flags, NEW verno, NEW conn,
           "ACK" \in flags /\ (conn \/ "SYN" \in flags)
               => sk.id \in Clients /\ sk.state # "REQUEST"
    PROVE  LET c == serval_sal_transmit_skb(sk, flags, verno, conn)
           IN /\ Sane(c) /\ SameCore(c, sk)
<1> DEFINE src == IF "RSYN" \in flags /\ sk.migdev # NoAddr
                  THEN sk.migdev ELSE sk.saddr
           dst == IF "RSYN" \in flags /\ sk.sal = "RSYN_RECV" THEN sk.migdaddr
                  ELSE IF sk.daddr = NoAddr THEN ServerAddr ELSE sk.daddr
           p == [src |-> sk.id, dst |-> sk.peer, flags |-> flags,
                 verno |-> verno,
                 ackno |-> IF "ACK" \in flags THEN sk.rcvnxt ELSE 0,
                 srvext |-> conn \/ "SYN" \in flags,
                 saddr |-> src, daddr |-> dst]
           c == [sk EXCEPT !.out = @ \cup {p}]
<1>1. sk \in Sock
  BY Zenon DEF SockInv
<1>2. serval_sal_transmit_skb(sk, flags, verno, conn) = c
  BY Zenon DEF serval_sal_transmit_skb
<1>3. p.src = sk.id /\ p.dst = sk.peer /\ p.flags = flags
      /\ p.srvext = (conn \/ "SYN" \in flags)
  OBVIOUS
<1> HIDE DEF p
<1>4. SameCore(c, sk)
  BY <1>1, Zenon DEF Sock, SameCore
<1>5. c.out = sk.out \cup {p}
  BY <1>1, Zenon DEF Sock
<1> HIDE DEF c
<1>6. ConnAck(p) => sk.id \in Clients /\ sk.state # "REQUEST"
  BY <1>3, Zenon DEF ConnAck
<1>7. \A r \in c.out : ConnAck(r) =>
         /\ r.src = sk.id /\ r.dst = sk.peer
         /\ sk.id \in Clients /\ sk.state # "REQUEST"
  BY <1>3, <1>5, <1>6, Zenon DEF Sane
<1>8. Sane(c)
  BY <1>4, <1>7, Zenon DEF Sane, SameCore, Unraced, Gone
<1> QED BY <1>2, <1>4, <1>8, Zenon

\* Sending a control packet (serval_sal_transmit_skb) keeps what is said of a
\* socket, its timer included.
LEMMA TransmitLife ==
    ASSUME NEW sk, SockInv(sk), Alive(sk), NEW flags, NEW verno, NEW conn,
           "ACK" \in flags /\ (conn \/ "SYN" \in flags)
               => sk.id \in Clients /\ sk.state # "REQUEST"
    PROVE  LET c == serval_sal_transmit_skb(sk, flags, verno, conn)
           IN Alive(c) /\ SameCore(c, sk)
<1> DEFINE c == serval_sal_transmit_skb(sk, flags, verno, conn)
<1>1. Sane(c) /\ SameCore(c, sk)
  BY TransmitSane, Zenon DEF Alive, Life
<1> HIDE DEF c
<1>2. Alive(c)
  BY <1>1, Zenon DEF Alive, Life, SameCore
<1> QED BY <1>1, <1>2, Zenon DEF c

\* A plain ACK.
LEMMA SendAckLife ==
    ASSUME NEW sk, SockInv(sk), Alive(sk)
    PROVE  Alive(serval_sal_send_ack(sk)) /\ SameCore(serval_sal_send_ack(sk), sk)
<1>1. "SYN" \notin {"ACK"}
  OBVIOUS
<1> QED BY <1>1, TransmitLife, Zenon DEF serval_sal_send_ack

\* Emptying the queue stops its timer; a packet that stays has it re-armed.
LEMMA CleanLife ==
    ASSUME NEW sk, SockInv(sk), Alive(sk), NEW ackno, NEW all \in BOOLEAN
    PROVE  LET c == serval_sal_clean_rtx_queue(sk, ackno, all)
           IN /\ Alive(c) /\ Kept(c, sk) /\ c.hashed = sk.hashed
              /\ all => c.q = NoCtrl
<1> DEFINE c == serval_sal_clean_rtx_queue(sk, ackno, all)
           e == [sk EXCEPT !.q = NoCtrl, !.rtx = FALSE, !.retransmits = 0]
           r == [sk EXCEPT !.rtx = TRUE]
<1>1. sk \in Sock
  BY Zenon DEF SockInv
<1>2. CASE sk.q = NoCtrl
  BY <1>2, Zenon DEF serval_sal_clean_rtx_queue, Kept
<1>3. CASE sk.q # NoCtrl /\ (all \/ after(ackno, sk.q.verno))
  <2>1. c = e
    BY <1>3, Zenon DEF serval_sal_clean_rtx_queue
  <2>2. /\ e.id = sk.id /\ e.peer = sk.peer /\ e.state = sk.state /\ e.q = NoCtrl
        /\ e.hashed = sk.hashed /\ e.dead = sk.dead
        /\ e.rtx = FALSE /\ e.rtxFired = sk.rtxFired /\ e.tw = sk.tw
        /\ e.twFired = sk.twFired /\ e.destroyed = sk.destroyed
        /\ e.releasing = sk.releasing /\ e.late = sk.late /\ e.out = sk.out
    BY <1>1, Zenon DEF Sock
  <2> HIDE DEF e
  <2>3. Alive(e) /\ Kept(e, sk)
    BY <2>2, Zenon DEF Alive, Life, Sane, Kept, Unraced, Gone
  <2> HIDE DEF c
  <2> QED BY <2>1, <2>2, <2>3, Zenon DEF c
<1>4. CASE sk.q # NoCtrl /\ ~(all \/ after(ackno, sk.q.verno))
  <2>1. c = r
    BY <1>4, Zenon DEF serval_sal_clean_rtx_queue
  <2>2. /\ r.id = sk.id /\ r.peer = sk.peer /\ r.state = sk.state /\ r.q = sk.q
        /\ r.hashed = sk.hashed /\ r.dead = sk.dead
        /\ r.rtx = TRUE /\ r.rtxFired = sk.rtxFired /\ r.tw = sk.tw
        /\ r.twFired = sk.twFired /\ r.destroyed = sk.destroyed
        /\ r.releasing = sk.releasing /\ r.late = sk.late /\ r.out = sk.out
    BY <1>1, Zenon DEF Sock
  <2> HIDE DEF r
  <2>3. ~sk.late => sk.destroyed = 0 /\ ~sk.releasing /\ ~Gone(sk)
    <3>1. 0 # 1
      OBVIOUS
    <3> QED BY <3>1, Zenon DEF Alive, Gone
  <2>4. Alive(r) /\ Kept(r, sk)
    BY <1>4, <2>2, <2>3, Zenon DEF Alive, Life, Sane, Kept, Unraced
  <2> HIDE DEF c
  <2> QED BY <1>4, <2>1, <2>2, <2>4, Zenon DEF c
<1> QED BY <1>2, <1>3, <1>4, Zenon

\* serval_sal_queue_and_push: the merged packet is queued, timed and sent.
LEMMA PushLife ==
    ASSUME NEW sk, SockInv(sk), Alive(sk), NEW flags \in SUBSET Flags,
           NEW verno \in Seq32,
           "SYN" \in flags => sk.id \in Clients,
           sk.state = "REQUEST" => flags = {"SYN"}
    PROVE  LET c == serval_sal_queue_and_push(sk, flags, verno)
           IN Alive(c) /\ Kept(c, sk)
<1> DEFINE merged == IF sk.q = NoCtrl THEN flags ELSE flags \cup sk.q.flags
           clean == serval_sal_clean_rtx_queue(sk, 0, TRUE)
           skb == [flags |-> merged, verno |-> verno]
           armed == [serval_sal_queue_ctrl_skb(clean, skb) EXCEPT !.rtx = TRUE]
<1>1. merged \in SUBSET Flags
  BY Zenon DEF SockInv, Sock, CtrlSkb
<1>2. /\ "SYN" \in merged => sk.id \in Clients
      /\ sk.state = "REQUEST" => merged = {"SYN"}
  BY Zenon DEF Alive, Life, Sane
<1>3. SockInv(clean) /\ Alive(clean) /\ Kept(clean, sk)
  BY CleanInv, CleanLife, Constants, Zenon
<1>4. skb \in CtrlSkb /\ skb.flags = merged /\ skb.verno = verno /\ skb # NoCtrl
  BY <1>1, SALAssumption DEF CtrlSkb
<1>5. serval_sal_queue_and_push(sk, flags, verno)
        = serval_sal_transmit_skb(armed, merged, verno, FALSE)
  BY Zenon DEF serval_sal_queue_and_push
<1> HIDE DEF skb, merged, clean
<1>6. clean \in Sock
  BY <1>3, Zenon DEF SockInv
<1>7. SockInv(armed)
  BY <1>3, <1>4, QueueCtrlInv, RtxInv, Zenon
<1>8. /\ armed.id = clean.id /\ armed.peer = clean.peer /\ armed.state = clean.state
      /\ armed.q = skb /\ armed.hashed = clean.hashed /\ armed.dead = clean.dead
      /\ armed.rtx = TRUE /\ armed.rtxFired = clean.rtxFired /\ armed.tw = clean.tw
      /\ armed.twFired = clean.twFired /\ armed.destroyed = clean.destroyed
      /\ armed.releasing = clean.releasing /\ armed.late = clean.late
      /\ armed.out = clean.out
  BY <1>6, Zenon DEF Sock, serval_sal_queue_ctrl_skb
<1> HIDE DEF armed
<1>9. ~clean.late => clean.destroyed = 0 /\ ~clean.releasing /\ ~Gone(clean)
  <2>1. 0 # 1
    OBVIOUS
  <2> QED BY <1>3, <2>1, Zenon DEF Alive, Gone
<1>10. Alive(armed) /\ Kept(armed, sk)
  BY <1>2, <1>3, <1>4, <1>8, <1>9, Zenon DEF Alive, Life, Sane, Kept, Unraced
<1>11. "ACK" \in merged /\ (FALSE \/ "SYN" \in merged)
         => armed.id \in Clients /\ armed.state # "REQUEST"
  <2>1. "ACK" \notin {"SYN"}
    OBVIOUS
  <2> QED BY <1>2, <1>10, <2>1, Zenon DEF Kept
<1>12. LET c == serval_sal_transmit_skb(armed, merged, verno, FALSE)
       IN Alive(c) /\ SameCore(c, armed)
  BY <1>7, <1>10, <1>11, TransmitLife, Zenon
<1> QED BY <1>5, <1>10, <1>12, Zenon DEF Kept, SameCore

-----------------------------------------------------------------------------
\* Opening, ending and moving a connection.

\* Tearing down a closed socket is the one call that makes it Gone.
LEMMA DestroyLife ==
    ASSUME NEW sk, SockInv(sk), Alive(sk), ~sk.late => sk.state = "CLOSED"
    PROVE  LET c == serval_sock_destroy(sk)
           IN Life(c) /\ Kept(c, sk) /\ (~sk.dead => c = sk)
<1> DEFINE n == IF sk.destroyed = 2 THEN 2 ELSE sk.destroyed + 1
           e == [sk EXCEPT !.rtx = FALSE, !.tw = FALSE, !.q = NoCtrl,
                           !.destroyed = n]
<1>1. sk \in Sock
  BY Zenon DEF SockInv
<1>2. serval_sock_destroy(sk) = IF ~sk.dead THEN sk ELSE e
  BY Zenon DEF serval_sock_destroy
<1>3. CASE ~sk.dead
  BY <1>2, <1>3, Zenon DEF Alive, Kept
<1>4. CASE sk.dead
  <2>1. sk.destroyed = 0 => n = 1
    OBVIOUS
  <2> HIDE DEF n
  <2>2. /\ e.id = sk.id /\ e.peer = sk.peer /\ e.state = sk.state /\ e.q = NoCtrl
        /\ e.hashed = sk.hashed /\ e.dead = sk.dead /\ e.rtx = FALSE
        /\ e.rtxFired = sk.rtxFired /\ e.tw = FALSE /\ e.twFired = sk.twFired
        /\ e.destroyed = n /\ e.releasing = sk.releasing /\ e.late = sk.late
        /\ e.out = sk.out
    BY <1>1, Zenon DEF Sock
  <2> HIDE DEF e
  <2>3. ~e.late => Unraced(e)
    BY <1>4, <2>1, <2>2, Zenon DEF Alive, Life, Sane, Unraced, Gone
  <2>4. Life(e) /\ Kept(e, sk)
    BY <2>2, <2>3, Zenon DEF Alive, Life, Sane, Kept
  <2> QED BY <1>2, <1>4, <2>4, Zenon
<1> QED BY <1>3, <1>4, Zenon

\* A state change of a socket that is not closed, or the change to CLOSED.
LEMMA SetStateLife ==
    ASSUME NEW sk, SockInv(sk), Alive(sk), NEW new,
           new \notin {"INIT", "REQUEST"}, new = "CLOSED" \/ sk.state # "CLOSED"
    PROVE  LET c == serval_sock_set_state(sk, new)
           IN /\ Alive(c) /\ Moved(c, sk)
              /\ c.peer = sk.peer /\ c.state = new /\ c.dead = sk.dead
<1> DEFINE b == sk.hashed /\ new # "CLOSED"
           e == [sk EXCEPT !.state = new, !.hashed = b]
<1>1. sk \in Sock
  BY Zenon DEF SockInv
<1>2. serval_sock_set_state(sk, new) = e
  BY Zenon DEF serval_sock_set_state
<1>3. new = "CLOSED" => ~b
  OBVIOUS
<1> HIDE DEF b
<1>4. /\ e.id = sk.id /\ e.peer = sk.peer /\ e.state = new /\ e.q = sk.q
      /\ e.hashed = b /\ e.dead = sk.dead /\ e.rtx = sk.rtx
      /\ e.rtxFired = sk.rtxFired /\ e.tw = sk.tw /\ e.twFired = sk.twFired
      /\ e.destroyed = sk.destroyed
      /\ e.releasing = sk.releasing /\ e.late = sk.late /\ e.out = sk.out
  BY <1>1, Zenon DEF Sock
<1> HIDE DEF e
<1>5. /\ new # "INIT" /\ new # "REQUEST"
      /\ ~e.late => e.destroyed = 0 /\ ~e.releasing /\ ~sk.late
  BY <1>4, Zenon DEF Alive
<1>6. Life(e)
  BY <1>3, <1>4, <1>5, Zenon DEF Alive, Life, Sane, Unraced
<1>7. Alive(e) /\ Moved(e, sk)
  BY <1>4, <1>5, <1>6, Zenon DEF Alive, Moved
<1> QED BY <1>2, <1>4, <1>7, Zenon

\* A socket leaves the flow table when it is closed; its timer is stopped.
LEMMA StopLife ==
    ASSUME NEW sk, SockInv(sk), Sane(sk),
           ~sk.late => sk.destroyed = 0 /\ ~sk.releasing
    PROVE  LET c == [serval_sock_set_state(sk, "CLOSED") EXCEPT !.rtx = FALSE]
           IN /\ Alive(c) /\ c.id = sk.id /\ c.peer = sk.peer
              /\ c.state = "CLOSED" /\ c.dead = sk.dead
<1> DEFINE b == sk.hashed /\ "CLOSED" # "CLOSED"
           e == [sk EXCEPT !.state = "CLOSED", !.hashed = b]
           c == [e EXCEPT !.rtx = FALSE]
<1>1. sk \in Sock /\ "CLOSED" \in States
  BY Zenon DEF SockInv, States
<1>2. [serval_sock_set_state(sk, "CLOSED") EXCEPT !.rtx = FALSE] = c
  BY Zenon DEF serval_sock_set_state
<1>3. ~b /\ b \in BOOLEAN /\ "CLOSED" # "INIT" /\ "CLOSED" # "REQUEST"
  OBVIOUS
<1> HIDE DEF b
<1>4. e \in Sock
  BY <1>1, <1>3, Zenon DEF Sock
<1>5. /\ e.id = sk.id /\ e.peer = sk.peer /\ e.state = "CLOSED" /\ e.q = sk.q
      /\ e.hashed = b /\ e.dead = sk.dead
      /\ e.rtxFired = sk.rtxFired /\ e.twFired = sk.twFired
      /\ e.destroyed = sk.destroyed
      /\ e.releasing = sk.releasing /\ e.late = sk.late /\ e.out = sk.out
  BY <1>1, Zenon DEF Sock
<1> HIDE DEF e
<1>6. /\ c.id = e.id /\ c.peer = e.peer /\ c.state = e.state /\ c.q = e.q
      /\ c.hashed = e.hashed /\ c.dead = e.dead /\ c.rtx = FALSE
      /\ c.rtxFired = e.rtxFired /\ c.twFired = e.twFired
      /\ c.destroyed = e.destroyed
      /\ c.releasing = e.releasing /\ c.late = e.late /\ c.out = e.out
  BY <1>4, Zenon DEF Sock
<1> HIDE DEF c
<1>7. c.state = "CLOSED" /\ c.out = sk.out /\ c.q = sk.q /\ c.id = sk.id
      /\ c.peer = sk.peer /\ c.destroyed = sk.destroyed
      /\ c.releasing = sk.releasing /\ c.late = sk.late
  BY <1>5, <1>6, Zenon
<1>8. ~c.late => Unraced(c)
  BY <1>5, <1>6, <1>7, Zenon DEF Sane, Unraced
<1>9. Alive(c)
  BY <1>3, <1>5, <1>6, <1>7, <1>8, Zenon DEF Alive, Life, Sane
<1> QED BY <1>2, <1>5, <1>6, <1>9, Zenon

\* The end of a socket: it is destroyed only if the application let go of it.
LEMMA DoneLife ==
    ASSUME NEW sk, SockInv(sk), Sane(sk),
           ~sk.late => sk.destroyed = 0 /\ ~sk.releasing
    PROVE  LET c == serval_sal_done(sk)
           IN /\ Life(c) /\ Moved(c, sk) /\ c.state = "CLOSED" /\ c.dead = sk.dead
              /\ ~sk.dead => Alive(c)
<1> DEFINE s == serval_sock_set_state(sk, "CLOSED")
           e == [s EXCEPT !.rtx = FALSE]
<1>1. SockInv(s)
  BY SetStateInv, Zenon DEF States
<1>2. /\ Alive(e) /\ e.id = sk.id /\ e.peer = sk.peer
      /\ e.state = "CLOSED" /\ e.dead = sk.dead
  BY StopLife, Zenon
<1>3. serval_sal_done(sk) = serval_sock_destroy(e)
  BY Zenon DEF serval_sal_done
<1> HIDE DEF s
<1>4. SockInv(e)
  BY <1>1, RtxInv, Zenon
<1> HIDE DEF e
<1>5. LET c == serval_sock_destroy(e)
      IN Life(c) /\ Kept(c, e) /\ (~e.dead => c = e)
  BY <1>2, <1>4, DestroyLife, Zenon
<1>6. "CLOSED" # "REQUEST"
  OBVIOUS
<1> QED BY <1>2, <1>3, <1>5, <1>6, Zenon DEF Kept, Moved

\* The same for a socket that is alive.
LEMMA DoneAlive ==
    ASSUME NEW sk, SockInv(sk), Alive(sk)
    PROVE  LET c == serval_sal_done(sk)
           IN Life(c) /\ Moved(c, sk) /\ (~sk.dead => Alive(c))
BY DoneLife, Zenon DEF Alive, Life

\* Recording an error.
LEMMA ErrLife ==
    ASSUME NEW sk, SockInv(sk), Alive(sk), NEW err
    PROVE  LET c == [sk EXCEPT !.err = err]
           IN Alive(c) /\ Kept(c, sk)
<1> DEFINE e == [sk EXCEPT !.err = err]
<1>1. sk \in Sock
  BY Zenon DEF SockInv
<1>2. SameCore(e, sk)
  BY <1>1, Zenon DEF Sock, SameCore
<1>3. e.out = sk.out
  BY <1>1, Zenon DEF Sock
<1> HIDE DEF e
<1>4. Alive(e) /\ Kept(e, sk)
  BY <1>2, <1>3, CoreLife, Zenon
<1> QED BY <1>4, Zenon DEF e

\* Entering TIMEWAIT or FINWAIT2.
LEMMA TimewaitLife ==
    ASSUME NEW sk, SockInv(sk), Alive(sk), sk.state # "CLOSED",
           NEW new \in {"TIMEWAIT", "FINWAIT2"}
    PROVE  LET c == serval_sal_timewait(sk, new)
           IN Alive(c) /\ Moved(c, sk)
<1> DEFINE s == serval_sock_set_state(sk, new)
           e == [s EXCEPT !.tw = TRUE]
<1>1. new \in States /\ new \notin {"INIT", "REQUEST"}
  BY Zenon DEF States
<1>2. SockInv(s)
  BY <1>1, SetStateInv, Zenon
<1>3. Alive(s) /\ Moved(s, sk)
  BY <1>1, SetStateLife, Zenon
<1>4. serval_sal_timewait(sk, new) = e
  BY Zenon DEF serval_sal_timewait
<1> HIDE DEF s
<1>5. s \in Sock
  BY <1>2, Zenon DEF SockInv
<1>6. /\ e.id = s.id /\ e.peer = s.peer /\ e.state = s.state /\ e.q = s.q
      /\ e.hashed = s.hashed /\ e.dead = s.dead /\ e.rtx = s.rtx
      /\ e.rtxFired = s.rtxFired /\ e.twFired = s.twFired
      /\ e.destroyed = s.destroyed
      /\ e.releasing = s.releasing /\ e.late = s.late /\ e.out = s.out
  BY <1>5, Zenon DEF Sock
<1> HIDE DEF e
<1>7. ~e.late => e.destroyed = 0 /\ ~e.releasing /\ ~s.late
  BY <1>3, <1>6, Zenon DEF Alive
<1>8. Alive(e) /\ Moved(e, sk)
  BY <1>3, <1>6, <1>7, Zenon DEF Alive, Life, Sane, Unraced, Moved
<1> QED BY <1>4, <1>8, Zenon

\* A socket with another verno or migration state.
LEMMA NxtLife ==
    ASSUME NEW sk, SockInv(sk), Alive(sk), NEW n
    PROVE  Alive([sk EXCEPT !.nxt = n]) /\ Kept([sk EXCEPT !.nxt = n], sk)
<1> DEFINE e == [sk EXCEPT !.nxt = n]
<1>1. sk \in Sock
  BY Zenon DEF SockInv
<1>2. SameCore(e, sk)
  BY <1>1, Zenon DEF Sock, SameCore
<1>3. e.out = sk.out
  BY <1>1, Zenon DEF Sock
<1> HIDE DEF e
<1>4. Alive(e) /\ Kept(e, sk)
  BY <1>2, <1>3, CoreLife, Zenon
<1> QED BY <1>4, Zenon DEF e

\* The RSYN never takes the place of a SYN: it is refused in REQUEST.
LEMMA SendRsynLife ==
    ASSUME NEW sk, SockInv(sk), Alive(sk), NEW verno \in Seq32
    PROVE  LET c == serval_sal_send_rsyn(sk, verno)
           IN Alive(c) /\ Kept(c, sk)
<1> DEFINE sal == CASE sk.sal = "RSYN_INITIAL" -> "RSYN_SENT"
                    [] sk.sal = "RSYN_RECV" -> "RSYN_SENT_RECV"
                    [] OTHER -> sk.sal
           moved == [sk EXCEPT !.sal = sal]
           fin == IF sk.state \in {"FINWAIT1", "CLOSING", "LASTACK"}
                  THEN {"FIN"} ELSE {}
           flags == {"RSYN"} \cup fin
<1>1. sk \in Sock /\ sk.sal \in SalStates
  BY Zenon DEF SockInv, Sock
<1>2. sal \in SalStates
  BY <1>1, Zenon DEF SalStates
<1>3. flags \in SUBSET Flags /\ "SYN" \notin flags
  BY Zenon DEF Flags
<1>4. serval_sal_send_rsyn(sk, verno)
        = IF sk.state \in {"REQUEST", "LISTEN", "CLOSED"} THEN sk
          ELSE serval_sal_queue_and_push(moved, flags, verno)
  BY Zenon DEF serval_sal_send_rsyn
<1> HIDE DEF sal, flags
<1>5. SockInv(moved)
  BY <1>2, SalInv, Zenon
<1>6. SameCore(moved, sk)
  BY <1>1, Zenon DEF Sock, SameCore
<1>7. moved.out = sk.out
  BY <1>1, Zenon DEF Sock
<1> HIDE DEF moved
<1>8. Alive(moved) /\ Kept(moved, sk)
  BY <1>6, <1>7, CoreLife, Zenon
<1>9. CASE sk.state \in {"REQUEST", "LISTEN", "CLOSED"}
  BY <1>4, <1>9, Zenon DEF Kept
<1>10. CASE sk.state \notin {"REQUEST", "LISTEN", "CLOSED"}
  <2>1. moved.state # "REQUEST"
    BY <1>8, <1>10, Zenon DEF Kept
  <2>2. LET c == serval_sal_queue_and_push(moved, flags, verno)
        IN Alive(c) /\ Kept(c, moved)
    BY <1>3, <1>5, <1>8, <2>1, PushLife, Zenon
  <2> QED BY <1>4, <1>8, <1>10, <2>2, Zenon DEF Kept
<1> QED BY <1>9, <1>10, Zenon

\* A migration.
LEMMA MigrateLife ==
    ASSUME NEW sk, SockInv(sk), Alive(sk)
    PROVE  Alive(serval_sal_migrate(sk)) /\ Kept(serval_sal_migrate(sk), sk)
<1> DEFINE e == [sk EXCEPT !.nxt = Add(sk.nxt, 1)]
<1>1. SockInv(e) /\ sk.nxt \in Seq32
  BY NxtType, NxtInv, Zenon
<1>2. Alive(e) /\ Kept(e, sk)
  BY NxtLife, Zenon
<1>3. serval_sal_migrate(sk) = serval_sal_send_rsyn(e, sk.nxt)
  BY Zenon DEF serval_sal_migrate
<1> HIDE DEF e
<1> QED BY <1>1, <1>2, <1>3, SendRsynLife, ZenonT(40) DEF Kept

\* The FIN of a socket that is past the handshake.
LEMMA SendFinLife ==
    ASSUME NEW sk, SockInv(sk), Alive(sk), sk.state # "REQUEST"
    PROVE  Alive(serval_sal_send_fin(sk)) /\ Kept(serval_sal_send_fin(sk), sk)
<1> DEFINE mig == CASE sk.sal = "RSYN_SENT" -> {"RSYN"}
                    [] sk.sal = "RSYN_RECV" -> {"RSYN", "ACK"}
                    [] OTHER -> {}
           flags == {"FIN"} \cup mig
           n == Add(sk.nxt, 1)
           e == [sk EXCEPT !.nxt = n, !.finSent = TRUE, !.finPending = FALSE]
<1>1. flags \in SUBSET Flags /\ "SYN" \notin flags
  BY Zenon DEF Flags
<1>2. sk \in Sock /\ n \in Seq32 /\ sk.nxt \in Seq32
  BY NxtType, Zenon DEF SockInv
<1>3. serval_sal_send_fin(sk) = serval_sal_queue_and_push(e, flags, sk.nxt)
  BY Zenon DEF serval_sal_send_fin
<1> HIDE DEF n, flags
<1>4. e \in Sock
  BY <1>2, ZenonT(40) DEF Sock
<1>5. e.una = sk.una /\ e.out = sk.out
  BY <1>2, Zenon DEF Sock
<1>6. SameCore(e, sk)
  BY <1>2, Zenon DEF Sock, SameCore
<1> HIDE DEF e
<1>7. SockInv(e) /\ Alive(e) /\ Kept(e, sk)
  BY <1>4, <1>5, <1>6, SameQueue, CoreLife, Zenon DEF SameCore
<1>8. e.state # "REQUEST"
  BY <1>7, Zenon DEF Kept
<1>9. LET c == serval_sal_queue_and_push(e, flags, sk.nxt)
      IN Alive(c) /\ Kept(c, e)
  BY <1>1, <1>2, <1>7, <1>8, PushLife, Zenon
<1> QED BY <1>3, <1>7, <1>9, Zenon DEF Kept

\* A reset sent because unread data is thrown away.
LEMMA ActiveResetLife ==
    ASSUME NEW sk, SockInv(sk), Alive(sk)
    PROVE  LET c == serval_sal_send_active_reset(sk)
           IN Alive(c) /\ SameCore(c, sk)
<1>1. "SYN" \notin {"RST", "ACK"}
  OBVIOUS
<1> QED BY <1>1, TransmitLife, Zenon DEF serval_sal_send_active_reset

\* Waiting for the transport's own FIN.
LEMMA FinPendingLife ==
    ASSUME NEW sk, SockInv(sk), Alive(sk)
    PROVE  LET c == [sk EXCEPT !.finPending = TRUE]
           IN Alive(c) /\ Kept(c, sk)
<1> DEFINE e == [sk EXCEPT !.finPending = TRUE]
<1>1. sk \in Sock
  BY Zenon DEF SockInv
<1>2. SameCore(e, sk)
  BY <1>1, Zenon DEF Sock, SameCore
<1>3. e.out = sk.out
  BY <1>1, Zenon DEF Sock
<1> HIDE DEF e
<1>4. Alive(e) /\ Kept(e, sk)
  BY <1>2, <1>3, CoreLife, Zenon
<1> QED BY <1>4, Zenon DEF e

\* Every way a close can go; none of them destroys a socket still in use.
LEMMA CloseLife ==
    ASSUME NEW sk, SockInv(sk), Alive(sk), ~sk.dead, NEW unread
    PROVE  LET c == serval_sal_close(sk, unread)
           IN Alive(c) /\ Moved(c, sk)
<1> DEFINE new == IF sk.state = "CLOSEWAIT" THEN "LASTACK" ELSE "FINWAIT1"
           fin == serval_sock_set_state(sk, new)
           reset == serval_sock_set_state(fin, "CLOSED")
<1>1. CASE sk.state \in {"FINWAIT1", "FINWAIT2", "CLOSING", "TIMEWAIT"}
  BY <1>1, Zenon DEF serval_sal_close, Moved
<1>2. CASE sk.state \notin {"CLOSEWAIT", "CONNECTED", "RESPOND", "FINWAIT1",
                            "FINWAIT2", "CLOSING", "TIMEWAIT"}
  <2>1. serval_sal_close(sk, unread) = serval_sal_done(sk)
    BY <1>2, Zenon DEF serval_sal_close
  <2> QED BY <2>1, DoneAlive, Zenon
<1>3. CASE sk.state \in {"CLOSEWAIT", "CONNECTED", "RESPOND"}
  <2>1. /\ new \in States /\ new \notin {"INIT", "REQUEST"} /\ sk.state # "CLOSED"
        /\ new # "REQUEST"
    BY <1>3, Zenon DEF States
  <2>2. serval_sal_close(sk, unread) \in
          {serval_sal_send_fin(fin), serval_sal_send_active_reset(reset),
           [fin EXCEPT !.finPending = TRUE]}
    BY <1>3, Zenon DEF serval_sal_close
  <2> HIDE DEF new
  <2>3. SockInv(fin)
    BY <2>1, SetStateInv, Zenon
  <2>4. Alive(fin) /\ Moved(fin, sk) /\ fin.peer = sk.peer /\ fin.state = new
    BY <2>1, SetStateLife, Zenon
  <2> HIDE DEF fin
  <2>5. LET c == serval_sal_send_fin(fin) IN Alive(c) /\ Kept(c, fin)
    BY <2>1, <2>3, <2>4, SendFinLife, Zenon
  <2>6. SockInv(reset)
    BY <2>3, SetStateInv, Zenon DEF States
  <2>7. Alive(reset) /\ Moved(reset, fin) /\ reset.peer = fin.peer
        /\ reset.state = "CLOSED"
    <3>1. "CLOSED" \notin {"INIT", "REQUEST"}
      OBVIOUS
    <3> QED BY <2>3, <2>4, <3>1, SetStateLife, Zenon
  <2> HIDE DEF reset
  <2>8. LET c == serval_sal_send_active_reset(reset) IN Alive(c) /\ SameCore(c, reset)
    BY <2>6, <2>7, ActiveResetLife, Zenon
  <2>9. LET c == [fin EXCEPT !.finPending = TRUE] IN Alive(c) /\ Kept(c, fin)
    BY <2>3, <2>4, FinPendingLife, Zenon
  <2>10. ASSUME NEW c \in {serval_sal_send_fin(fin), [fin EXCEPT !.finPending = TRUE],
                           serval_sal_send_active_reset(reset)}
         PROVE  Alive(c) /\ Moved(c, sk)
    BY <2>1, <2>4, <2>5, <2>7, <2>8, <2>9, <2>10, ZenonT(40) DEF Moved, Kept, SameCore
  <2> QED BY <2>2, <2>10, Zenon
<1> QED BY <1>1, <1>2, <1>3, Zenon

\* Closing and orphaning: what is closed by then is to be destroyed.
LEMMA ReleaseLife ==
    ASSUME NEW sk, SockInv(sk), Alive(sk), ~sk.dead, NEW unread
    PROVE  LET c == serval_release(sk, unread)
           IN Life(c) /\ Moved(c, sk)
<1> DEFINE shut == IF sk.state = "CLOSED" THEN sk
                   ELSE serval_sal_close(sk, unread)
           b == shut.state = "CLOSED"
           e == [shut EXCEPT !.dead = TRUE, !.releasing = b]
<1>1. SockInv(shut) /\ Alive(shut) /\ Moved(shut, sk)
  BY CloseInv, CloseLife, Zenon DEF Moved
<1>2. serval_release(sk, unread) = e
  BY Zenon DEF serval_release
<1>3. b => shut.state = "CLOSED"
  OBVIOUS
<1> HIDE DEF shut, b
<1>4. shut \in Sock
  BY <1>1, Zenon DEF SockInv
<1>5. /\ e.id = shut.id /\ e.peer = shut.peer /\ e.state = shut.state
      /\ e.q = shut.q /\ e.hashed = shut.hashed /\ e.dead = TRUE /\ e.rtx = shut.rtx
      /\ e.rtxFired = shut.rtxFired /\ e.tw = shut.tw /\ e.twFired = shut.twFired
      /\ e.destroyed = shut.destroyed /\ e.releasing = b /\ e.late = shut.late
      /\ e.out = shut.out
  BY <1>4, Zenon DEF Sock
<1> HIDE DEF e
<1>6. ~e.late => Unraced(e)
  BY <1>1, <1>3, <1>5, Zenon DEF Alive, Life, Sane, Unraced
<1>7. Life(e) /\ Moved(e, sk)
  BY <1>1, <1>5, <1>6, Zenon DEF Alive, Life, Sane, Moved
<1> QED BY <1>2, <1>7, Zenon

\* The end of serval_release destroys the socket, for the first time unless a
\* callback came in between.
LEMMA ReleaseEndLife ==
    ASSUME NEW sk, SockInv(sk), Life(sk), sk.releasing
    PROVE  LET c == serval_sock_destroy([sk EXCEPT !.releasing = FALSE])
           IN Life(c) /\ Moved(c, sk)
<1> DEFINE e == [sk EXCEPT !.releasing = FALSE]
<1>1. sk \in Sock
  BY Zenon DEF SockInv
<1>2. e \in Sock /\ e.una = sk.una
  <2>1. e \in Sock
    BY <1>1, Zenon DEF Sock
  <2>2. e.una = sk.una
    BY <1>1, Zenon DEF Sock
  <2> QED BY <2>1, <2>2, Zenon
<1>3. /\ e.id = sk.id /\ e.peer = sk.peer /\ e.state = sk.state
      /\ e.q = sk.q /\ e.hashed = sk.hashed /\ e.dead = sk.dead /\ e.rtx = sk.rtx
      /\ e.rtxFired = sk.rtxFired /\ e.tw = sk.tw /\ e.twFired = sk.twFired
      /\ e.destroyed = sk.destroyed /\ e.releasing = FALSE /\ e.late = sk.late
      /\ e.out = sk.out
  BY <1>1, Zenon DEF Sock
<1> HIDE DEF e
<1>4. SockInv(e)
  BY <1>2, <1>3, SameQueue, Zenon
<1>5. ~sk.late => sk.destroyed = 0 /\ sk.state = "CLOSED"
  BY Zenon DEF Life, Sane, Unraced, Gone
<1>6. ~e.late => Unraced(e)
  BY <1>3, <1>5, Zenon DEF Life, Sane, Unraced
<1>7. Alive(e) /\ (~e.late => e.state = "CLOSED")
  BY <1>3, <1>5, <1>6, Zenon DEF Alive, Life, Sane
<1>8. LET c == serval_sock_destroy(e) IN Life(c) /\ Kept(c, e)
  BY <1>4, <1>7, DestroyLife, Zenon
<1>9. LET c == serval_sock_destroy(e) IN Life(c) /\ Moved(c, sk)
  BY <1>3, <1>8, Zenon DEF Moved, Kept
<1> QED BY <1>9, Zenon DEF e

-----------------------------------------------------------------------------
\* Reception on a socket.

\* An ACK, with the end of the peer's migration.
LEMMA AckProcessLife ==
    ASSUME NEW sk, SockInv(sk), Alive(sk), NEW p \in Packet
    PROVE  LET c == serval_sal_ack_process(sk, p)
           IN Alive(c) /\ Kept(c, sk)
<1> DEFINE answering == sk.sal \in {"RSYN_RECV", "RSYN_SENT_RECV"}
           clean == serval_sal_clean_rtx_queue(sk, p.ackno, answering)
           acked == [clean EXCEPT !.una = p.ackno]
           sal == IF acked.sal = "RSYN_RECV" THEN "RSYN_INITIAL"
                  ELSE "RSYN_SENT"
           e == [acked EXCEPT !.sal = sal, !.daddr = sk.migdaddr,
                              !.migdaddr = NoAddr]
<1>1. CASE ~ack_valid(sk, p)
  BY <1>1, Zenon DEF serval_sal_ack_process, Kept
<1>2. CASE ack_valid(sk, p)
  <2>1. answering \in BOOLEAN /\ p.ackno \in Seq32
    BY PacketType
  <2>2. serval_sal_ack_process(sk, p)
          = IF answering /\ "RSYN" \notin p.flags THEN e ELSE acked
    BY <1>2, Zenon DEF serval_sal_ack_process
  <2> HIDE DEF answering
  <2>3. SockInv(clean) /\ Alive(clean) /\ Kept(clean, sk)
    BY <2>1, CleanInv, CleanLife, Zenon
  <2> HIDE DEF clean
  <2>4. clean \in Sock
    BY <2>3, Zenon DEF SockInv
  <2>5. acked \in Sock /\ acked.out = clean.out
    BY <2>1, <2>4, ZenonT(40) DEF Sock
  <2>6. SameCore(acked, clean)
    BY <2>4, Zenon DEF Sock, SameCore
  <2> HIDE DEF acked, sal
  <2>7. e.out = acked.out
    BY <2>5, Zenon DEF Sock
  <2>8. SameCore(e, acked)
    BY <2>5, Zenon DEF Sock, SameCore
  <2> HIDE DEF e
  <2>9. Alive(acked) /\ Kept(acked, clean)
    BY <2>3, <2>5, <2>6, CoreLife, Zenon
  <2>10. Alive(e) /\ Kept(e, acked)
    BY <2>7, <2>8, <2>9, CoreLife, Zenon
  <2> QED BY <2>2, <2>3, <2>9, <2>10, Zenon DEF Kept
<1> QED BY <1>1, <1>2, Zenon

\* A reset ends the socket.
LEMMA RcvResetLife ==
    ASSUME NEW sk, SockInv(sk), Alive(sk)
    PROVE  LET c == serval_sal_rcv_reset(sk)
           IN Life(c) /\ Moved(c, sk)
<1> DEFINE err == CASE sk.state = "REQUEST" -> "ECONNREFUSED"
                    [] sk.state = "CLOSEWAIT" -> "EPIPE"
                    [] OTHER -> "ECONNRESET"
           e == [sk EXCEPT !.err = err]
<1>1. err \in Errors
  BY Zenon DEF Errors
<1>2. serval_sal_rcv_reset(sk)
        = IF sk.state = "CLOSED" THEN sk ELSE serval_sal_done(e)
  BY Zenon DEF serval_sal_rcv_reset
<1> HIDE DEF err
<1>3. SockInv(e) /\ Alive(e) /\ Kept(e, sk)
  BY <1>1, ErrInv, ErrLife, Zenon
<1> HIDE DEF e
<1>4. LET c == serval_sal_done(e) IN Life(c) /\ Moved(c, e)
  BY <1>3, DoneAlive, Zenon
<1> QED BY <1>2, <1>3, <1>4, Zenon DEF Alive, Moved, Kept

\* An RSYN-ACK only moves addresses.
LEMMA RcvRsynackLife ==
    ASSUME NEW sk, SockInv(sk), Alive(sk), NEW p \in Packet
    PROVE  LET c == serval_sal_rcv_rsynack(sk, p)
           IN Alive(c) /\ Kept(c, sk)
<1> DEFINE d == [sk EXCEPT !.sal = "RSYN_INITIAL", !.saddr = sk.migdev,
                           !.migdev = NoAddr]
           e == [sk EXCEPT !.sal = "RSYN_RECV", !.migdaddr = p.saddr]
<1>1. sk \in Sock /\ p.saddr \in Addrs \cup {NoAddr}
  BY PacketType, Zenon DEF SockInv
<1>2. /\ NoAddr \in Addrs \cup {NoAddr} /\ sk.migdev \in Addrs \cup {NoAddr}
      /\ "RSYN_INITIAL" \in SalStates /\ "RSYN_RECV" \in SalStates
  BY <1>1, Zenon DEF SalStates, Sock
<1>3. d \in Sock /\ d.una = sk.una /\ d.out = sk.out
  BY <1>1, <1>2, ZenonT(40) DEF Sock
<1>4. SameCore(d, sk)
  BY <1>1, Zenon DEF Sock, SameCore
<1>5. e \in Sock /\ e.una = sk.una /\ e.out = sk.out
  BY <1>1, <1>2, ZenonT(40) DEF Sock
<1>6. SameCore(e, sk)
  BY <1>1, Zenon DEF Sock, SameCore
<1>7. serval_sal_rcv_rsynack(sk, p) \in
        {sk, serval_sal_send_ack(d), serval_sal_send_ack(e),
         serval_sal_send_ack(sk)}
  BY Zenon DEF serval_sal_rcv_rsynack
<1> HIDE DEF d, e
<1>8. /\ SockInv(d) /\ Alive(d) /\ Kept(d, sk)
      /\ SockInv(e) /\ Alive(e) /\ Kept(e, sk)
  BY <1>3, <1>4, <1>5, <1>6, SameQueue, CoreLife, Zenon DEF SameCore
<1>9. ASSUME NEW s, SockInv(s), Alive(s), Kept(s, sk)
      PROVE  Alive(serval_sal_send_ack(s)) /\ Kept(serval_sal_send_ack(s), sk)
  BY <1>9, SendAckLife, Zenon DEF Kept, SameCore
<1>10. Kept(sk, sk)
  BY Zenon DEF Kept
<1> QED BY <1>7, <1>8, <1>9, <1>10, Zenon

\* An RSYN: refused in REQUEST, so its answer never overrides a SYN there.
LEMMA RcvRsynLife ==
    ASSUME NEW sk, SockInv(sk), Alive(sk), NEW p \in Packet
    PROVE  LET c == serval_sal_rcv_rsyn(sk, p)
           IN Alive(c) /\ Kept(c, sk)
<1> DEFINE sal == CASE sk.sal = "RSYN_INITIAL" -> "RSYN_RECV"
                    [] sk.sal = "RSYN_SENT" -> "RSYN_SENT_RECV"
                    [] OTHER -> sk.sal
           n == Add(p.verno, 1)
           e == [sk EXCEPT !.sal = sal, !.rcvnxt = n, !.migdaddr = p.saddr]
           flags == {"RSYN", "ACK"}
<1>1. sk \in Sock /\ n \in Seq32 /\ p.saddr \in Addrs \cup {NoAddr}
      /\ sk.nxt \in Seq32
  BY PacketType, NxtType, Zenon DEF SockInv
<1>2. sk.sal \in SalStates
  BY <1>1, Zenon DEF Sock
<1>3. sal \in SalStates
  BY <1>2, Zenon DEF SalStates
<1>4. serval_sal_rcv_rsyn(sk, p)
        = IF \/ ~has_valid_control_extension(sk, p)
             \/ sk.state \in {"CLOSED", "LISTEN", "REQUEST"}
          THEN sk ELSE serval_sal_queue_and_push(e, flags, sk.nxt)
  BY Zenon DEF serval_sal_rcv_rsyn
<1>5. flags \in SUBSET Flags /\ "SYN" \notin flags
  BY Zenon DEF Flags
<1> HIDE DEF sal, n, flags
<1>6. e \in Sock /\ e.una = sk.una /\ e.out = sk.out
  BY <1>1, <1>3, ZenonT(40) DEF Sock
<1>7. SameCore(e, sk)
  BY <1>1, Zenon DEF Sock, SameCore
<1> HIDE DEF e
<1>8. SockInv(e) /\ Alive(e) /\ Kept(e, sk)
  BY <1>6, <1>7, SameQueue, CoreLife, Zenon DEF SameCore
<1>9. CASE sk.state = "REQUEST"
  <2>1. serval_sal_rcv_rsyn(sk, p) = sk
    BY <1>4, <1>9, Zenon
  <2> QED BY <2>1, Zenon DEF Kept
<1>10. CASE sk.state # "REQUEST"
  <2>1. e.state # "REQUEST"
    BY <1>8, <1>10, Zenon DEF Kept
  <2>2. LET c == serval_sal_queue_and_push(e, flags, sk.nxt)
        IN Alive(c) /\ Kept(c, e)
    BY <1>1, <1>5, <1>8, <2>1, PushLife, Zenon
  <2> QED BY <1>4, <1>8, <2>2, Zenon DEF Kept
<1> QED BY <1>9, <1>10, Zenon

\* A FIN is noted and acknowledged.
LEMMA RcvFinLife ==
    ASSUME NEW sk, SockInv(sk), Alive(sk), NEW p \in Packet
    PROVE  LET c == serval_sal_rcv_fin(sk, p)
           IN Alive(c) /\ Kept(c, sk)
<1> DEFINE n == Add(p.verno, 1)
           e == [sk EXCEPT !.finRcvd = TRUE, !.rcvnxt = n]
<1>1. sk \in Sock /\ n \in Seq32
  BY PacketType, Zenon DEF SockInv
<1>2. serval_sal_rcv_fin(sk, p)
        = IF ~has_valid_control_extension(sk, p) THEN sk
          ELSE serval_sal_send_ack(e)
  BY Zenon DEF serval_sal_rcv_fin
<1> HIDE DEF n
<1>3. e \in Sock /\ e.una = sk.una /\ e.out = sk.out
  BY <1>1, ZenonT(40) DEF Sock
<1>4. SameCore(e, sk)
  BY <1>1, Zenon DEF Sock, SameCore
<1> HIDE DEF e
<1>5. SockInv(e) /\ Alive(e) /\ Kept(e, sk)
  BY <1>3, <1>4, SameQueue, CoreLife, Zenon DEF SameCore
<1>6. Alive(serval_sal_send_ack(e)) /\ Kept(serval_sal_send_ack(e), sk)
  BY <1>5, SendAckLife, Zenon DEF Kept, SameCore
<1> QED BY <1>2, <1>6, Zenon DEF Kept

\* CONNECTED: an ACK, and a FIN that leads to CLOSEWAIT.
LEMMA ConnectedLife ==
    ASSUME NEW sk, SockInv(sk), Alive(sk), sk.state = "CONNECTED", NEW p \in Packet
    PROVE  LET c == connected_state_process(sk, p)
           IN Life(c) /\ Moved(c, sk)
<1> DEFINE a == serval_sal_ack_process(sk, p)
           r == serval_sal_rcv_fin(a, p)
<1>1. SockInv(a) /\ Alive(a) /\ Kept(a, sk)
  BY AckProcessInv, AckProcessLife, Zenon
<1>2. connected_state_process(sk, p) \in {a, serval_sock_set_state(r, "CLOSEWAIT")}
  BY Zenon DEF connected_state_process
<1> HIDE DEF a
<1>3. SockInv(r) /\ Alive(r) /\ Kept(r, a)
  BY <1>1, RcvFinInv, RcvFinLife, Zenon
<1> HIDE DEF r
<1>4. "CLOSEWAIT" \notin {"INIT", "REQUEST"} /\ r.state = "CONNECTED"
      /\ r.state # "CLOSED"
  BY <1>1, <1>3, Zenon DEF Kept
<1>5. LET c == serval_sock_set_state(r, "CLOSEWAIT") IN Alive(c) /\ Moved(c, r)
  BY <1>3, <1>4, SetStateLife, Zenon
<1> QED BY <1>1, <1>2, <1>3, <1>5, Zenon DEF Alive, Moved, Kept

\* The ACK of a repeated FIN.
LEMMA FinAckLife ==
    ASSUME NEW sk, SockInv(sk), Alive(sk), NEW p
    PROVE  LET r == IF "FIN" \in p.flags THEN serval_sal_send_ack(sk) ELSE sk
           IN SockInv(r) /\ Alive(r) /\ Kept(r, sk)
<1>1. LET r == serval_sal_send_ack(sk) IN SockInv(r) /\ Alive(r) /\ Kept(r, sk)
  BY SendAckInv, SendAckLife, Zenon DEF Kept, SameCore
<1>2. Kept(sk, sk)
  BY Zenon DEF Kept
<1> QED BY <1>1, <1>2, Zenon

\* CLOSEWAIT: a repeated FIN is acknowledged again, then the ACK is taken.
LEMMA ClosewaitLife ==
    ASSUME NEW sk, SockInv(sk), Alive(sk), NEW p \in Packet
    PROVE  LET c == closewait_state_process(sk, p)
           IN Life(c) /\ Moved(c, sk)
<1> DEFINE r == IF "FIN" \in p.flags THEN serval_sal_send_ack(sk) ELSE sk
<1>1. SockInv(r) /\ Alive(r) /\ Kept(r, sk)
  BY FinAckLife, Zenon
<1>2. closewait_state_process(sk, p) = serval_sal_ack_process(r, p)
  BY Zenon DEF closewait_state_process
<1> HIDE DEF r
<1>3. LET c == serval_sal_ack_process(r, p) IN Alive(c) /\ Kept(c, r)
  BY <1>1, AckProcessLife, Zenon
<1> QED BY <1>1, <1>2, <1>3, Zenon DEF Alive, Moved, Kept

\* FINWAIT1: the peer's FIN and the ACK of ours, in either order or together.
LEMMA Finwait1Life ==
    ASSUME NEW sk, SockInv(sk), Alive(sk), sk.state = "FINWAIT1", NEW p \in Packet
    PROVE  LET c == finwait1_state_process(sk, p)
           IN Life(c) /\ Moved(c, sk)
<1> DEFINE a == serval_sal_ack_process(sk, p)
           r == serval_sal_rcv_fin(a, p)
           t == serval_sal_timewait(r, "TIMEWAIT")
           u == serval_sock_set_state(r, "CLOSING")
           v == serval_sal_timewait(a, "FINWAIT2")
<1>1. SockInv(a) /\ Alive(a) /\ Kept(a, sk)
  BY AckProcessInv, AckProcessLife, Zenon
<1>2. finwait1_state_process(sk, p) \in {a, t, u, v}
  BY Zenon DEF finwait1_state_process
<1> HIDE DEF a
<1>3. SockInv(r) /\ Alive(r) /\ Kept(r, a)
  BY <1>1, RcvFinInv, RcvFinLife, Zenon
<1> HIDE DEF r
<1>4. /\ a.state # "CLOSED" /\ r.state # "CLOSED"
      /\ "CLOSING" \notin {"INIT", "REQUEST"}
      /\ "TIMEWAIT" \in {"TIMEWAIT", "FINWAIT2"} /\ "FINWAIT2" \in {"TIMEWAIT", "FINWAIT2"}
  BY <1>1, <1>3, Zenon DEF Kept
<1>5. /\ Alive(t) /\ Moved(t, r) /\ Alive(v) /\ Moved(v, a)
      /\ Alive(u) /\ Moved(u, r)
  BY <1>1, <1>3, <1>4, TimewaitLife, SetStateLife, Zenon
<1> HIDE DEF t, u, v
<1> QED BY <1>1, <1>2, <1>3, <1>5, Zenon DEF Alive, Moved, Kept

\* FINWAIT2: the peer's FIN leads to TIMEWAIT.
LEMMA Finwait2Life ==
    ASSUME NEW sk, SockInv(sk), Alive(sk), sk.state = "FINWAIT2", NEW p \in Packet
    PROVE  LET c == finwait2_state_process(sk, p)
           IN Life(c) /\ Moved(c, sk)
<1> DEFINE r == serval_sal_rcv_fin(sk, p)
           t == serval_sal_timewait(r, "TIMEWAIT")
<1>1. SockInv(r) /\ Alive(r) /\ Kept(r, sk)
  BY RcvFinInv, RcvFinLife, Zenon
<1>2. finwait2_state_process(sk, p) \in {sk, t}
  BY Zenon DEF finwait2_state_process
<1> HIDE DEF r
<1>3. r.state # "CLOSED" /\ "TIMEWAIT" \in {"TIMEWAIT", "FINWAIT2"}
  BY <1>1, Zenon DEF Kept
<1>4. Alive(t) /\ Moved(t, r)
  BY <1>1, <1>3, TimewaitLife, Zenon
<1> HIDE DEF t
<1> QED BY <1>1, <1>2, <1>4, Zenon DEF Alive, Moved, Kept

\* CLOSING: the ACK of our FIN leads to TIMEWAIT.
LEMMA ClosingLife ==
    ASSUME NEW sk, SockInv(sk), Alive(sk), sk.state = "CLOSING", NEW p \in Packet
    PROVE  LET c == closing_state_process(sk, p)
           IN Life(c) /\ Moved(c, sk)
<1> DEFINE k == serval_sal_ack_process(sk, p)
           t == serval_sal_timewait(k, "TIMEWAIT")
           a == IF ack_valid(sk, p) THEN t ELSE sk
<1>1. SockInv(k) /\ Alive(k) /\ Kept(k, sk)
  BY AckProcessInv, AckProcessLife, Zenon
<1>2. closing_state_process(sk, p)
        = IF "FIN" \in p.flags THEN serval_sal_send_ack(a) ELSE a
  BY Zenon DEF closing_state_process
<1> HIDE DEF k
<1>3. k.state # "CLOSED" /\ "TIMEWAIT" \in {"TIMEWAIT", "FINWAIT2"} /\ "TIMEWAIT" \in States
  BY <1>1, Zenon DEF Kept, States
<1>4. SockInv(t) /\ Alive(t) /\ Moved(t, k)
  BY <1>1, <1>3, TimewaitInv, TimewaitLife, Zenon
<1> HIDE DEF t
<1>5. SockInv(a) /\ Alive(a) /\ Moved(a, sk)
  BY <1>1, <1>4, Zenon DEF Moved, Kept
<1> HIDE DEF a
<1>6. LET r == IF "FIN" \in p.flags THEN serval_sal_send_ack(a) ELSE a
      IN Alive(r) /\ Kept(r, a)
  BY <1>5, FinAckLife, Zenon
<1> QED BY <1>2, <1>5, <1>6, Zenon DEF Alive, Moved, Kept

\* LASTACK: the ACK of our FIN ends the socket.
LEMMA LastackLife ==
    ASSUME NEW sk, SockInv(sk), Alive(sk), NEW p \in Packet
    PROVE  LET c == lastack_state_process(sk, p)
           IN Life(c) /\ Moved(c, sk)
<1> DEFINE r == IF "FIN" \in p.flags THEN serval_sal_send_ack(sk) ELSE sk
           a == serval_sal_ack_process(r, p)
<1>1. SockInv(r) /\ Alive(r) /\ Kept(r, sk)
  BY FinAckLife, Zenon
<1>2. lastack_state_process(sk, p)
        = IF ack_valid(r, p) THEN serval_sal_done(a) ELSE a
  BY Zenon DEF lastack_state_process
<1> HIDE DEF r
<1>3. SockInv(a) /\ Alive(a) /\ Kept(a, r)
  BY <1>1, AckProcessInv, AckProcessLife, Zenon
<1> HIDE DEF a
<1>4. LET c == serval_sal_done(a) IN Life(c) /\ Moved(c, a)
  BY <1>3, DoneAlive, Zenon
<1> QED BY <1>1, <1>2, <1>3, <1>4, Zenon DEF Alive, Moved, Kept

\* REQUEST: the SYN-ACK names the peer, and the opener's ACK, the only packet
\* with an ACK and a serviceID, leaves once the opener is CONNECTED.
LEMMA RequestLife ==
    ASSUME NEW sk, SockInv(sk), Alive(sk), sk.state = "REQUEST", NEW p \in Packet
    PROVE  LET c == request_state_process(sk, p)
           IN Life(c) /\ Moved(c, sk)
<1> DEFINE a == serval_sal_ack_process(sk, p)
           n == Add(p.verno, 1)
           c == [a EXCEPT !.daddr = p.saddr, !.saddr = p.daddr, !.peer = p.src,
                          !.rcvnxt = n]
           e == serval_sock_set_state(c, "CONNECTED")
           t == serval_sal_transmit_skb(e, {"ACK"}, e.nxt, TRUE)
<1>1. SockInv(a) /\ Alive(a) /\ Kept(a, sk)
  BY AckProcessInv, AckProcessLife, Zenon
<1>2. request_state_process(sk, p) \in {sk, t}
  BY Zenon DEF request_state_process
<1>3. /\ a \in Sock /\ n \in Seq32 /\ p.src \in Flows \cup {NoFlow}
      /\ p.saddr \in Addrs \cup {NoAddr} /\ p.daddr \in Addrs \cup {NoAddr}
  BY <1>1, PacketType, Zenon DEF SockInv
<1>4. a.state = "REQUEST" /\ a.id = sk.id /\ sk.id \in Clients
  BY <1>1, Zenon DEF Kept, Alive, Life, Sane
<1> HIDE DEF a, n
<1>5. /\ c \in Sock /\ c.una = a.una /\ c.out = a.out
      /\ c.id = a.id /\ c.state = a.state /\ c.q = a.q
      /\ c.hashed = a.hashed /\ c.dead = a.dead /\ c.rtx = a.rtx
      /\ c.rtxFired = a.rtxFired /\ c.tw = a.tw /\ c.twFired = a.twFired
      /\ c.destroyed = a.destroyed
      /\ c.releasing = a.releasing /\ c.late = a.late
  BY <1>3, ZenonT(40) DEF Sock
<1> HIDE DEF c
<1>6. SockInv(c)
  BY <1>1, <1>5, SameQueue, Zenon
<1>7. \A r \in c.out : ~ConnAck(r)
  BY <1>1, <1>4, <1>5, Zenon DEF Alive, Life, Sane
<1>8. Alive(c)
  BY <1>1, <1>5, <1>7, Zenon DEF Alive, Life, Sane, Unraced, Gone
<1>9. "CONNECTED" \notin {"INIT", "REQUEST"} /\ c.state # "CLOSED"
      /\ "CONNECTED" \in States /\ "CONNECTED" # "REQUEST"
  BY <1>4, <1>5, Zenon DEF States
<1>10. SockInv(e) /\ Alive(e) /\ Moved(e, c) /\ e.state = "CONNECTED"
  BY <1>6, <1>8, <1>9, SetStateInv, SetStateLife, Zenon
<1> HIDE DEF e
<1>11. e.id \in Clients /\ e.state # "REQUEST" /\ e.id = sk.id
  BY <1>4, <1>5, <1>9, <1>10, Zenon DEF Moved
<1>12. Alive(t) /\ SameCore(t, e)
  BY <1>10, <1>11, TransmitLife, Zenon
<1> HIDE DEF t
<1> QED BY <1>2, <1>11, <1>12, Zenon DEF Alive, Moved, SameCore

\* RESPOND: the ACK of the SYN-ACK connects the child.
LEMMA RespondLife ==
    ASSUME NEW sk, SockInv(sk), Alive(sk), sk.state = "RESPOND", NEW p \in Packet
    PROVE  LET c == respond_state_process(sk, p)
           IN Life(c) /\ Moved(c, sk)
<1> DEFINE a == serval_sal_ack_process(sk, p)
           e == [a EXCEPT !.daddr = p.saddr]
           c == serval_sock_set_state(e, "CONNECTED")
<1>1. SockInv(a) /\ Alive(a) /\ Kept(a, sk)
  BY AckProcessInv, AckProcessLife, Zenon
<1>2. respond_state_process(sk, p) \in {sk, c}
  BY Zenon DEF respond_state_process
<1>3. a \in Sock /\ p.saddr \in Addrs \cup {NoAddr}
  BY <1>1, PacketType, Zenon DEF SockInv
<1> HIDE DEF a
<1>4. e \in Sock /\ e.una = a.una /\ e.out = a.out
  BY <1>3, ZenonT(40) DEF Sock
<1>5. SameCore(e, a)
  BY <1>3, Zenon DEF Sock, SameCore
<1> HIDE DEF e
<1>6. SockInv(e) /\ Alive(e) /\ Kept(e, a)
  BY <1>1, <1>4, <1>5, SameQueue, CoreLife, Zenon DEF SameCore
<1>7. "CONNECTED" \notin {"INIT", "REQUEST"} /\ e.state # "CLOSED"
  BY <1>1, <1>6, Zenon DEF Kept
<1>8. Alive(c) /\ Moved(c, e)
  BY <1>6, <1>7, SetStateLife, Zenon
<1> HIDE DEF c
<1> QED BY <1>1, <1>2, <1>6, <1>8, Zenon DEF Alive, Moved, Kept

\* serval_sal_state_process, in every state and for every packet.
LEMMA StateProcessLife ==
    ASSUME NEW sk, SockInv(sk), Alive(sk), NEW p \in Packet
    PROVE  LET c == serval_sal_state_process(sk, p)
           IN Life(c) /\ Moved(c, sk)
<1> DEFINE c == serval_sal_state_process(sk, p)
           m == CASE {"RSYN", "ACK"} \subseteq p.flags ->
                       serval_sal_rcv_rsynack(sk, p)
                  [] "RSYN" \in p.flags /\ "ACK" \notin p.flags ->
                       serval_sal_rcv_rsyn(sk, p)
                  [] OTHER -> sk
<1>1. LET a == serval_sal_send_ack(sk) IN Life(a) /\ Moved(a, sk)
  BY SendAckLife, Zenon DEF Alive, Moved, SameCore
<1>2. LET a == serval_sal_rcv_reset(sk) IN Life(a) /\ Moved(a, sk)
  BY RcvResetLife, Zenon
<1>3. m \in {serval_sal_rcv_rsynack(sk, p), serval_sal_rcv_rsyn(sk, p), sk}
  OBVIOUS
<1>4. SockInv(m) /\ Alive(m) /\ Kept(m, sk)
  <2>1. Kept(sk, sk)
    BY Zenon DEF Kept
  <2> QED BY <1>3, <2>1, RcvRsynackInv, RcvRsynInv, RcvRsynackLife, RcvRsynLife, Zenon
<1>5. \/ c \in {serval_sal_send_ack(sk), serval_sal_rcv_reset(sk), m,
                serval_sal_send_ack(m), lastack_state_process(m, p),
                closewait_state_process(m, p)}
      \/ m.state = "CONNECTED" /\ c = connected_state_process(m, p)
      \/ m.state = "REQUEST" /\ c = request_state_process(m, p)
      \/ m.state = "RESPOND" /\ c = respond_state_process(m, p)
      \/ m.state = "FINWAIT1" /\ c = finwait1_state_process(m, p)
      \/ m.state = "FINWAIT2" /\ c = finwait2_state_process(m, p)
      \/ m.state = "CLOSING" /\ c = closing_state_process(m, p)
  BY ZenonT(40) DEF serval_sal_state_process
<1> HIDE DEF m, c
<1>6. LET a == serval_sal_send_ack(m) IN Life(a) /\ Moved(a, m)
  BY <1>4, SendAckLife, Zenon DEF Alive, Moved, SameCore
<1>7. Life(m) /\ Moved(m, m)
  BY <1>4, Zenon DEF Alive, Moved
<1>8. c \notin {serval_sal_send_ack(sk), serval_sal_rcv_reset(sk)}
        => Life(c) /\ Moved(c, m)
  BY <1>4, <1>5, <1>6, <1>7, ConnectedLife, RequestLife, RespondLife, Finwait1Life,
     Finwait2Life, ClosingLife, LastackLife, ClosewaitLife, Zenon
<1>9. Life(c) /\ Moved(c, sk)
  BY <1>1, <1>2, <1>4, <1>8, Zenon DEF Moved, Kept
<1> QED BY <1>9, Zenon DEF c

-----------------------------------------------------------------------------
\* Timers, orphans and new sockets.

\* serval_sal_rexmit_timeout on a socket whose timer has just gone off.
LEMMA RexmitLife ==
    ASSUME NEW sk, SockInv(sk), Sane(sk),
           ~sk.late => sk.destroyed = 0 /\ ~sk.releasing /\ sk.q # NoCtrl
    PROVE  LET c == serval_sal_rexmit_timeout(sk)
           IN Life(c) /\ Moved(c, sk)
<1> DEFINE f == [sk EXCEPT !.err = "ETIMEDOUT"]
           u == serval_sal_transmit_skb(sk, sk.q.flags, sk.q.verno, FALSE)
           t == IF sk.q = NoCtrl THEN sk ELSE u
           n == t.retransmits + 1
           e == [t EXCEPT !.retransmits = n, !.rtx = TRUE]
<1>1. serval_sal_rexmit_timeout(sk)
        = IF sk.retransmits = MaxRetransmits THEN serval_sal_done(f) ELSE e
  BY Zenon DEF serval_sal_rexmit_timeout
<1>2. sk \in Sock
  BY Zenon DEF SockInv
<1>3. SockInv(f)
  BY ErrInv, Zenon DEF Errors
<1>4. SameCore(f, sk)
  BY <1>2, Zenon DEF Sock, SameCore
<1>5. f.out = sk.out
  BY <1>2, Zenon DEF Sock
<1> HIDE DEF f
<1>6. Sane(f) /\ (~f.late => f.destroyed = 0 /\ ~f.releasing)
  BY <1>4, <1>5, Zenon DEF Sane, SameCore, Unraced, Gone
<1>7. LET c == serval_sal_done(f) IN Life(c) /\ Moved(c, sk)
  BY <1>3, <1>4, <1>6, DoneLife, Zenon DEF Moved, SameCore
<1>8. ASSUME sk.q # NoCtrl PROVE SockInv(u) /\ Sane(u) /\ SameCore(u, sk)
  <2>1. sk.q.flags \in SUBSET Flags /\ sk.q.verno \in Seq32
    BY <1>2, <1>8, Zenon DEF Sock, CtrlSkb
  <2>2. "ACK" \in sk.q.flags /\ (FALSE \/ "SYN" \in sk.q.flags)
          => sk.id \in Clients /\ sk.state # "REQUEST"
    <3>1. "ACK" \notin {"SYN"}
      OBVIOUS
    <3> QED BY <1>8, <3>1, Zenon DEF Sane
  <2> QED BY <2>1, <2>2, TransmitInv, TransmitSane, Zenon
<1>9. SockInv(t) /\ Sane(t) /\ SameCore(t, sk)
  <2>1. SameCore(sk, sk)
    BY Zenon DEF SameCore
  <2> QED BY <1>8, <2>1, Zenon
<1> HIDE DEF t, n
<1>10. t \in Sock
  BY <1>9, Zenon DEF SockInv
<1>11. /\ e.id = t.id /\ e.peer = t.peer /\ e.state = t.state /\ e.q = t.q
       /\ e.hashed = t.hashed /\ e.dead = t.dead /\ e.rtx = TRUE
       /\ e.rtxFired = t.rtxFired /\ e.tw = t.tw /\ e.twFired = t.twFired
       /\ e.destroyed = t.destroyed
       /\ e.releasing = t.releasing /\ e.late = t.late /\ e.out = t.out
  BY <1>10, Zenon DEF Sock
<1> HIDE DEF e
<1>12. ~e.late => Unraced(e)
  BY <1>9, <1>11, Zenon DEF Sane, Unraced, SameCore
<1>13. Life(e) /\ Moved(e, sk)
  BY <1>9, <1>11, <1>12, Zenon DEF Life, Sane, SameCore, Moved
<1> QED BY <1>1, <1>7, <1>13, Zenon

\* The fields of a socket that a timer or an orphaning leaves alone.
SameRest(c, sk) ==
    /\ c.id = sk.id /\ c.peer = sk.peer /\ c.state = sk.state /\ c.q = sk.q
    /\ c.una = sk.una /\ c.destroyed = sk.destroyed
    /\ c.releasing = sk.releasing /\ c.out = sk.out

\* A socket one of whose timers is no longer pending.
LEMMA LessTimed ==
    ASSUME NEW sk, Life(sk), NEW c, SameRest(c, sk),
           c.hashed = sk.hashed, c.dead = sk.dead, c.rtx => sk.rtx, c.tw => sk.tw,
           ~c.late => ~sk.late
    PROVE  Sane(c)
<1>1. ~c.late => Unraced(c)
  BY Zenon DEF Life, Sane, Unraced, Gone, SameRest
<1> QED BY <1>1, Zenon DEF Life, Sane, SameRest

\* The retransmission callback gets the socket lock and runs.
LEMMA RexmitCallback ==
    ASSUME NEW sk, SockInv(sk), Life(sk), sk.rtx \/ sk.rtxFired
    PROVE  LET c == serval_sal_rexmit_timeout(RexmitRuns(sk))
           IN SockInv(c) /\ Life(c) /\ Moved(c, sk)
<1> DEFINE l == sk.late \/ sk.q = NoCtrl \/ Ended(sk)
           m == sk.late \/ sk.releasing
           r == [sk EXCEPT !.rtxFired = FALSE, !.late = l]
           s == [sk EXCEPT !.rtx = FALSE, !.late = m]
           e == RexmitRuns(sk)
           c == serval_sal_rexmit_timeout(e)
<1>1. sk \in Sock
  BY Zenon DEF SockInv
<1>2. e = IF sk.rtxFired THEN r ELSE s
  BY Zenon DEF RexmitRuns
<1>3. ~l => ~sk.late /\ sk.destroyed = 0 /\ ~sk.releasing /\ sk.q # NoCtrl
  BY Zenon DEF Ended, Life, Sane, Unraced, Gone
<1>4. ~sk.rtxFired /\ ~m => ~sk.late /\ sk.destroyed = 0 /\ ~sk.releasing /\ sk.q # NoCtrl
  BY Zenon DEF Life, Sane, Unraced, Gone
<1> HIDE DEF l, m
<1>5. /\ SameRest(r, sk) /\ r.hashed = sk.hashed /\ r.dead = sk.dead
      /\ r.rtx = sk.rtx /\ r.tw = sk.tw /\ r.late = l
  BY <1>1, Zenon DEF Sock, SameRest
<1>6. /\ SameRest(s, sk) /\ s.hashed = sk.hashed /\ s.dead = sk.dead
      /\ s.rtx = FALSE /\ s.tw = sk.tw /\ s.late = m
  BY <1>1, Zenon DEF Sock, SameRest
<1> HIDE DEF r, s
<1>7. Sane(r) /\ (~r.late => r.destroyed = 0 /\ ~r.releasing /\ r.q # NoCtrl)
  BY <1>3, <1>5, LessTimed, Zenon DEF SameRest
<1>8. ~sk.rtxFired
        => Sane(s) /\ (~s.late => s.destroyed = 0 /\ ~s.releasing /\ s.q # NoCtrl)
  BY <1>4, <1>6, LessTimed, Zenon DEF SameRest
<1>9. /\ Sane(e) /\ SameRest(e, sk)
      /\ ~e.late => e.destroyed = 0 /\ ~e.releasing /\ e.q # NoCtrl
  BY <1>2, <1>5, <1>6, <1>7, <1>8, Zenon
<1>10. SockInv(e)
  BY RexmitRunsInv, Zenon
<1> HIDE DEF e
<1>11. SockInv(c) /\ Life(c) /\ Moved(c, e)
  BY <1>9, <1>10, RexmitInv, RexmitLife, Zenon
<1> HIDE DEF c
<1>12. Moved(c, sk)
  BY <1>9, <1>11, Zenon DEF Moved, SameRest
<1> QED BY <1>11, <1>12, Zenon DEF c, e

\* The TIMEWAIT callback gets the socket lock and ends the socket.
LEMMA TimewaitCallback ==
    ASSUME NEW sk, SockInv(sk), Life(sk), sk.tw \/ sk.twFired
    PROVE  LET c == serval_sal_done(TimewaitRuns(sk))
           IN SockInv(c) /\ Life(c) /\ Moved(c, sk)
<1> DEFINE l == sk.late \/ Ended(sk)
           m == sk.late \/ sk.releasing
           r == [sk EXCEPT !.twFired = FALSE, !.late = l]
           s == [sk EXCEPT !.tw = FALSE, !.late = m]
           e == TimewaitRuns(sk)
           c == serval_sal_done(e)
<1>1. sk \in Sock
  BY Zenon DEF SockInv
<1>2. e = IF sk.twFired THEN r ELSE s
  BY Zenon DEF TimewaitRuns
<1>3. ~l => ~sk.late /\ sk.destroyed = 0 /\ ~sk.releasing
  BY Zenon DEF Ended, Life, Sane, Unraced, Gone
<1>4. ~sk.twFired /\ ~m => ~sk.late /\ sk.destroyed = 0 /\ ~sk.releasing
  BY Zenon DEF Life, Sane, Unraced, Gone
<1> HIDE DEF l, m
<1>5. /\ SameRest(r, sk) /\ r.hashed = sk.hashed /\ r.dead = sk.dead
      /\ r.rtx = sk.rtx /\ r.tw = sk.tw /\ r.late = l
  BY <1>1, Zenon DEF Sock, SameRest
<1>6. /\ SameRest(s, sk) /\ s.hashed = sk.hashed /\ s.dead = sk.dead
      /\ s.rtx = sk.rtx /\ s.tw = FALSE /\ s.late = m
  BY <1>1, Zenon DEF Sock, SameRest
<1> HIDE DEF r, s
<1>7. Sane(r) /\ (~r.late => r.destroyed = 0 /\ ~r.releasing)
  BY <1>3, <1>5, LessTimed, Zenon DEF SameRest
<1>8. ~sk.twFired
        => Sane(s) /\ (~s.late => s.destroyed = 0 /\ ~s.releasing)
  BY <1>4, <1>6, LessTimed, Zenon DEF SameRest
<1>9. /\ Sane(e) /\ SameRest(e, sk)
      /\ ~e.late => e.destroyed = 0 /\ ~e.releasing
  BY <1>2, <1>5, <1>6, <1>7, <1>8, Zenon
<1>10. SockInv(e)
  BY TimewaitRunsInv, Zenon
<1> HIDE DEF e
<1>11. SockInv(c) /\ Life(c) /\ Moved(c, e)
  BY <1>9, <1>10, DoneInv, DoneLife, Zenon
<1> HIDE DEF c
<1>12. Moved(c, sk)
  BY <1>9, <1>11, Zenon DEF Moved, SameRest
<1> QED BY <1>11, <1>12, Zenon DEF c, e

\* A callback starts and waits for the lock.
LEMMA FireLife ==
    ASSUME NEW sk, SockInv(sk), Life(sk)
    PROVE  /\ LET c == [sk EXCEPT !.rtx = FALSE, !.rtxFired = TRUE]
              IN Life(c) /\ SameRest(c, sk)
           /\ LET c == [sk EXCEPT !.tw = FALSE, !.twFired = TRUE]
              IN Life(c) /\ SameRest(c, sk)
<1> DEFINE r == [sk EXCEPT !.rtx = FALSE, !.rtxFired = TRUE]
           s == [sk EXCEPT !.tw = FALSE, !.twFired = TRUE]
<1>1. sk \in Sock
  BY Zenon DEF SockInv
<1>2. /\ SameRest(r, sk) /\ r.hashed = sk.hashed /\ r.dead = sk.dead
      /\ r.rtx = FALSE /\ r.rtxFired = TRUE /\ r.tw = sk.tw /\ r.late = sk.late
  BY <1>1, Zenon DEF Sock, SameRest
<1>3. /\ SameRest(s, sk) /\ s.hashed = sk.hashed /\ s.dead = sk.dead
      /\ s.rtx = sk.rtx /\ s.rtxFired = sk.rtxFired /\ s.tw = FALSE
      /\ s.late = sk.late
  BY <1>1, Zenon DEF Sock, SameRest
<1> HIDE DEF r, s
<1>4. Sane(r) /\ Sane(s)
  BY <1>2, <1>3, LessTimed, Zenon
<1>5. Life(r) /\ Life(s)
  BY <1>2, <1>3, <1>4, Zenon DEF Life, SameRest
<1> QED BY <1>2, <1>3, <1>5, Zenon DEF r, s

\* serval_listen_stop orphans a child, whatever its state.
LEMMA OrphanLife ==
    ASSUME NEW sk, SockInv(sk), Life(sk) \/ Fresh(sk)
    PROVE  LET c == [sk EXCEPT !.dead = TRUE, !.hashed = FALSE]
           IN (Life(c) \/ Fresh(c)) /\ SameRest(c, sk)
<1> DEFINE c == [sk EXCEPT !.dead = TRUE, !.hashed = FALSE]
<1>1. sk \in Sock
  BY Zenon DEF SockInv
<1>2. /\ SameRest(c, sk) /\ c.hashed = FALSE /\ c.dead = TRUE /\ c.rtx = sk.rtx
      /\ c.rtxFired = sk.rtxFired /\ c.tw = sk.tw /\ c.twFired = sk.twFired
      /\ c.finPending = sk.finPending /\ c.late = sk.late
  BY <1>1, Zenon DEF Sock, SameRest
<1> HIDE DEF c
<1>3. Life(sk) => Life(c)
  BY <1>2, Zenon DEF Life, Sane, Unraced, Gone, SameRest
<1>4. Fresh(sk) => Fresh(c)
  BY <1>2, Zenon DEF Fresh, SameRest
<1> QED BY <1>2, <1>3, <1>4, Zenon DEF c

\* serval_connect: the SYN is the first packet of a fresh socket.
LEMMA ConnectLife ==
    ASSUME NEW sk, SockInv(sk), Fresh(sk), sk.out = {}, sk.id \in Clients
    PROVE  LET r == [sk EXCEPT !.state = "REQUEST", !.hashed = TRUE,
                               !.saddr = ClientAddr]
               c == serval_sal_send_syn(r)
           IN SockInv(c) /\ Life(c) /\ c.id = sk.id
<1> DEFINE r == [sk EXCEPT !.state = "REQUEST", !.hashed = TRUE,
                           !.saddr = ClientAddr]
           e == [r EXCEPT !.nxt = Add(ISS[r.id], 1)]
<1>1. sk \in Sock /\ "REQUEST" \in States /\ ClientAddr \in Addrs \cup {NoAddr}
  BY SALAssumption, Zenon DEF SockInv, States, Addrs
<1>2. SockInv(r)
  BY <1>1, RequestSockInv, Zenon
<1>3. /\ r.id = sk.id /\ r.state = "REQUEST" /\ r.q = sk.q /\ r.hashed = TRUE
      /\ r.rtx = sk.rtx /\ r.rtxFired = sk.rtxFired /\ r.tw = sk.tw
      /\ r.twFired = sk.twFired /\ r.destroyed = sk.destroyed
      /\ r.releasing = sk.releasing /\ r.late = sk.late /\ r.out = sk.out
  BY <1>1, Zenon DEF Sock
<1>4. serval_sal_send_syn(r) = serval_sal_queue_and_push(e, {"SYN"}, ISS[r.id])
  BY Zenon DEF serval_sal_send_syn
<1> HIDE DEF r
<1>5. Alive(r)
  <2>1. "REQUEST" # "INIT" /\ "REQUEST" # "CLOSED"
    OBVIOUS
  <2> QED BY <1>3, <2>1, Zenon DEF Fresh, Alive, Life, Sane, Unraced
<1>6. r.id \in Flows /\ ISS[r.id] \in Seq32
  BY <1>2, Constants, Zenon DEF SockInv, Sock
<1>7. Add(ISS[r.id], 1) \in Seq32
  BY <1>6, AddType, Constants, Zenon
<1>8. SockInv(e) /\ Alive(e) /\ Kept(e, r)
  BY <1>2, <1>5, <1>7, NxtInv, NxtLife, Zenon
<1> HIDE DEF e
<1>9. {"SYN"} \in SUBSET Flags /\ e.id \in Clients
  BY <1>3, <1>8, Zenon DEF Flags, Kept
<1>10. LET c == serval_sal_queue_and_push(e, {"SYN"}, ISS[r.id])
       IN SockInv(c) /\ Alive(c) /\ Kept(c, e)
  BY <1>6, <1>8, <1>9, PushInv, PushLife, Zenon
<1>11. LET c == serval_sal_send_syn(r) IN SockInv(c) /\ Life(c) /\ c.id = sk.id
  BY <1>3, <1>4, <1>8, <1>10, Zenon DEF Alive, Kept
<1> QED BY <1>11, Zenon DEF r

\* The child of a request sock starts in RESPOND with nothing queued.
LEMMA RespondSockLife ==
    ASSUME NEW r \in Rsk
    PROVE  LET c == serval_sal_create_respond_sock(r)
           IN /\ SockInv(c) /\ Alive(c) /\ c.id = r.local /\ c.peer = r.peer
              /\ c.state = "RESPOND"
<1> DEFINE i == InitSock(r.local)
           m == Add(ISS[r.local], 1)
           n == Add(r.rcvseq, 1)
           c == [i EXCEPT !.peer = r.peer, !.state = "RESPOND",
                          !.una = ISS[r.local], !.nxt = m, !.rcvnxt = n,
                          !.saddr = r.laddr, !.daddr = r.raddr, !.hashed = TRUE]
<1>1. r.local \in Flows
  BY Zenon DEF Rsk
<1>2. serval_sal_create_respond_sock(r) = c
  BY Zenon DEF serval_sal_create_respond_sock
<1>3. SockInv(c)
  BY <1>2, RespondSockInv, Zenon
<1>4. i \in Sock
  BY <1>1, InitSockInv, Zenon DEF SockInv
<1>5. /\ i.id = r.local /\ i.q = NoCtrl /\ i.rtx = FALSE /\ i.rtxFired = FALSE
      /\ i.twFired = FALSE /\ i.destroyed = 0 /\ i.releasing = FALSE
      /\ i.late = FALSE /\ i.out = {}
  BY Zenon DEF InitSock
<1> HIDE DEF i, m, n
<1>6. /\ c.id = i.id /\ c.peer = r.peer /\ c.state = "RESPOND" /\ c.q = i.q
      /\ c.rtx = i.rtx /\ c.rtxFired = i.rtxFired /\ c.twFired = i.twFired
      /\ c.destroyed = i.destroyed
      /\ c.releasing = i.releasing /\ c.late = i.late /\ c.out = i.out
  BY <1>4, Zenon DEF Sock
<1> HIDE DEF c
<1>7. "RESPOND" # "INIT" /\ "RESPOND" # "CLOSED" /\ "RESPOND" # "REQUEST"
  OBVIOUS
<1>8. Alive(c)
  BY <1>5, <1>6, <1>7, Zenon DEF Alive, Life, Sane, Unraced
<1> QED BY <1>2, <1>3, <1>5, <1>6, <1>8, Zenon

-----------------------------------------------------------------------------
\* The inductive invariant.

\* The opener with flow g has taken the SYN-ACK of flow f.
Chosen(g, f) ==
    /\ g \in Clients /\ sock[g].peer = f
    /\ sock[g].state \notin {"INIT", "REQUEST"}

LifeInv ==
    /\ \A f \in Flows :
          /\ sock[f].id = f /\ sock[f].out = {}
          /\ Fresh(sock[f]) \/ Life(sock[f])
    /\ \A r \in lsk.syn : r.local \in Servers
    /\ \A p \in net : ConnAck(p) => Chosen(p.src, p.dst)
    /\ \A s \in Servers, g \in Flows \cup {NoFlow} :
          sock[s].state # "INIT" /\ sock[s].peer = g => Chosen(g, s)

\* The openers' flows and the listener's flows are different.
LEMMA FlowsApart ==
    /\ Clients \subseteq Flows /\ Servers \subseteq Flows
    /\ \A f \in Clients : f \notin Servers
BY SALAssumption DEF Clients, Servers, Flows

\* What a step that commits one socket must show.
LEMMA CommitLife ==
    ASSUME IndInv, LifeInv, NEW f \in Flows, NEW sk, SockInv(sk), Life(sk), sk.id = f,
           f \in Clients /\ sock[f].state \notin {"INIT", "REQUEST"}
               => sk.peer = sock[f].peer /\ sk.state # "REQUEST",
           f \in Servers => Chosen(sk.peer, f),
           Commit(f, sk), lsk'.syn \subseteq lsk.syn
    PROVE  LifeInv'
<1> DEFINE e == [sk EXCEPT !.out = {}]
<1>1. sk \in Sock /\ sock \in [Flows -> Sock]
  BY Zenon DEF SockInv, IndInv, TypeOK
<1>2. sock' = [sock EXCEPT ![f] = e] /\ net' = net \cup sk.out
  BY Zenon DEF Commit
<1>3. SameCore(e, sk)
  BY <1>1, Zenon DEF Sock, SameCore
<1>4. e.out = {}
  BY <1>1, Zenon DEF Sock
<1> HIDE DEF e
<1>5. Life(e) /\ e.id = f /\ e.peer = sk.peer /\ e.state = sk.state
  BY <1>3, <1>4, Zenon DEF Life, Sane, SameCore, Unraced, Gone
<1>6. sock'[f] = e /\ \A g \in Flows : g # f => sock'[g] = sock[g]
  BY <1>1, <1>2, Zenon
<1>7. \A g \in Flows : /\ sock'[g].id = g /\ sock'[g].out = {}
                       /\ Fresh(sock'[g]) \/ Life(sock'[g])
  BY <1>4, <1>5, <1>6, Zenon DEF LifeInv
<1>8. ASSUME NEW g, NEW h, Chosen(g, h) PROVE Chosen(g, h)'
  <2>1. g \in Clients /\ g \in Flows /\ sock[g].peer = h
        /\ sock[g].state # "INIT" /\ sock[g].state # "REQUEST"
    BY <1>8, FlowsApart, Zenon DEF Chosen
  <2>2. CASE g = f
    <3>1. sock'[g].peer = h /\ sock'[g].state # "REQUEST" /\ sock'[g].state # "INIT"
      BY <1>5, <1>6, <2>1, <2>2, Zenon DEF Life, Sane
    <3> QED BY <2>1, <3>1, Zenon DEF Chosen
  <2>3. CASE g # f
    BY <1>6, <2>1, <2>3, Zenon DEF Chosen
  <2> QED BY <2>2, <2>3, Zenon
<1>9. ASSUME NEW p \in net', ConnAck(p) PROVE Chosen(p.src, p.dst)'
  <2>1. CASE p \in net
    BY <1>8, <1>9, <2>1, Zenon DEF LifeInv
  <2>2. CASE p \in sk.out
    <3>1. /\ p.src = f /\ p.dst = sk.peer /\ f \in Clients
          /\ sk.state # "REQUEST" /\ sk.state # "INIT"
      BY <1>9, <2>2, Zenon DEF Life, Sane
    <3> QED BY <1>5, <1>6, <3>1, Zenon DEF Chosen
  <2> QED BY <1>2, <2>1, <2>2, Zenon
<1>10. ASSUME NEW s \in Servers, NEW g \in Flows \cup {NoFlow},
              sock'[s].state # "INIT", sock'[s].peer = g
       PROVE  Chosen(g, s)'
  <2>1. s \in Flows
    BY FlowsApart, Zenon
  <2>2. CASE s = f
    <3>1. sk.peer = g
      BY <1>5, <1>6, <1>10, <2>2, Zenon
    <3> QED BY <1>8, <2>2, <3>1, Zenon
  <2>3. CASE s # f
    <3>1. sock'[s] = sock[s]
      BY <1>6, <2>1, <2>3, Zenon
    <3>2. Chosen(g, s)
      BY <1>10, <3>1, Zenon DEF LifeInv
    <3> QED BY <1>8, <3>2, Zenon
  <2> QED BY <2>2, <2>3, Zenon
<1>11. \A r \in lsk'.syn : r.local \in Servers
  BY Zenon DEF LifeInv
<1> QED BY <1>7, <1>9, <1>10, <1>11, Zenon DEF LifeInv

\* A socket outside INIT, and one that can still be destroyed.
LEMMA LifeHolds ==
    ASSUME IndInv, LifeInv, NEW f \in Flows
    PROVE  /\ SockInv(sock[f]) /\ sock[f] \in Sock
           /\ sock[f].id = f /\ sock[f].out = {}
           /\ Fresh(sock[f]) \/ Life(sock[f])
           /\ (\/ sock[f].rtx \/ sock[f].rtxFired \/ sock[f].releasing
               \/ sock[f].tw \/ sock[f].twFired)
              => Life(sock[f])
           /\ (\/ sock[f].hashed
               \/ sock[f].state # "INIT" /\ (sock[f].state # "CLOSED" \/ ~sock[f].dead)
               \/ sock[f].finPending /\ sock[f].state # "CLOSED")
              => Alive(sock[f])
<1>1. SockInv(sock[f]) /\ sock[f] \in Sock
  BY SockInvHolds, Zenon DEF IndInv
<1>2. sock[f].id = f /\ sock[f].out = {} /\ (Fresh(sock[f]) \/ Life(sock[f]))
  BY Zenon DEF LifeInv
<1> QED BY <1>1, <1>2, Zenon DEF Fresh, Alive, Life, Sane, Unraced, Gone

\* A step of one socket that has left INIT.
LEMMA SocketStep ==
    ASSUME IndInv, LifeInv, NEW f \in Flows, Life(sock[f]), NEW sk, SockInv(sk),
           Life(sk), Moved(sk, sock[f]), Commit(f, sk), lsk' = lsk
    PROVE  LifeInv'
<1>1. sock[f].id = f /\ sock[f] \in Sock
  BY LifeHolds, Zenon
<1>2. sk.id = f
  BY <1>1, Zenon DEF Moved
<1>3. sock[f].state \notin {"INIT", "REQUEST"}
        => sk.peer = sock[f].peer /\ sk.state # "REQUEST"
  BY Zenon DEF Moved
<1>4. ASSUME f \in Servers PROVE Chosen(sk.peer, f)
  <2>1. sock[f].state # "INIT" /\ sock[f].state # "REQUEST"
    BY <1>1, <1>4, FlowsApart, Zenon DEF Alive, Life, Sane
  <2>2. sk.peer = sock[f].peer /\ sk.peer \in Flows \cup {NoFlow}
    BY <1>1, <1>3, <2>1, Zenon DEF Sock
  <2> QED BY <1>4, <2>1, <2>2, Zenon DEF LifeInv
<1>5. lsk'.syn \subseteq lsk.syn
  OBVIOUS
<1> QED BY <1>2, <1>3, <1>4, <1>5, CommitLife, Zenon

\* A step that leaves the sockets alone and sends no connection ACK.
LEMMA QuietStep ==
    ASSUME LifeInv, UNCHANGED sock, \A r \in lsk'.syn : r.local \in Servers,
           \A p \in net' : p \in net \/ ~p.srvext
    PROVE  LifeInv'
<1>1. ASSUME NEW g, NEW h, Chosen(g, h) PROVE Chosen(g, h)'
  BY <1>1, Zenon DEF Chosen
<1>2. ASSUME NEW p \in net', ConnAck(p) PROVE Chosen(p.src, p.dst)'
  BY <1>1, <1>2, Zenon DEF LifeInv, ConnAck
<1>3. ASSUME NEW s \in Servers, NEW g \in Flows \cup {NoFlow},
             sock'[s].state # "INIT", sock'[s].peer = g
      PROVE  Chosen(g, s)'
  BY <1>1, <1>3, Zenon DEF LifeInv
<1>4. \A f \in Flows : /\ sock'[f].id = f /\ sock'[f].out = {}
                       /\ Fresh(sock'[f]) \/ Life(sock'[f])
  BY Zenon DEF LifeInv
<1> QED BY <1>2, <1>3, <1>4, Zenon DEF LifeInv

\* A step that changes neither the peer nor the state of any socket.
LEMMA SameLivesStep ==
    ASSUME LifeInv,
           \A f \in Flows : /\ sock'[f].id = f /\ sock'[f].out = {}
                            /\ Fresh(sock'[f]) \/ Life(sock'[f])
                            /\ sock'[f].peer = sock[f].peer
                            /\ sock'[f].state = sock[f].state,
           lsk'.syn \subseteq lsk.syn, net' = net
    PROVE  LifeInv'
<1>1. ASSUME NEW g, NEW h, Chosen(g, h) PROVE Chosen(g, h)'
  BY <1>1, FlowsApart, Zenon DEF Chosen
<1>2. ASSUME NEW p \in net', ConnAck(p) PROVE Chosen(p.src, p.dst)'
  BY <1>1, <1>2, Zenon DEF LifeInv
<1>3. ASSUME NEW s \in Servers, NEW g \in Flows \cup {NoFlow},
             sock'[s].state # "INIT", sock'[s].peer = g
      PROVE  Chosen(g, s)'
  BY <1>1, <1>3, FlowsApart, Zenon DEF LifeInv
<1>4. \A r \in lsk'.syn : r.local \in Servers
  BY Zenon DEF LifeInv
<1> QED BY <1>2, <1>3, <1>4, Zenon DEF LifeInv

\* Connecting.
LEMMA ConnectLifeStep ==
    ASSUME IndInv, LifeInv, NEW f \in Clients, Connect(f)
    PROVE  LifeInv'
<1> DEFINE r == [sock[f] EXCEPT !.state = "REQUEST", !.hashed = TRUE,
                                !.saddr = ClientAddr]
           c == serval_sal_send_syn(r)
<1>1. f \in Flows /\ f \notin Servers
  BY FlowsApart, Zenon
<1>2. sock[f].state = "INIT" /\ Commit(f, c) /\ lsk' = lsk
  BY Zenon DEF Connect
<1>3. SockInv(sock[f]) /\ Fresh(sock[f]) /\ sock[f].out = {} /\ sock[f].id = f
  BY <1>1, <1>2, LifeHolds, Zenon DEF Life, Sane
<1>4. SockInv(c) /\ Life(c) /\ c.id = f
  BY <1>3, ConnectLife, Zenon
<1> HIDE DEF c
<1>5. lsk'.syn \subseteq lsk.syn
  BY <1>2, Zenon
<1> QED BY <1>1, <1>2, <1>4, <1>5, CommitLife, Zenon

\* Closing, with or without unread data.
LEMMA CloseLifeStep ==
    ASSUME IndInv, LifeInv, NEW f \in Flows, NEW unread, Close(f, unread)
    PROVE  LifeInv'
<1> DEFINE c == serval_release(sock[f], unread)
<1>1. sock[f].state # "INIT" /\ ~sock[f].dead /\ Commit(f, c) /\ lsk' = lsk
  BY Zenon DEF Close
<1>2. SockInv(sock[f]) /\ Alive(sock[f])
  BY <1>1, LifeHolds, Zenon
<1>3. SockInv(c) /\ Life(c) /\ Moved(c, sock[f])
  BY <1>1, <1>2, ReleaseInv, ReleaseLife, Zenon
<1> HIDE DEF c
<1> QED BY <1>1, <1>2, <1>3, SocketStep, Zenon DEF Alive

\* The end of closing.
LEMMA ReleaseEndLifeStep ==
    ASSUME IndInv, LifeInv, NEW f \in Flows, ReleaseEnd(f)
    PROVE  LifeInv'
<1> DEFINE c == serval_sock_destroy([sock[f] EXCEPT !.releasing = FALSE])
<1>1. sock[f].releasing /\ Commit(f, c) /\ lsk' = lsk
  BY Zenon DEF ReleaseEnd
<1>2. SockInv(sock[f]) /\ Life(sock[f])
  BY <1>1, LifeHolds, Zenon
<1>3. SockInv(c) /\ Life(c) /\ Moved(c, sock[f])
  BY <1>1, <1>2, ReleaseEndInv, ReleaseEndLife, Zenon
<1> HIDE DEF c
<1> QED BY <1>1, <1>2, <1>3, SocketStep, Zenon

\* TCP's own FIN is acknowledged, or TCP gives up on it.
LEMMA TcpLifeStep ==
    ASSUME IndInv, LifeInv, NEW f \in Flows, TcpFinAcked(f) \/ TcpWriteErr(f)
    PROVE  LifeInv'
<1>1. CASE TcpFinAcked(f)
  <2> DEFINE c == serval_sal_send_fin(sock[f])
  <2>1. /\ sock[f].state \notin {"INIT", "CLOSED", "REQUEST"}
        /\ Commit(f, c) /\ lsk' = lsk
    BY <1>1, Zenon DEF TcpFinAcked
  <2>2. SockInv(sock[f]) /\ Alive(sock[f]) /\ sock[f].state # "REQUEST"
    BY <2>1, LifeHolds, Zenon
  <2>3. SockInv(c) /\ Life(c) /\ Moved(c, sock[f])
    BY <2>2, SendFinInv, SendFinLife, KeptMoved, Zenon DEF Alive
  <2> HIDE DEF c
  <2> QED BY <2>1, <2>2, <2>3, SocketStep, Zenon DEF Alive
<1>2. CASE TcpWriteErr(f)
  <2> DEFINE e == [sock[f] EXCEPT !.err = "ETIMEDOUT"]
             c == serval_sal_done(e)
  <2>1. sock[f].finPending /\ sock[f].state # "CLOSED" /\ Commit(f, c) /\ lsk' = lsk
    BY <1>2, Zenon DEF TcpWriteErr
  <2>2. SockInv(sock[f]) /\ Alive(sock[f])
    BY <2>1, LifeHolds, Zenon
  <2>3. SockInv(e) /\ Alive(e) /\ Kept(e, sock[f])
    BY <2>2, ErrInv, ErrLife, Zenon DEF Errors
  <2> HIDE DEF e
  <2>4. SockInv(c) /\ Life(c) /\ Moved(c, e)
    BY <2>3, DoneInv, DoneAlive, Zenon
  <2> HIDE DEF c
  <2>5. Moved(c, sock[f])
    BY <2>3, <2>4, Zenon DEF Moved, Kept
  <2> QED BY <2>1, <2>2, <2>4, <2>5, SocketStep, Zenon DEF Alive
<1> QED BY <1>1, <1>2, Zenon

\* A migration.
LEMMA MigrateLifeStep ==
    ASSUME IndInv, LifeInv, NEW f \in Flows, NEW a \in AddrsOf(f), Migrate(f, a)
    PROVE  LifeInv'
<1> DEFINE m == [sock[f] EXCEPT !.migdev = a]
           c == serval_sal_migrate(m)
<1>1. sock[f].hashed /\ Commit(f, c) /\ lsk' = lsk
  BY Zenon DEF Migrate
<1>2. SockInv(sock[f]) /\ sock[f] \in Sock /\ Alive(sock[f])
  BY <1>1, LifeHolds, Zenon
<1>3. a \in Addrs \cup {NoAddr}
  BY Zenon DEF AddrsOf, Addrs
<1>4. SockInv(m)
  BY <1>2, <1>3, MigdevInv, Zenon
<1>5. SameCore(m, sock[f])
  BY <1>2, Zenon DEF Sock, SameCore
<1>6. m.out = sock[f].out
  BY <1>2, Zenon DEF Sock
<1> HIDE DEF m
<1>7. Alive(m) /\ Kept(m, sock[f])
  BY <1>2, <1>5, <1>6, CoreLife, Zenon
<1>8. SockInv(c) /\ Alive(c) /\ Kept(c, m)
  BY <1>4, <1>7, MigrateInv, MigrateLife, Zenon
<1> HIDE DEF c
<1>9. Life(c) /\ Moved(c, sock[f])
  BY <1>7, <1>8, Zenon DEF Alive, Moved, Kept
<1> QED BY <1>1, <1>2, <1>8, <1>9, SocketStep, Zenon DEF Alive

\* A timer's callback runs.
LEMMA TimeoutLifeStep ==
    ASSUME IndInv, LifeInv, NEW f \in Flows, RexmitTimeout(f) \/ TimewaitTimeout(f)
    PROVE  LifeInv'
<1>1. SockInv(sock[f])
  BY LifeHolds, Zenon
<1>2. CASE RexmitTimeout(f)
  <2> DEFINE c == serval_sal_rexmit_timeout(RexmitRuns(sock[f]))
  <2>1. (sock[f].rtx \/ sock[f].rtxFired) /\ Commit(f, c) /\ lsk' = lsk
    BY <1>2, Zenon DEF RexmitTimeout
  <2>2. Life(sock[f])
    BY <2>1, LifeHolds, Zenon
  <2>3. SockInv(c) /\ Life(c) /\ Moved(c, sock[f])
    BY <1>1, <2>1, <2>2, RexmitCallback, Zenon
  <2> HIDE DEF c
  <2> QED BY <2>1, <2>2, <2>3, SocketStep, Zenon DEF Alive
<1>3. CASE TimewaitTimeout(f)
  <2> DEFINE c == serval_sal_done(TimewaitRuns(sock[f]))
  <2>1. (sock[f].tw \/ sock[f].twFired) /\ Commit(f, c) /\ lsk' = lsk
    BY <1>3, Zenon DEF TimewaitTimeout
  <2>2. Life(sock[f])
    BY <2>1, LifeHolds, Zenon
  <2>3. SockInv(c) /\ Life(c) /\ Moved(c, sock[f])
    BY <1>1, <2>1, <2>2, TimewaitCallback, Zenon
  <2> HIDE DEF c
  <2> QED BY <2>1, <2>2, <2>3, SocketStep, Zenon DEF Alive
<1> QED BY <1>2, <1>3, Zenon

\* A timer's callback starts and waits for the socket lock.
LEMMA FireLifeStep ==
    ASSUME IndInv, LifeInv, NEW f \in Flows, RexmitFire(f) \/ TimewaitFire(f)
    PROVE  LifeInv'
<1>1. /\ sock \in [Flows -> Sock] /\ SockInv(sock[f])
      /\ UNCHANGED <<lsk, net>>
  BY LifeHolds, Zenon DEF RexmitFire, TimewaitFire, IndInv, TypeOK
<1>2. Life(sock[f])
  BY LifeHolds, Zenon DEF RexmitFire, TimewaitFire
<1> DEFINE r == [sock[f] EXCEPT !.rtx = FALSE, !.rtxFired = TRUE]
           s == [sock[f] EXCEPT !.tw = FALSE, !.twFired = TRUE]
<1>3. sock' = [sock EXCEPT ![f] = r] \/ sock' = [sock EXCEPT ![f] = s]
  BY <1>1, Zenon DEF RexmitFire, TimewaitFire
<1>4. Life(r) /\ SameRest(r, sock[f]) /\ Life(s) /\ SameRest(s, sock[f])
  BY <1>1, <1>2, FireLife, Zenon
<1> HIDE DEF r, s
<1>5. PICK e \in {r, s} : sock' = [sock EXCEPT ![f] = e]
  BY <1>3, Zenon
<1>6. Life(e) /\ SameRest(e, sock[f])
  BY <1>4, Zenon
<1>7. \A g \in Flows : sock'[g] = IF g = f THEN e ELSE sock[g]
  BY <1>1, <1>5, Zenon
<1>8. \A g \in Flows : /\ sock'[g].id = g /\ sock'[g].out = {}
                       /\ Fresh(sock'[g]) \/ Life(sock'[g])
                       /\ sock'[g].peer = sock[g].peer
                       /\ sock'[g].state = sock[g].state
  BY <1>6, <1>7, Zenon DEF LifeInv, SameRest
<1>9. lsk'.syn \subseteq lsk.syn /\ net' = net
  BY <1>1, Zenon
<1> QED BY <1>8, <1>9, SameLivesStep, Zenon

\* Closing the listener orphans its children.
LEMMA ListenStopLifeStep ==
    ASSUME IndInv, LifeInv, ListenStop
    PROVE  LifeInv'
<1> DEFINE orphaned(f) == \E i \in 1..Len(lsk.accept) : lsk.accept[i].local = f
           o(f) == [sock[f] EXCEPT !.dead = TRUE, !.hashed = FALSE]
           n == lsk.qlen - Cardinality(lsk.syn)
           b == lsk.ackBacklog - Len(lsk.accept)
           l == [lsk EXCEPT !.state = "CLOSED", !.syn = {}, !.accept = << >>,
                            !.qlen = n, !.ackBacklog = b]
<1>1. /\ lsk' = l /\ net' = net
      /\ sock' = [f \in Flows |-> IF orphaned(f) THEN o(f) ELSE sock[f]]
  BY Zenon DEF ListenStop
<1>2. l.syn = {}
  BY Zenon DEF IndInv, TypeOK, Listener
<1>3. ASSUME NEW f \in Flows
      PROVE  /\ sock'[f].id = f /\ sock'[f].out = {}
             /\ Fresh(sock'[f]) \/ Life(sock'[f])
             /\ sock'[f].peer = sock[f].peer /\ sock'[f].state = sock[f].state
  <2>1. /\ SockInv(sock[f]) /\ sock[f].id = f /\ sock[f].out = {}
        /\ Fresh(sock[f]) \/ Life(sock[f])
    BY LifeHolds, Zenon
  <2>2. (Life(o(f)) \/ Fresh(o(f))) /\ SameRest(o(f), sock[f])
    BY <2>1, OrphanLife, Zenon
  <2> HIDE DEF o, orphaned
  <2>3. sock'[f] = o(f) \/ sock'[f] = sock[f]
    BY <1>1, Zenon
  <2> QED BY <2>1, <2>2, <2>3, Zenon DEF SameRest
<1> HIDE DEF l
<1>4. lsk'.syn \subseteq lsk.syn
  BY <1>1, <1>2, ZenonT(40)
<1> QED BY <1>1, <1>3, <1>4, SameLivesStep, Zenon

\* Accepting a child and pruning request socks.
LEMMA QueueLifeStep ==
    ASSUME IndInv, LifeInv, Accept \/ Prune
    PROVE  LifeInv'
<1>1. UNCHANGED <<sock, net>>
  BY Zenon DEF Accept, Prune
<1>2. lsk'.syn \subseteq lsk.syn
  <2>1. lsk \in Listener
    BY Zenon DEF IndInv, TypeOK
  <2>2. CASE Accept
    BY <2>1, <2>2, Zenon DEF Accept, Listener
  <2>3. CASE Prune
    <3>1. PICK expired \in SUBSET lsk.syn :
             lsk' = [lsk EXCEPT !.syn = @ \ expired,
                                !.qlen = @ - Cardinality(expired)]
      BY <2>3, Zenon DEF Prune
    <3> QED BY <2>1, <3>1, Zenon DEF Listener
  <2> QED BY <2>2, <2>3, Zenon
<1> QED BY <1>1, <1>2, QuietStep, Zenon DEF LifeInv

\* A packet for a flow in the flow table.
LEMMA RcvFlowLifeStep ==
    ASSUME IndInv, LifeInv, NEW p \in net, RcvFlow(p)
    PROVE  LifeInv'
<1> DEFINE f == p.dst
           c == serval_sal_state_process(sock[f], p)
<1>1. p \in Packet /\ f \in Flows /\ sock[f].hashed /\ Commit(f, c) /\ lsk' = lsk
  BY Zenon DEF IndInv, TypeOK, RcvFlow, demux_flow
<1> HIDE DEF f
<1>2. SockInv(sock[f]) /\ Alive(sock[f])
  BY <1>1, LifeHolds, Zenon
<1>3. SockInv(c) /\ Life(c) /\ Moved(c, sock[f])
  BY <1>1, <1>2, StateProcessInv, StateProcessLife, Zenon
<1> HIDE DEF c
<1> QED BY <1>1, <1>2, <1>3, SocketStep, Zenon DEF Alive

LEMMA SynackBare == \A r : \A q \in serval_sal_send_synack(r) : ~q.srvext
<1>1. ASSUME NEW r, NEW q \in serval_sal_send_synack(r)
      PROVE  q.srvext = FALSE
  <2>1. \E v, a : q = [src |-> r.local, dst |-> r.peer, flags |-> {"SYN", "ACK"}, verno |-> v,
                       ackno |-> a, srvext |-> FALSE, saddr |-> r.laddr, daddr |-> r.raddr]
    BY <1>1, Zenon DEF serval_sal_send_synack
  <2> QED BY <2>1
<1> QED BY <1>1, Zenon

\* SYN-ACKs and resets, which are built without a socket, carry no serviceID.
LEMMA ReplyLifeStep ==
    ASSUME IndInv, LifeInv, NEW p \in net,
           RcvDuplicateSyn(p) \/ RcvSyn(p) \/ RcvNoMatch(p)
    PROVE  LifeInv'
<1>1. ASSUME NEW r PROVE \A q \in serval_sal_send_synack(r) : ~q.srvext
  BY SynackBare, Zenon
<1>2. CASE RcvDuplicateSyn(p)
  BY <1>1, <1>2, QuietStep, Zenon DEF RcvDuplicateSyn, LifeInv
<1>3. CASE RcvNoMatch(p)
  <2>1. ASSUME NEW q \in serval_sal_send_reset(p) PROVE ~q.srvext
    <3>1. \E f, v, a : q = [src |-> p.dst, dst |-> p.src, flags |-> f, verno |-> v,
                            ackno |-> a, srvext |-> FALSE, saddr |-> p.daddr,
                            daddr |-> p.saddr]
      BY ZenonT(40) DEF serval_sal_send_reset
    <3> QED
      BY <3>1
  <2>2. net' = net \cup serval_sal_send_reset(p) /\ UNCHANGED <<sock, lsk>>
    BY <1>3, Zenon DEF RcvNoMatch
  <2> QED BY <2>1, <2>2, QuietStep, Zenon DEF LifeInv
<1>4. CASE RcvSyn(p)
  <2> DEFINE r == [peer |-> p.src, local |-> nextflow, rcvseq |-> p.verno,
                   raddr |-> p.saddr, laddr |-> p.daddr]
             n == lsk.qlen + 1
             s == lsk.syn \cup {r}
             l == [lsk EXCEPT !.syn = s, !.qlen = n]
  <2>1. /\ lsk' = l /\ net' = net \cup serval_sal_send_synack(r)
        /\ nextflow \in Servers /\ UNCHANGED sock
    BY <1>4, Zenon DEF RcvSyn
  <2>2. r.local \in Servers /\ lsk \in Listener
    BY <2>1, Zenon DEF IndInv, TypeOK
  <2>3. l.syn = s
    BY <2>2, Zenon DEF Listener
  <2> HIDE DEF r, l
  <2>4. \A q \in lsk'.syn : q.local \in Servers
    BY <2>1, <2>2, <2>3, Zenon DEF LifeInv
  <2> QED BY <1>1, <2>1, <2>4, QuietStep, Zenon
<1> QED BY <1>2, <1>3, <1>4, Zenon

\* The connection ACK makes a child: its sender has chosen this very child.
LEMMA RcvConnAckLifeStep ==
    ASSUME IndInv, LifeInv, NEW p \in net, RcvConnAck(p)
    PROVE  LifeInv'
<1>1. PICK r \in lsk.syn :
         /\ r.local = p.dst /\ r.peer = p.src
         /\ lsk' = [lsk EXCEPT !.syn = @ \ {r}, !.accept = Append(@, r),
                               !.qlen = @ - 1, !.ackBacklog = @ + 1]
         /\ Commit(r.local, serval_sal_state_process(
                                serval_sal_create_respond_sock(r), p))
  BY Zenon DEF RcvConnAck
<1>2. ConnAck(p)
  BY Zenon DEF RcvConnAck, demux_service, ConnAck
<1>3. r \in Rsk /\ r.local \in Servers /\ r.local \in Flows /\ p \in Packet
      /\ lsk \in Listener
  BY ListenerFacts, FlowsApart, Zenon DEF IndInv, TypeOK, LifeInv
<1> DEFINE f == r.local
           s == serval_sal_create_respond_sock(r)
           c == serval_sal_state_process(s, p)
<1>4. SockInv(s) /\ Alive(s) /\ s.id = f /\ s.peer = r.peer /\ s.state = "RESPOND"
  BY <1>3, RespondSockLife, Zenon
<1> HIDE DEF s
<1>5. SockInv(c) /\ Life(c) /\ Moved(c, s)
  BY <1>3, <1>4, StateProcessInv, StateProcessLife, Zenon
<1>6. Commit(f, c)
  BY <1>1, Zenon DEF s
<1> HIDE DEF c
<1>7. c.id = f /\ c.peer = p.src /\ c.state # "REQUEST"
  BY <1>1, <1>4, <1>5, Zenon DEF Moved
<1>8. Chosen(p.src, f)
  BY <1>1, <1>2, Zenon DEF LifeInv
<1>9. f \in Servers => Chosen(c.peer, f)
  BY <1>7, <1>8, Zenon
<1>10. f \notin Clients
  BY <1>3, FlowsApart, Zenon
<1>11. lsk'.syn \subseteq lsk.syn
  BY <1>1, <1>3, Zenon DEF Listener
<1>12. f \in Flows
  BY <1>3, Zenon
<1> HIDE DEF f
<1> QED BY <1>5, <1>6, <1>7, <1>9, <1>10, <1>11, <1>12, CommitLife, Zenon

-----------------------------------------------------------------------------
\* Theorems.

\* The initial state satisfies the invariant.
LEMMA InitLife == Init => LifeInv
<1> SUFFICES ASSUME Init PROVE LifeInv
  OBVIOUS
<1>1. \A f \in Flows : sock[f] = InitSock(f)
  BY Zenon DEF Init
<1>2. \A f \in Flows : /\ InitSock(f).id = f /\ InitSock(f).out = {}
                       /\ Fresh(InitSock(f)) /\ InitSock(f).state = "INIT"
  BY Zenon DEF InitSock, Fresh
<1>3. lsk.syn = {} /\ net = {}
  BY Zenon DEF Init
<1> QED BY <1>1, <1>2, <1>3, FlowsApart DEF LifeInv

\* Every step preserves the invariant.
LEMMA NextLife == IndInv /\ LifeInv /\ [Next]_vars => LifeInv'
<1> SUFFICES ASSUME IndInv, LifeInv, [Next]_vars PROVE LifeInv'
  OBVIOUS
<1>1. ASSUME NEW f \in Clients, Connect(f) PROVE LifeInv'
  BY <1>1, ConnectLifeStep, Zenon
<1>2. ASSUME NEW f \in Flows, NEW unread \in BOOLEAN, Close(f, unread) PROVE LifeInv'
  BY <1>2, CloseLifeStep, Zenon
<1>3. ASSUME NEW f \in Flows, TcpFinAcked(f) \/ TcpWriteErr(f) PROVE LifeInv'
  BY <1>3, TcpLifeStep, Zenon
<1>4. ASSUME NEW f \in Flows, NEW a \in AddrsOf(f), Migrate(f, a) PROVE LifeInv'
  BY <1>4, MigrateLifeStep, Zenon
<1>5. ASSUME NEW f \in Flows, RexmitFire(f) \/ TimewaitFire(f) PROVE LifeInv'
  BY <1>5, FireLifeStep, Zenon
<1>6. ASSUME NEW f \in Flows, RexmitTimeout(f) \/ TimewaitTimeout(f) PROVE LifeInv'
  BY <1>6, TimeoutLifeStep, Zenon
<1>7. CASE Accept \/ Prune
  BY <1>7, QueueLifeStep, Zenon
<1>8. CASE ListenStop
  BY <1>8, ListenStopLifeStep, Zenon
<1>9. ASSUME NEW p \in net, Deliver(p) PROVE LifeInv'
  BY <1>9, RcvFlowLifeStep, ReplyLifeStep, RcvConnAckLifeStep, Zenon DEF Deliver
<1>10. CASE UNCHANGED vars
  <2>1. UNCHANGED <<sock, lsk, net>>
    BY <1>10, Zenon DEF vars
  <2> QED BY <2>1, QuietStep, Zenon DEF LifeInv
<1>11. ASSUME NEW f \in Flows, ReleaseEnd(f) PROVE LifeInv'
  BY <1>11, ReleaseEndLifeStep, Zenon
<1> QED
  BY <1>1, <1>2, <1>3, <1>4, <1>5, <1>6, <1>7, <1>8, <1>9, <1>10, <1>11, Zenon DEF Next

\* The invariant of a socket's life holds in every reachable state.
THEOREM Lives == Spec => []LifeInv
BY InitLife, NextLife, Invariance, PTL DEF Spec

\* The control packet in a live socket's queue always has a retransmission
\* coming, however timers, callbacks that wait for the lock, ACKs, overriding
\* packets and give-ups interleave.
THEOREM QueuedTimed == Spec => []QueuedHasTimer
<1>1. LifeInv => QueuedHasTimer
  BY Zenon DEF LifeInv, QueuedHasTimer, Fresh, Life
<1> QED BY <1>1, Lives, PTL

\* A child exists only for an opener that took this child's SYN-ACK and has
\* left REQUEST: an opener has at most one child, whatever SYNs are repeated,
\* whatever request socks are pruned and whoever migrates or closes.
THEOREM Agreement == Spec => []HandshakeAgreement
<1>1. IndInv /\ LifeInv => HandshakeAgreement
  <2> SUFFICES ASSUME IndInv, LifeInv, NEW s \in Servers, sock[s].state # "INIT"
               PROVE  /\ sock[s].peer \in Clients /\ Established(s)
                      /\ sock[sock[s].peer].state \notin {"INIT", "REQUEST"}
    BY Zenon DEF HandshakeAgreement
  <2>1. s \in Flows
    BY FlowsApart, Zenon
  <2>2. sock[s].peer \in Flows \cup {NoFlow}
    BY <2>1, Zenon DEF IndInv, TypeOK, Sock
  <2>3. Chosen(sock[s].peer, s)
    BY <2>2, Zenon DEF LifeInv
  <2>4. NoFlow \notin Clients
    BY SALAssumption DEF NoFlow, Clients
  <2> QED BY <2>3, <2>4, Zenon DEF Chosen, Established
<1> QED BY <1>1, Lives, Invariance, PTL

\* An armed retransmission timer has a packet to retransmit, whatever timers
\* wait for the lock and whatever closes, ACKs, resets and give-ups come in
\* between; only a callback that ran after the queue was emptied, or after the
\* socket had ended, can have left a timer armed with nothing queued.
THEOREM TimerHasPacket == Spec => []TimerOnlyWhileQueued
<1>1. LifeInv => TimerOnlyWhileQueued
  BY Zenon DEF LifeInv, TimerOnlyWhileQueued, Fresh, Life, Sane, Unraced
<1> QED BY <1>1, Lives, PTL

\* A socket is destroyed once: closing, resets, TCP giving up, the two timers
\* and callbacks that wait for the lock never destroy it again, unless a
\* callback gets the lock after the socket has ended.
THEOREM OneDestruction == Spec => []DestroyedOnce
<1>1. LifeInv => DestroyedOnce
  <2>1. LifeInv => \A f \in Flows : sock[f].late \/ sock[f].destroyed = 0
                                    \/ sock[f].destroyed = 1
    BY Zenon DEF LifeInv, Fresh, Life, Sane, Unraced, Gone
  <2>2. 0 # 2 /\ 1 # 2
    OBVIOUS
  <2> QED BY <2>1, <2>2, Zenon DEF DestroyedOnce
<1> QED BY <1>1, Lives, PTL

=============================================================================
