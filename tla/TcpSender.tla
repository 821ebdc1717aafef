----------------------------- MODULE TcpSender -----------------------------
(***************************************************************************)
(* The sending half of the stream transport: the write queue, the          *)
(* retransmission and congestion state machine (NewReno without SACK, the  *)
(* only variant the build has) and the retransmission and window-probe     *)
(* timers of serval_tcp_output.c, serval_tcp_input.c, serval_tcp_timer.c   *)
(* and serval_tcp_cong.c.                                                  *)
(*                                                                         *)
(* The socket is the record snd; each C function is the operator of the    *)
(* same name from that record to its next value.  What a function hands to *)
(* serval_sal_xmit_skb is collected in the field "out" and put on the wire *)
(* by the action; its return code is left in "rc".  Every buffer counts as *)
(* one packet, since gso is off (linux/module.c:40).                       *)
(***************************************************************************)
EXTENDS TcpSeq, FiniteSets, SequencesExt

CONSTANTS
    Isns,        \* initial sequence numbers the active opener may draw
    InitCwnd,    \* serval_tcp_init_cwnd: 2..4, by the size of the segment
    Reordering,  \* sysctl_serval_tcp_reordering
    Retries2     \* sysctl_serval_tcp_retries2, 15 in the code (bound)

ASSUME SenderAssumption ==
    /\ Isns \subseteq SeqNo
    /\ InitCwnd \in Nat \ {0} /\ Reordering \in Nat \ {0} /\ Retries2 \in Nat

\* SERVAL_TCP_INFINITE_SSTHRESH
Infinite == 99

VARIABLE snd

CaStates == {"Open", "Disorder", "CWR", "Recovery", "Loss"}
Tags == {"LOST", "SACKED_RETRANS", "EVER_RETRANS"}

\* What serval_sal_xmit_skb answers: sent, an error, dropped by the device
\* (NET_XMIT_DROP), or sent by a device that is congested (NET_XMIT_CN)
XmitResults == {"ok", "error", "dropped", "notified"}

\* serval_tcp_init_sock and serval_tcp_connect_init
SndInit ==
    [state |-> "CLOSE", wq |-> <<>>, nsent |-> 0,
     snd_una |-> 0, snd_nxt |-> 0, write_seq |-> 0, snd_wnd |-> 0,
     snd_sml |-> 0, max_window |-> 0, pushed_seq |-> 0,
     cwnd |-> 2, cwnd_cnt |-> 0, ssthresh |-> Infinite, prior_ssthresh |-> 0,
     packets_out |-> 0, retrans_out |-> 0, lost_out |-> 0, sacked_out |-> 0,
     ca_state |-> "Open", high_seq |-> 0, undo_marker |-> 0,
     undo_retrans |-> 0, retransmit_high |-> 0, retransmit_hint |-> 0,
     lost_hint |-> 0, retrans_stamp |-> FALSE,
     reordering |-> Reordering, retransmits |-> 0, backoff |-> 0,
     probes_out |-> 0, pending |-> "none", snd_mig_last |-> 0,
     fin_acked |-> 0, xmit |-> "ok", idle |-> FALSE, rc |-> 0, out |-> <<>>]

-----------------------------------------------------------------------------
\* Counters and windows (serval_tcp.h, serval_tcp_sock.h)

serval_tcp_left_out(tp) == tp.sacked_out + tp.lost_out

serval_tcp_packets_in_flight(tp) ==
    tp.packets_out - serval_tcp_left_out(tp) + tp.retrans_out

serval_tcp_wnd_end(tp) == Add(tp.snd_una, tp.snd_wnd)

HasSendHead(tp) == tp.nsent < Len(tp.wq)

serval_tcp_send_head(tp) == tp.wq[tp.nsent + 1]

\* Both timers are the one sk timer; "pending" says what it is armed for
serval_tsk_reset_xmit_timer(tp, what) == [tp EXCEPT !.pending = what]

serval_tsk_clear_xmit_timer(tp) == [tp EXCEPT !.pending = "none"]

serval_tcp_reno_ssthresh(tp) == max(tp.cwnd \div 2, 2)

serval_tcp_current_ssthresh(tp) ==
    IF tp.ca_state \in {"CWR", "Recovery"} THEN tp.ssthresh
    ELSE max(tp.ssthresh, tp.cwnd \div 2 + tp.cwnd \div 4)

serval_tcp_clear_all_retrans_hints(tp) ==
    [tp EXCEPT !.lost_hint = 0, !.retransmit_hint = 0]

serval_tcp_any_retrans_done(tp) ==
    \/ tp.retrans_out # 0
    \/ tp.wq # <<>> /\ "EVER_RETRANS" \in tp.wq[1].tags

-----------------------------------------------------------------------------
\* Congestion window reductions and their undoing

serval_tcp_enter_cwr(tp) ==
    IF tp.ca_state \in {"Open", "Disorder"}
    THEN [tp EXCEPT !.prior_ssthresh = 0, !.undo_marker = 0,
                    !.ssthresh = serval_tcp_reno_ssthresh(tp),
                    !.cwnd = min(tp.cwnd, serval_tcp_packets_in_flight(tp) + 1),
                    !.cwnd_cnt = 0, !.high_seq = tp.snd_nxt,
                    !.ca_state = "CWR"]
    ELSE [tp EXCEPT !.prior_ssthresh = 0]

serval_tcp_cwnd_down(tp, dup, advanced) ==
    LET decr == (tp.cwnd_cnt + 1) \div 2
        cwnd == IF tp.cwnd > tp.ssthresh \div 2 THEN tp.cwnd - decr ELSE tp.cwnd
    IN  IF dup \/ advanced
        THEN [tp EXCEPT !.cwnd_cnt = (tp.cwnd_cnt + 1) % 2,
                        !.cwnd = min(cwnd, serval_tcp_packets_in_flight(tp) + 1)]
        ELSE tp

serval_tcp_moderate_cwnd(tp) ==
    [tp EXCEPT !.cwnd = min(tp.cwnd, serval_tcp_packets_in_flight(tp)
                                        + tp.reordering)]

serval_tcp_undo_cwr(tp, undo) ==
    serval_tcp_moderate_cwnd(
        IF tp.prior_ssthresh # 0
        THEN [tp EXCEPT !.cwnd = max(tp.cwnd, 2 * tp.ssthresh),
                        !.ssthresh = IF undo THEN max(tp.ssthresh, tp.prior_ssthresh)
                                     ELSE tp.ssthresh]
        ELSE [tp EXCEPT !.cwnd = max(tp.cwnd, tp.ssthresh)])

\* Without timestamps a packet counts as delayed only if nothing was resent
serval_tcp_may_undo(tp) ==
    /\ tp.undo_marker # 0
    /\ tp.undo_retrans = 0 \/ ~tp.retrans_stamp

serval_tcp_complete_cwr(tp) == [tp EXCEPT !.cwnd = min(tp.cwnd, tp.ssthresh)]

serval_tcp_try_undo_dsack(tp) ==
    IF tp.undo_marker # 0 /\ tp.undo_retrans = 0
    THEN [serval_tcp_undo_cwr(tp, TRUE) EXCEPT !.undo_marker = 0]
    ELSE tp

-----------------------------------------------------------------------------
\* Duplicate ACKs stand for SACKs: sacked_out counts them

serval_tcp_update_reordering(tp, metric) ==
    [tp EXCEPT !.reordering = max(tp.reordering, min(127, metric))]

serval_tcp_check_reno_reordering(tp, addend) ==
    LET holes == min(max(tp.lost_out, 1), tp.packets_out)
    IN  IF tp.sacked_out + holes > tp.packets_out
        THEN serval_tcp_update_reordering(
                 [tp EXCEPT !.sacked_out = tp.packets_out - holes],
                 tp.packets_out + addend)
        ELSE tp

serval_tcp_add_reno_sack(tp) ==
    serval_tcp_check_reno_reordering(
        [tp EXCEPT !.sacked_out = tp.sacked_out + 1], 0)

serval_tcp_remove_reno_sacks(tp, acked) ==
    serval_tcp_check_reno_reordering(
        [tp EXCEPT !.sacked_out = IF acked > 0
                                  THEN max(0, tp.sacked_out - (acked - 1))
                                  ELSE tp.sacked_out], acked)

serval_tcp_reset_reno_sack(tp) == [tp EXCEPT !.sacked_out = 0]

-----------------------------------------------------------------------------
\* Handing segments to the layer below (serval_tcp_output.c)

\* An idle connection restarts from the initial window; the halvings the idle
\* time has room for are taken to be enough to reach it
serval_tcp_cwnd_restart(tp) ==
    [tp EXCEPT !.ssthresh = serval_tcp_current_ssthresh(tp),
               !.cwnd = min(InitCwnd, tp.cwnd)]

\* serval_sal_xmit_skb answers the same for every segment of one handler
serval_tcp_transmit_skb(tp, skb) ==
    LET seg == [seq |-> skb.seq, end |-> skb.end, fin |-> skb.fin]
        tx == IF tp.idle /\ tp.packets_out = 0 /\ DataLen(skb) > 0
              THEN serval_tcp_cwnd_restart(tp) ELSE tp
    IN  CASE tp.xmit = "ok" -> [tx EXCEPT !.out = Append(@, seg), !.rc = 0]
          [] tp.xmit = "error" -> [tx EXCEPT !.rc = -1]
          [] tp.xmit = "dropped" -> [serval_tcp_enter_cwr(tx) EXCEPT !.rc = 1]
          [] tp.xmit = "notified" ->
                 [serval_tcp_enter_cwr(tx) EXCEPT !.out = Append(@, seg), !.rc = 0]

serval_tcp_event_new_data_sent(tp) ==
    LET sent == [tp EXCEPT !.nsent = tp.nsent + 1,
                           !.snd_nxt = serval_tcp_send_head(tp).end,
                           !.packets_out = tp.packets_out + 1]
    IN  IF tp.packets_out = 0
        THEN serval_tsk_reset_xmit_timer(sent, "RETRANS") ELSE sent

serval_tcp_cwnd_test(tp, skb) ==
    \/ skb.fin
    \/ serval_tcp_packets_in_flight(tp) < tp.cwnd

serval_tcp_snd_wnd_test(tp, skb) ==
    ~after(IF DataLen(skb) > Mss THEN Add(skb.seq, Mss) ELSE skb.end,
           serval_tcp_wnd_end(tp))

serval_tcp_minshall_check(tp) ==
    /\ after(tp.snd_sml, tp.snd_una)
    /\ ~after(tp.snd_sml, tp.snd_nxt)

\* nonagle is TCP_NAGLE_PUSH or TCP_NAGLE_OFF when "push" holds, else 0
serval_tcp_nagle_test(tp, skb, push) ==
    \/ push
    \/ skb.fin
    \/ DataLen(skb) >= Mss
    \/ tp.packets_out = 0
    \/ ~serval_tcp_minshall_check(tp)

serval_tcp_may_send_now(tp) ==
    /\ HasSendHead(tp)
    /\ serval_tcp_cwnd_test(tp, serval_tcp_send_head(tp))
    /\ serval_tcp_snd_wnd_test(tp, serval_tcp_send_head(tp))

\* May the head of the unsent part go out now?  Only the last buffer of the
\* queue is subject to Nagle's rule.
MayXmit(tp, push) ==
    /\ serval_tcp_may_send_now(tp)
    /\ serval_tcp_nagle_test(tp, serval_tcp_send_head(tp),
                             push \/ tp.nsent + 1 < Len(tp.wq))

\* The body of the loop of serval_tcp_write_xmit
XmitHead(tp) ==
    LET skb == serval_tcp_send_head(tp)
        sent(t) == [serval_tcp_event_new_data_sent(t)
                       EXCEPT !.snd_sml = IF DataLen(skb) < Mss THEN skb.end ELSE @]
        try(t) == IF t.rc # 0 THEN t ELSE sent(t)
    IN  try(serval_tcp_transmit_skb(tp, skb))

serval_tcp_write_xmit(tp, push) ==
    LET round(t, skb) == IF t.rc = 0 /\ MayXmit(t, push) THEN XmitHead(t) ELSE t
    IN  FoldLeft(round, [tp EXCEPT !.rc = 0],
                 SubSeq(tp.wq, tp.nsent + 1, Len(tp.wq)))

\* The window probe is armed when nothing is in flight to do it for us
serval_tcp_check_probe_timer(tp) ==
    IF tp.packets_out = 0 /\ tp.pending = "none"
    THEN serval_tsk_reset_xmit_timer(tp, "PROBE0") ELSE tp

serval_tcp_push_pending_frames(tp, push) ==
    LET probe(t) == IF t.nsent = tp.nsent /\ t.packets_out = 0
                    THEN serval_tcp_check_probe_timer(t) ELSE t
    IN  IF tp.state = "CLOSE" \/ ~HasSendHead(tp) THEN tp
        ELSE probe(serval_tcp_write_xmit(tp, push))

\* One buffer, whatever its place in the queue; never arms the probe
serval_tcp_push_one(tp) ==
    IF MayXmit(tp, TRUE) THEN XmitHead(tp) ELSE tp

\* Splits the buffer at position i after len units; the second part keeps the
\* FIN.  A buffer already sent becomes two packets in flight.
serval_tcp_fragment(tp, i, len) ==
    LET skb == tp.wq[i]
        cut == Add(skb.seq, len)
        one(tag) == IF i <= tp.nsent /\ tag \in skb.tags THEN 1 ELSE 0
        shift(h) == IF h > i THEN h + 1 ELSE h
    IN  [tp EXCEPT
           !.wq = SubSeq(tp.wq, 1, i - 1)
                    \o <<[skb EXCEPT !.end = cut, !.fin = FALSE],
                         [skb EXCEPT !.seq = cut]>>
                    \o SubSeq(tp.wq, i + 1, Len(tp.wq)),
           !.nsent = IF i <= tp.nsent THEN tp.nsent + 1 ELSE tp.nsent,
           !.packets_out = tp.packets_out + (IF i <= tp.nsent THEN 1 ELSE 0),
           !.retrans_out = tp.retrans_out + one("SACKED_RETRANS"),
           !.lost_out = tp.lost_out + one("LOST"),
           !.retransmit_hint = shift(tp.retransmit_hint),
           !.lost_hint = shift(tp.lost_hint)]

\* What is already acknowledged of the buffer is cut off before it is resent
serval_tcp_trim_head(tp, i) ==
    IF before(tp.wq[i].seq, tp.snd_una)
    THEN [tp EXCEPT !.wq[i].seq = tp.snd_una] ELSE tp

serval_tcp_retransmit_skb(tp, i) ==
    LET resent(t) ==
            IF t.rc # 0 THEN t
            ELSE [t EXCEPT !.wq[i].tags = @ \cup {"SACKED_RETRANS", "EVER_RETRANS"},
                           !.retrans_out = t.retrans_out + 1,
                           !.retrans_stamp = TRUE,
                           !.undo_retrans = t.undo_retrans + 1]
        send(t) == IF /\ ~before(t.wq[i].seq, serval_tcp_wnd_end(t))
                      /\ t.wq[i].seq # t.snd_una
                   THEN [t EXCEPT !.rc = -1]
                   ELSE resent(serval_tcp_transmit_skb(t, t.wq[i]))
    IN  send(serval_tcp_trim_head(tp, i))

\* One buffer of the loop of serval_tcp_xmit_retransmit_queue; the fold state
\* is the socket, the end of the last buffer known lost, the first hole and
\* whether the loop goes on
RetransmitStep(st, i) ==
    LET skb == st.tp.wq[i]
        tp == IF st.hole = 0 THEN [st.tp EXCEPT !.retransmit_hint = i] ELSE st.tp
        resent(t) == [st EXCEPT !.tp = IF t.rc = 0 /\ i = 1
                                       THEN serval_tsk_reset_xmit_timer(t, "RETRANS")
                                       ELSE t,
                                !.last_lost = skb.end, !.go = t.rc = 0]
    IN  IF ~st.go THEN st
        ELSE IF serval_tcp_packets_in_flight(tp) >= tp.cwnd
        THEN [st EXCEPT !.tp = tp, !.go = FALSE]
        ELSE IF ~before(skb.seq, tp.retransmit_high)
        THEN [st EXCEPT !.tp = [tp EXCEPT !.retransmit_high = st.last_lost],
                        !.go = FALSE]
        ELSE IF "LOST" \notin skb.tags
        THEN [st EXCEPT !.tp = tp,
                        !.hole = IF st.hole = 0 /\ "SACKED_RETRANS" \notin skb.tags
                                 THEN i ELSE st.hole]
        ELSE IF "SACKED_RETRANS" \in skb.tags
        THEN [st EXCEPT !.tp = tp, !.last_lost = skb.end]
        ELSE resent(serval_tcp_retransmit_skb(tp, i))

serval_tcp_xmit_retransmit_queue(tp) ==
    LET start == IF tp.lost_out = 0
                 THEN [tp EXCEPT !.retransmit_high = tp.snd_una] ELSE tp
        first == max(tp.retransmit_hint, 1)
        hintend == tp.wq[first].end
        last == IF tp.retransmit_hint = 0 THEN tp.snd_una
                ELSE IF after(hintend, start.retransmit_high)
                THEN start.retransmit_high ELSE hintend
    IN  IF tp.packets_out = 0 THEN tp
        ELSE FoldLeft(RetransmitStep,
                      [tp |-> start, last_lost |-> last, hole |-> 0, go |-> TRUE],
                      [k \in 1..tp.nsent - first + 1 |-> first + k - 1]).tp

\* The FIN rides on the last unsent buffer, else it is queued by itself
serval_tcp_send_fin(tp) ==
    LET n == Len(tp.wq)
        next == Add(tp.write_seq, 1)
        nskb == [seq |-> tp.write_seq, end |-> next, fin |-> TRUE, tags |-> {}]
        queued == IF HasSendHead(tp)
                  THEN [tp EXCEPT !.wq[n].fin = TRUE, !.wq[n].end = Add(@, 1),
                                  !.write_seq = next]
                  ELSE [tp EXCEPT !.wq = Append(tp.wq, nskb), !.write_seq = next]
    IN  serval_tcp_push_pending_frames(queued, TRUE)

-----------------------------------------------------------------------------
\* Window probes

\* A segment without data below the window: the peer answers with an ACK
serval_tcp_xmit_probe_skb(tp) ==
    serval_tcp_transmit_skb(tp, [seq |-> Sub(tp.snd_una, 1),
                                 end |-> Sub(tp.snd_una, 1), fin |-> FALSE])

serval_tcp_write_wakeup(tp) ==
    LET skb == serval_tcp_send_head(tp)
        room == Sub(serval_tcp_wnd_end(tp), skb.seq)
        push == [tp EXCEPT !.pushed_seq = IF before(@, skb.end) THEN skb.end ELSE @]
        cut == IF room < Sub(skb.end, skb.seq) \/ DataLen(skb) > Mss
               THEN serval_tcp_fragment(push, tp.nsent + 1, min(room, Mss)) ELSE push
        send(t) == serval_tcp_transmit_skb(t, serval_tcp_send_head(t))
        sent(t) == IF t.rc = 0 THEN serval_tcp_event_new_data_sent(t) ELSE t
    IN  IF tp.state = "CLOSE" THEN [tp EXCEPT !.rc = -1]
        ELSE IF HasSendHead(tp) /\ before(skb.seq, serval_tcp_wnd_end(tp))
        THEN sent(send(cut))
        ELSE serval_tcp_xmit_probe_skb(tp)

serval_tcp_send_probe0(tp) ==
    LET rearm(t) ==
            IF t.packets_out # 0 \/ ~HasSendHead(t)
            THEN [t EXCEPT !.probes_out = 0, !.backoff = 0]
            ELSE serval_tsk_reset_xmit_timer(
                     IF t.rc <= 0
                     THEN [t EXCEPT !.backoff = min(t.backoff + 1, Retries2),
                                    !.probes_out = t.probes_out + 1]
                     ELSE [t EXCEPT !.probes_out = max(t.probes_out, 1)],
                     "PROBE0")
    IN  rearm(serval_tcp_write_wakeup(tp))

-----------------------------------------------------------------------------
\* The retransmission state machine (serval_tcp_input.c)

serval_tcp_enter_loss(tp) ==
    LET sent == 1..tp.nsent
        reduce == \/ tp.ca_state \in {"Open", "Disorder"}
                  \/ tp.snd_una = tp.high_seq
                  \/ tp.ca_state = "Loss" /\ tp.retransmits = 0
        resent == \E i \in sent :
                      tp.wq[i].tags \cap {"SACKED_RETRANS", "EVER_RETRANS"} # {}
        lost(tags) == (tags \cap {"EVER_RETRANS"}) \cup {"LOST"}
    IN  serval_tcp_clear_all_retrans_hints(
          [tp EXCEPT
             !.prior_ssthresh = IF reduce THEN serval_tcp_current_ssthresh(tp) ELSE @,
             !.ssthresh = IF reduce THEN serval_tcp_reno_ssthresh(tp) ELSE @,
             !.cwnd = 1, !.cwnd_cnt = 0,
             !.retrans_out = 0, !.undo_retrans = 0, !.sacked_out = 0,
             !.undo_marker = IF resent THEN 0 ELSE tp.snd_una,
             !.wq = [i \in sent |-> [tp.wq[i] EXCEPT !.tags = lost(@)]]
                       \o SubSeq(tp.wq, tp.nsent + 1, Len(tp.wq)),
             !.lost_out = tp.nsent,
             !.retransmit_high = IF tp.nsent > 0 THEN tp.wq[tp.nsent].end ELSE @,
             !.reordering = min(tp.reordering, Reordering),
             !.ca_state = "Loss", !.high_seq = tp.snd_nxt])

\* TRUE in "held": the old state is held until something above high_seq is
\* acknowledged
serval_tcp_try_undo_recovery(tp) ==
    LET undone == IF serval_tcp_may_undo(tp)
                  THEN [serval_tcp_undo_cwr(tp, TRUE) EXCEPT !.undo_marker = 0]
                  ELSE tp
    IN  IF tp.snd_una = tp.high_seq
        THEN [held |-> TRUE, tp |-> serval_tcp_moderate_cwnd(undone)]
        ELSE [held |-> FALSE, tp |-> [undone EXCEPT !.ca_state = "Open"]]

serval_tcp_try_undo_partial(tp, acked) ==
    LET seen == IF serval_tcp_any_retrans_done(tp) THEN tp
                ELSE [tp EXCEPT !.retrans_stamp = FALSE]
    IN  IF serval_tcp_may_undo(tp)
        THEN [failed |-> FALSE,
              tp |-> serval_tcp_undo_cwr(
                         serval_tcp_update_reordering(seen, tp.sacked_out + 1 + acked),
                         FALSE)]
        ELSE [failed |-> TRUE, tp |-> tp]

serval_tcp_try_undo_loss(tp) ==
    [serval_tcp_undo_cwr(
        serval_tcp_clear_all_retrans_hints(
            [tp EXCEPT !.wq = [i \in 1..tp.nsent |->
                                   [tp.wq[i] EXCEPT !.tags = @ \ {"LOST"}]]
                                 \o SubSeq(tp.wq, tp.nsent + 1, Len(tp.wq)),
                       !.lost_out = 0]), TRUE)
        EXCEPT !.retransmits = 0, !.undo_marker = 0]
serval_tcp_try_keep_open(tp) ==
    LET state == IF \/ serval_tcp_left_out(tp) # 0
                    \/ serval_tcp_any_retrans_done(tp)
                    \/ tp.undo_marker # 0
                 THEN "Disorder" ELSE "Open"
    IN  IF state = tp.ca_state THEN tp
        ELSE [tp EXCEPT !.ca_state = state, !.high_seq = tp.snd_nxt]

serval_tcp_try_to_open(tp, dup, advanced) ==
    LET seen == IF serval_tcp_any_retrans_done(tp) THEN tp
                ELSE [tp EXCEPT !.retrans_stamp = FALSE]
    IN  IF tp.ca_state # "CWR"
        THEN serval_tcp_moderate_cwnd(serval_tcp_try_keep_open(seen))
        ELSE serval_tcp_cwnd_down(seen, dup, advanced)

serval_tcp_skb_mark_lost(tp, i) ==
    LET skb == tp.wq[i]
        hint == tp.retransmit_hint
        verified ==
            [tp EXCEPT !.retransmit_hint =
                           IF hint = 0 \/ before(skb.seq, tp.wq[max(hint, 1)].seq)
                           THEN i ELSE hint,
                       !.retransmit_high =
                           IF tp.lost_out = 0 \/ after(skb.end, tp.retransmit_high)
                           THEN skb.end ELSE @]
    IN  IF "LOST" \in skb.tags THEN tp
        ELSE [verified EXCEPT !.lost_out = tp.lost_out + 1,
                              !.wq[i].tags = @ \cup {"LOST"}]

\* serval_tcp_mark_head_lost(sk, 1, 1), which is all of
\* serval_tcp_update_scoreboard when there are no SACKs
serval_tcp_mark_head_lost(tp) ==
    IF tp.lost_hint \notin {0, 1} \/ tp.nsent = 0 THEN tp
    ELSE IF after(tp.wq[1].end, tp.high_seq) THEN [tp EXCEPT !.lost_hint = 1]
    ELSE serval_tcp_skb_mark_lost([tp EXCEPT !.lost_hint = 1], 1)

serval_tcp_time_to_recover(tp) ==
    \/ tp.lost_out # 0
    \/ tp.sacked_out + 1 > tp.reordering
    \/ /\ tp.packets_out <= tp.reordering
       /\ tp.sacked_out >= max(tp.packets_out \div 2, Reordering)
       /\ ~serval_tcp_may_send_now(tp)

\* Step E of serval_tcp_fastretrans_alert: a state ends when high_seq is
\* acknowledged.  TRUE in "held" is an early return.
StateExit(tp) ==
    LET recovered(t) == serval_tcp_try_undo_recovery(t)
        complete(r) == IF r.held THEN r
                       ELSE [r EXCEPT !.tp = serval_tcp_complete_cwr(@)]
        free(t) == [held |-> FALSE, tp |-> t]
    IN  IF tp.ca_state = "Open" THEN free([tp EXCEPT !.retrans_stamp = FALSE])
        ELSE IF before(tp.snd_una, tp.high_seq) THEN free(tp)
        ELSE CASE tp.ca_state = "Loss" -> recovered([tp EXCEPT !.retransmits = 0])
               [] tp.ca_state = "CWR" ->
                    free(IF tp.snd_una = tp.high_seq THEN tp
                         ELSE [serval_tcp_complete_cwr(tp) EXCEPT !.ca_state = "Open"])
               [] tp.ca_state = "Disorder" ->
                    free([serval_tcp_try_undo_dsack(tp)
                              EXCEPT !.undo_marker = 0, !.ca_state = "Open"])
               [] tp.ca_state = "Recovery" ->
                    complete(recovered(serval_tcp_reset_reno_sack(tp)))

\* Fast retransmit: the window is halved once per loss event
EnterRecovery(tp) ==
    LET reduce == tp.ca_state \in {"Open", "Disorder"}
    IN  [tp EXCEPT !.high_seq = tp.snd_nxt, !.undo_marker = tp.snd_una,
                   !.undo_retrans = tp.retrans_out, !.cwnd_cnt = 0,
                   !.prior_ssthresh = IF reduce THEN serval_tcp_current_ssthresh(tp)
                                      ELSE 0,
                   !.ssthresh = IF reduce THEN serval_tcp_reno_ssthresh(tp) ELSE @,
                   !.ca_state = "Recovery"]

\* The test that keeps a migrated flow from reducing its window
MigratedBranch(tp, ack) == before(ack, tp.snd_mig_last)

\* Step F in the states Open, Disorder and CWR
ProcessOpen(tp, dup, advanced, ack) ==
    LET cleared == IF advanced THEN serval_tcp_reset_reno_sack(tp) ELSE tp
        counted == IF dup THEN serval_tcp_add_reno_sack(cleared) ELSE cleared
        undone == IF tp.ca_state = "Disorder"
                  THEN serval_tcp_try_undo_dsack(counted) ELSE counted
        marked(t) == IF dup THEN serval_tcp_mark_head_lost(t) ELSE t
        recover(t) ==
            IF ~serval_tcp_time_to_recover(t)
            THEN serval_tcp_try_to_open(t, dup, advanced)
            ELSE serval_tcp_xmit_retransmit_queue(
                     IF MigratedBranch(t, ack) THEN t
                     ELSE serval_tcp_cwnd_down(marked(EnterRecovery(t)), dup, advanced))
    IN  recover(undone)

ProcessRecovery(tp, acked, dup, advanced) ==
    LET partial == serval_tcp_try_undo_partial(tp, acked)
        counted == IF advanced THEN partial.tp
                   ELSE IF dup THEN serval_tcp_add_reno_sack(tp) ELSE tp
        do_lost == IF advanced THEN partial.failed ELSE dup
        marked == IF do_lost THEN serval_tcp_mark_head_lost(counted) ELSE counted
    IN  serval_tcp_xmit_retransmit_queue(serval_tcp_cwnd_down(marked, dup, advanced))

ProcessLoss(tp, data_acked, advanced) ==
    LET seen == [tp EXCEPT !.retransmits = IF data_acked THEN 0 ELSE @,
                           !.sacked_out = IF advanced THEN 0 ELSE @]
    IN  IF serval_tcp_may_undo(seen) THEN serval_tcp_try_undo_loss(seen)
        ELSE serval_tcp_xmit_retransmit_queue(serval_tcp_moderate_cwnd(seen))

\* Step F, by state; f holds the flags of the ACK
StepF(exit, acked, f, ack) ==
    LET advanced == f.una_advanced
        dup == ~(advanced \/ f.data_acked \/ f.win_update)
    IN  CASE exit.held -> exit.tp
          [] ~exit.held /\ exit.tp.ca_state = "Recovery" ->
                ProcessRecovery(exit.tp, acked, dup, advanced)
          [] ~exit.held /\ exit.tp.ca_state = "Loss" ->
                ProcessLoss(exit.tp, f.data_acked, advanced)
          [] OTHER -> ProcessOpen(exit.tp, dup, advanced, ack)

serval_tcp_fastretrans_alert(tp, acked, f, ack) ==
    StepF(StateExit(IF tp.packets_out = 0 THEN [tp EXCEPT !.sacked_out = 0] ELSE tp),
          acked, f, ack)

-----------------------------------------------------------------------------
\* Acknowledgments

\* The loop of slow start: cwnd_cnt may exceed a window that was cut since
SlowStartRound(t, i) ==
    IF t.cwnd_cnt >= t.cwnd
    THEN [t EXCEPT !.cwnd_cnt = t.cwnd_cnt - t.cwnd, !.cwnd = t.cwnd + 1] ELSE t

serval_tcp_slow_start(tp) ==
    FoldLeft(SlowStartRound, [tp EXCEPT !.cwnd_cnt = tp.cwnd_cnt + tp.cwnd],
             [i \in 1..tp.cwnd_cnt + 1 |-> i])

serval_tcp_cong_avoid_ai(tp) ==
    IF tp.cwnd_cnt >= tp.cwnd
    THEN [tp EXCEPT !.cwnd = tp.cwnd + 1, !.cwnd_cnt = 0]
    ELSE [tp EXCEPT !.cwnd_cnt = tp.cwnd_cnt + 1]

serval_tcp_is_cwnd_limited(tp, in_flight) ==
    in_flight >= tp.cwnd \/ tp.cwnd - in_flight <= tp.reordering

serval_tcp_reno_cong_avoid(tp, in_flight) ==
    IF ~serval_tcp_is_cwnd_limited(tp, in_flight) THEN tp
    ELSE IF tp.cwnd <= tp.ssthresh THEN serval_tcp_slow_start(tp)
    ELSE serval_tcp_cong_avoid_ai(tp)

\* An ACK with nothing in flight: does it open the window for the send head?
serval_tcp_ack_probe(tp) ==
    IF ~after(serval_tcp_send_head(tp).end, serval_tcp_wnd_end(tp))
    THEN serval_tsk_clear_xmit_timer([tp EXCEPT !.backoff = 0])
    ELSE serval_tsk_reset_xmit_timer(tp, "PROBE0")

\* Mutant: every ACK of new data stops the timer.
MutRtoStopped(tp) == serval_tsk_clear_xmit_timer(tp)

serval_tcp_rearm_rto(tp) ==
    IF tp.packets_out = 0 THEN serval_tsk_clear_xmit_timer(tp)
    ELSE serval_tsk_reset_xmit_timer(tp, "RETRANS")

\* Mutant: a buffer counts as acknowledged from its first unit on.
MutCoveredByStart(tp) ==
    {i \in 1..tp.nsent : \A j \in 1..i : ~after(tp.wq[j].seq, tp.snd_una)}

\* The buffers at the head of the queue that snd_una covers
Covered(tp) ==
    {i \in 1..tp.nsent : \A j \in 1..i : ~after(tp.wq[j].end, tp.snd_una)}

\* Drops the buffers the ACK covers from the head of the queue.  Karn: an ACK
\* of resent data says nothing of the round trip and leaves the backoff alone.
serval_tcp_clean_rtx_queue(tp) ==
    LET covered == Covered(tp)
        n == Cardinality(covered)
        tagged(tag) == Cardinality({i \in covered : tag \in tp.wq[i].tags})
        shift(h) == IF h <= n THEN 0 ELSE h - n
        cut == [tp EXCEPT !.wq = SubSeq(tp.wq, n + 1, Len(tp.wq)),
                          !.nsent = tp.nsent - n,
                          !.packets_out = tp.packets_out - n,
                          !.retrans_out = tp.retrans_out - tagged("SACKED_RETRANS"),
                          !.lost_out = tp.lost_out - tagged("LOST"),
                          !.retransmit_hint = shift(tp.retransmit_hint),
                          !.lost_hint = shift(tp.lost_hint),
                          !.backoff = IF tagged("EVER_RETRANS") = 0 THEN 0 ELSE @,
                          !.fin_acked = IF \E i \in covered : tp.wq[i].fin
                                        THEN tp.fin_acked + 1 ELSE @]
    IN  IF n = 0 THEN [tp |-> tp, acked |-> 0]
        ELSE [tp |-> serval_tcp_remove_reno_sacks(serval_tcp_rearm_rto(cut), n),
              acked |-> n]

serval_tcp_may_update_window(tp, ack, win) ==
    after(ack, tp.snd_una) \/ win > tp.snd_wnd

\* An ACK below snd_una is old, one above snd_nxt invalid: both change nothing
AckAcceptable(tp, ack) ==
    ~before(ack, tp.snd_una) /\ ~after(ack, tp.snd_nxt)

\* The peer sends no data, so snd_wl1 never moves and an ACK that advances
\* nothing updates the window only upwards
serval_tcp_ack_update_window(tp, ack, win) ==
    LET wnd == IF serval_tcp_may_update_window(tp, ack, win) THEN win ELSE tp.snd_wnd
    IN  [tp EXCEPT !.snd_una = ack, !.snd_wnd = wnd,
                   !.max_window = max(tp.max_window, wnd)]

serval_tcp_ack_is_dubious(f, ca_state) ==
    ~(f.win_update \/ f.data_acked) \/ ca_state # "Open"

serval_tcp_may_raise_cwnd(ca_state) == ca_state \notin {"Recovery", "CWR"}

\* After the queue was cleaned: congestion avoidance, and the state machine
\* when the ACK is dubious; tp is the socket as the ACK found it
AckCleaned(clean, tp, f, ack) ==
    LET dubious == serval_tcp_ack_is_dubious(f, tp.ca_state)
        raise == f.data_acked /\ (dubious => serval_tcp_may_raise_cwnd(tp.ca_state))
        grown == IF raise
                 THEN serval_tcp_reno_cong_avoid(clean.tp, serval_tcp_packets_in_flight(tp))
                 ELSE clean.tp
    IN  IF dubious THEN serval_tcp_fastretrans_alert(grown, clean.acked, f, ack)
        ELSE grown

\* The flags the ACK earns
AckFlags(clean, tp, ack, win) ==
    [una_advanced |-> after(ack, tp.snd_una), data_acked |-> clean.acked > 0,
     win_update |-> serval_tcp_may_update_window(tp, ack, win)]

Cleaned(clean, tp, ack, win) == AckCleaned(clean, tp, AckFlags(clean, tp, ack, win), ack)

serval_tcp_ack(tp, ack, win) ==
    LET seen == [serval_tcp_ack_update_window(tp, ack, win) EXCEPT !.probes_out = 0]
    IN  IF ~AckAcceptable(tp, ack) THEN tp
        ELSE IF tp.packets_out = 0
        THEN IF HasSendHead(seen) THEN serval_tcp_ack_probe(seen) ELSE seen
        ELSE Cleaned(serval_tcp_clean_rtx_queue(seen), tp, ack, win)

serval_tcp_data_snd_check(tp) == serval_tcp_push_pending_frames(tp, FALSE)

\* What a connected sender does with a segment without data
serval_tcp_rcv_ack(tp, ack, win) ==
    IF after(ack, tp.snd_nxt) THEN tp
    ELSE serval_tcp_data_snd_check(serval_tcp_ack(tp, ack, win))

-----------------------------------------------------------------------------
\* Timers (serval_tcp_timer.c)

\* The error goes to the socket and the SAL is done with the flow
serval_tcp_write_err(tp) ==
    [serval_tsk_clear_xmit_timer(tp) EXCEPT !.state = "CLOSE"]

\* retransmits_timed_out measures time; here the limit is the number of
\* retransmissions that time allows
serval_tcp_write_timeout(tp) == tp.retransmits >= Retries2

\* rcv_tstamp is renewed by every ACK, also one that keeps the window shut, so
\* a zero window never runs into the limit
serval_tcp_retransmit_timer(tp) ==
    LET resent == serval_tcp_retransmit_skb(serval_tcp_enter_loss(tp), 1)
        counted(t) == IF t.rc > 0 THEN [t EXCEPT !.retransmits = max(@, 1)]
                      ELSE [t EXCEPT !.retransmits = @ + 1, !.backoff = @ + 1]
    IN  IF tp.packets_out = 0 THEN tp
        ELSE IF tp.snd_wnd = 0 THEN serval_tsk_reset_xmit_timer(resent, "RETRANS")
        ELSE IF serval_tcp_write_timeout(tp) THEN serval_tcp_write_err(tp)
        ELSE serval_tsk_reset_xmit_timer(counted(resent), "RETRANS")

\* Mutant: the probe goes out and the timer is not set again.
MutProbeOnce(tp) ==
    serval_tsk_clear_xmit_timer(serval_tcp_send_probe0(tp))

serval_tcp_probe_timer(tp) ==
    IF tp.packets_out # 0 \/ ~HasSendHead(tp) THEN [tp EXCEPT !.probes_out = 0]
    ELSE IF tp.probes_out > Retries2 THEN serval_tcp_write_err(tp)
    ELSE serval_tcp_send_probe0(tp)

serval_tcp_write_timer(tp) ==
    LET fired == serval_tsk_clear_xmit_timer(tp)
    IN  IF tp.pending = "RETRANS" THEN serval_tcp_retransmit_timer(fired)
        ELSE serval_tcp_probe_timer(fired)

-----------------------------------------------------------------------------
\* Migration: the SAL stops the timer and tells when the new path is there

serval_tcp_freeze_flow(tp) == serval_tsk_clear_xmit_timer(tp)

serval_tcp_migration_completed(tp) ==
    LET marked == [tp EXCEPT !.snd_mig_last = tp.snd_nxt]
        armed == IF tp.packets_out # 0
                 THEN serval_tsk_reset_xmit_timer(marked, "RETRANS") ELSE marked
    IN  IF tp.snd_wnd = 0 THEN serval_tcp_send_probe0(armed)
        ELSE serval_tcp_push_pending_frames(armed, FALSE)

-----------------------------------------------------------------------------
\* The socket calls of the sender (serval_tcp.c)

\* Appends to the last unsent buffer while it has room, else starts a new one
skb_entail(tp) ==
    LET n == Len(tp.wq)
        next == Add(tp.write_seq, 1)
        nskb == [seq |-> tp.write_seq, end |-> next, fin |-> FALSE, tags |-> {}]
    IN  IF HasSendHead(tp) /\ DataLen(tp.wq[n]) < Mss
        THEN [tp EXCEPT !.wq[n].end = next, !.write_seq = next]
        ELSE [tp EXCEPT !.wq = Append(tp.wq, nskb), !.write_seq = next]

serval_tcp_mark_push(tp) == [tp EXCEPT !.pushed_seq = tp.write_seq]

\* Half the largest window ever offered was written since the last push
forced_push(tp) == after(tp.write_seq, Add(tp.pushed_seq, tp.max_window \div 2))

\* A buffer has filled up and the caller has more to write
BufferFull(tp) ==
    IF forced_push(tp) THEN serval_tcp_push_pending_frames(serval_tcp_mark_push(tp), TRUE)
    ELSE IF tp.nsent + 1 = Len(tp.wq) THEN serval_tcp_push_one(tp) ELSE tp

serval_tcp_push(tp) ==
    IF HasSendHead(tp) THEN serval_tcp_push_pending_frames(serval_tcp_mark_push(tp), FALSE)
    ELSE tp

\* One turn of the copying loop, for a unit that is the last one or not
CopyUnit(tp, last) ==
    IF last \/ DataLen(Last(tp.wq)) < Mss THEN tp ELSE BufferFull(tp)

\* len units written by one call; what is left is pushed under Nagle's rule
serval_tcp_sendmsg(tp, len) ==
    LET copy(t, i) == CopyUnit(skb_entail(t), i = len)
    IN  serval_tcp_push(FoldLeft(copy, tp, [i \in 1..len |-> i]))

serval_tcp_connect_init(tp) ==
    [tp EXCEPT !.snd_wnd = 0, !.snd_una = tp.write_seq, !.snd_sml = tp.write_seq,
               !.max_window = 0, !.retransmits = 0]

serval_tcp_connection_build_syn(tp, isn) ==
    [serval_tcp_connect_init([tp EXCEPT !.write_seq = isn])
        EXCEPT !.state = "REQUEST", !.snd_nxt = Add(isn, 1), !.write_seq = Add(isn, 1),
               !.pushed_seq = Add(isn, 1)]

\* The descriptor is closed; what was unread is lost, here nothing is
serval_tcp_connection_close(tp) == serval_tcp_send_fin(tp)

\* The SYN-ACK acknowledges the SYN and opens the window
serval_tcp_syn_sent_state_process(tp, ack, win) ==
    IF ack # tp.snd_nxt THEN tp
    ELSE [serval_tcp_ack(tp, ack, win) EXCEPT !.state = "CONNECTED",
                                              !.snd_wnd = win, !.cwnd = InitCwnd]
=============================================================================
