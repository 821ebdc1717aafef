---------------------------- MODULE TcpReceiver ----------------------------
(***************************************************************************)
(* The receiving half of the stream transport: the out-of-order, receive   *)
(* and pre-queues, the offered window, delayed and quick ACKs, and the     *)
(* reader in recvmsg (serval_tcp_input.c, serval_tcp_output.c,             *)
(* serval_tcp_timer.c, serval_tcp.c).                                      *)
(*                                                                         *)
(* The socket is the record rcv, each C function the operator of the same  *)
(* name.  A unit of data is known by its distance from the first one, so   *)
(* "delivered" is the stream as the reader saw it.  ACKs handed down are   *)
(* collected in "out".  Packets that meet a locked socket wait in the      *)
(* backlog until it is released and so are handled after the call that     *)
(* holds the lock; memory is counted in units of data.                     *)
(***************************************************************************)
EXTENDS TcpSeq, FiniteSets, SequencesExt

CONSTANT RcvBuf     \* units of receive buffer; also window_clamp

ASSUME ReceiverAssumption ==
    RcvBuf \in Nat \ {0} /\ 2 * RcvBuf < SeqSpace

VARIABLE rcv

\* Receive memory: there is room; enough once the queues are collapsed; enough
\* once the out-of-order queue is emptied; none.  "noack": no buffer for an ACK.
MemStates == {"ok", "bloated", "tight", "full", "noack"}

\* serval_tcp_init_sock
RcvInit ==
    [state |-> "LISTEN", base |-> 0, rcv_nxt |-> 0, copied_seq |-> 0,
     rcv_wup |-> 0, rcv_wnd |-> 0, rcv_ssthresh |-> 0, rq |-> <<>>,
     ofo |-> <<>>, prequeue |-> <<>>, quick |-> 0, ato |-> FALSE,
     sched |-> FALSE, dack |-> FALSE, pushed |-> FALSE, blocked |-> FALSE, reader |-> "idle", ucopy_len |-> 0,
     pred |-> FALSE,
     fin_found |-> FALSE, done |-> FALSE, delivered |-> <<>>, eof |-> FALSE,
     mem |-> "ok", out |-> <<>>]

-----------------------------------------------------------------------------
\* The window

UnitsIn(queue) == FoldLeft(LAMBDA n, skb : n + DataLen(skb), 0, queue)

serval_tcp_space(tp) == RcvBuf - UnitsIn(tp.rq) - UnitsIn(tp.ofo)

\* rcv_wup + rcv_wnd - rcv_nxt, zero when negative
serval_tcp_receive_window(tp) ==
    LET edge == Add(tp.rcv_wup, tp.rcv_wnd)
    IN  IF before(edge, tp.rcv_nxt) THEN 0 ELSE Sub(edge, tp.rcv_nxt)

\* The window "free" units allow, kept a multiple of the segment size
WindowFor(tp, space, free) ==
    LET mss == min(Mss, RcvBuf)
        half == RcvBuf \div 2
    IN  IF space < half /\ space < mss THEN 0
        ELSE IF tp.rcv_wnd <= free - mss \/ tp.rcv_wnd > free
        THEN (free \div mss) * mss
        ELSE IF mss = RcvBuf /\ free > tp.rcv_wnd + half THEN free
        ELSE tp.rcv_wnd

__serval_tcp_select_window(tp) ==
    WindowFor(tp, serval_tcp_space(tp), min(serval_tcp_space(tp), tp.rcv_ssthresh))

\* Never below what was offered before
serval_tcp_select_window(tp) ==
    LET cur == serval_tcp_receive_window(tp)
        new == max(__serval_tcp_select_window(tp), cur)
        low == serval_tcp_space(tp) < RcvBuf \div 2
    IN  [tp EXCEPT !.rcv_wnd = new, !.rcv_wup = tp.rcv_nxt,
                   !.quick = IF low THEN 0 ELSE @, !.pred = @ /\ new > 0]

-----------------------------------------------------------------------------
\* Sending and delaying ACKs

serval_tsk_schedule_ack(tp) == [tp EXCEPT !.sched = TRUE]

serval_tcp_incr_quickack(tp) ==
    LET quickacks == tp.rcv_wnd \div (2 * Mss)
    IN  [tp EXCEPT !.quick = max(@, IF quickacks = 0 THEN 2 ELSE min(quickacks, 16))]

serval_tcp_enter_quickack_mode(tp) ==
    [serval_tcp_incr_quickack(tp) EXCEPT !.ato = TRUE]

serval_tcp_event_ack_sent(tp) ==
    [tp EXCEPT !.out = Append(@, [ack |-> tp.rcv_nxt, win |-> tp.rcv_wnd]),
               !.quick = max(0, tp.quick - 1),
               !.sched = FALSE, !.dack = FALSE, !.pushed = FALSE, !.blocked = FALSE]

\* Without memory the ACK is left to the delayed-ACK timer
serval_tcp_send_ack(tp) ==
    IF tp.state = "CLOSE" THEN tp
    ELSE IF tp.mem = "noack"
    THEN [tp EXCEPT !.sched = TRUE, !.dack = TRUE, !.ato = TRUE]
    ELSE serval_tcp_event_ack_sent(serval_tcp_select_window(tp))

\* A running timer that met a locked socket, or is about to expire, has the
\* ACK sent at once.  Here a running timer is never about to expire.
serval_tcp_send_delayed_ack(tp) ==
    IF tp.dack /\ tp.blocked THEN serval_tcp_send_ack(tp)
    ELSE [tp EXCEPT !.sched = TRUE, !.dack = TRUE]

__serval_tcp_ack_snd_check(tp) ==
    LET two == /\ Sub(tp.rcv_nxt, tp.rcv_wup) > Mss
               /\ __serval_tcp_select_window(tp) >= tp.rcv_wnd
    IN  IF two \/ tp.quick # 0 \/ tp.ofo # <<>> THEN serval_tcp_send_ack(tp)
        ELSE serval_tcp_send_delayed_ack(tp)

serval_tcp_ack_snd_check(tp) ==
    IF tp.sched THEN __serval_tcp_ack_snd_check(tp) ELSE tp

serval_tcp_send_dupack(tp, skb) ==
    serval_tcp_send_ack(
        IF skb.end # skb.seq /\ before(skb.seq, tp.rcv_nxt)
        THEN serval_tcp_enter_quickack_mode(tp) ELSE tp)

\* rcv_ssthresh grows while there is more room than it allows for
serval_tcp_grow_window(tp) ==
    IF tp.rcv_ssthresh < RcvBuf /\ tp.rcv_ssthresh < serval_tcp_space(tp)
    THEN [tp EXCEPT !.rcv_ssthresh = min(RcvBuf, @ + 2 * Mss),
                    !.quick = IF @ % 2 = 0 THEN @ + 1 ELSE @]
    ELSE tp

\* A segment that is not full was pushed; rcv_mss is Mss throughout.  This end
\* sends no data and so is never in pingpong mode: STSK_ACK_PUSHED does all
\* that STSK_ACK_PUSHED2 would
serval_tcp_measure_rcv_mss(tp, skb) ==
    [tp EXCEPT !.pushed = @ \/ DataLen(skb) < Mss]

\* Only a first data packet primes the delayed-ACK engine
serval_tcp_event_data_recv(tp, skb) ==
    LET seen == serval_tcp_measure_rcv_mss(serval_tsk_schedule_ack(tp), skb)
    IN  serval_tcp_grow_window(
            [(IF seen.ato THEN seen ELSE serval_tcp_incr_quickack(seen))
                EXCEPT !.ato = TRUE])

-----------------------------------------------------------------------------
\* Queues

\* The FIN ends the stream: nothing may follow it
serval_tcp_fin(tp) == [tp EXCEPT !.sched = TRUE, !.ofo = <<>>]

\* Mutant: a gap does not stop the loop.
MutGapSkipped(st, skb) ==
    [st EXCEPT !.tp.rq = Append(@, skb), !.tp.rcv_nxt = skb.end,
               !.tp.sched = @ \/ skb.fin, !.fin = skb.fin]

\* One buffer of the loop of serval_tcp_ofo_queue; "go" while no gap was met
OfoStep(st, skb) ==
    IF ~st.go \/ after(skb.seq, st.tp.rcv_nxt)
    THEN [st EXCEPT !.go = FALSE, !.rest = Append(@, skb)]
    ELSE IF st.fin \/ ~after(skb.end, st.tp.rcv_nxt) THEN st
    ELSE [st EXCEPT !.tp.rq = Append(@, skb), !.tp.rcv_nxt = skb.end,
                    !.tp.sched = @ \/ skb.fin, !.fin = skb.fin]

serval_tcp_ofo_queue(tp) ==
    LET st == FoldLeft(OfoStep,
                       [tp |-> tp, rest |-> <<>>, go |-> TRUE, fin |-> FALSE],
                       tp.ofo)
    IN  [st.tp EXCEPT !.ofo = IF st.fin THEN <<>> ELSE st.rest]

\* Mutant: only the first buffer is copied.
MutCollapseFirst(list, start) == <<[list[1] EXCEPT !.seq = start]>>

\* The buffers before the first FIN are copied into one that begins at start
serval_tcp_collapse(list, start) ==
    LET n == Cardinality({i \in DOMAIN list : \A j \in 1..i : ~list[j].fin})
    IN  IF n = 0 THEN list
        ELSE <<[seq |-> start, end |-> list[n].end, fin |-> FALSE]>>
               \o SubSeq(list, n + 1, Len(list))

\* One buffer of the walk over the out-of-order queue: a gap ends the run of
\* buffers that collapse together
CollapseStep(st, skb) ==
    IF st.run # <<>> /\ after(skb.seq, st.run[Len(st.run)].end)
    THEN [done |-> st.done \o serval_tcp_collapse(st.run, st.run[1].seq),
          run |-> <<skb>>]
    ELSE [st EXCEPT !.run = Append(@, skb)]

serval_tcp_collapse_ofo_queue(tp) ==
    LET last(st) == IF st.run = <<>> THEN <<>>
                    ELSE st.done \o serval_tcp_collapse(st.run, st.run[1].seq)
    IN  [tp EXCEPT !.ofo = last(FoldLeft(CollapseStep, [done |-> <<>>, run |-> <<>>], @))]

serval_tcp_prune_ofo_queue(tp) == [tp EXCEPT !.ofo = <<>>]

serval_tcp_clamp_window(tp) ==
    [tp EXCEPT !.quick = 0, !.rcv_ssthresh = min(RcvBuf, 2 * Mss)]

\* Collapsing comes first; what it leaves too big costs the early segments
serval_tcp_prune_queue(tp) ==
    LET collapsed(t) == [t EXCEPT !.rq = IF @ = <<>> THEN @
                                         ELSE serval_tcp_collapse(@, t.copied_seq)]
        small(t) == IF t.mem = "bloated" THEN t
                    ELSE [serval_tcp_prune_ofo_queue(t) EXCEPT
                            !.pred = @ /\ t.mem # "full"]
    IN  small(collapsed(serval_tcp_collapse_ofo_queue(serval_tcp_clamp_window(tp))))

serval_tcp_try_rmem_schedule(tp) ==
    IF tp.mem \in {"bloated", "tight", "full"} THEN serval_tcp_prune_queue(tp) ELSE tp

RmemFails(tp) == tp.mem = "full"

\* Header prediction is on while nothing is out of order and there is room
serval_tcp_fast_path_check(tp) ==
    [tp EXCEPT !.pred = @ \/ (tp.ofo = <<>> /\ tp.rcv_wnd > 0 /\ serval_tcp_space(tp) > 0)]

\* The place of a segment that arrived early: after the last one that does not
\* start behind it, before one it extends; segments it covers are dropped
InsertOfo(ofo, skb) ==
    LET notlater == {j \in DOMAIN ofo : ~after(ofo[j].seq, skb.seq)}
        k == Cardinality(notlater)
        overlap == k > 0 /\ before(skb.seq, ofo[max(k, 1)].end)
        at == IF overlap /\ ~after(skb.seq, ofo[max(k, 1)].seq) THEN k - 1 ELSE k
        covered(j) == after(skb.end, ofo[j].seq) /\ ~before(skb.end, ofo[j].end)
        gone == {j \in at + 1..Len(ofo) : \A i \in at + 1..j : covered(i)}
    IN  IF overlap /\ ~after(skb.end, ofo[max(k, 1)].end) THEN ofo
        ELSE SubSeq(ofo, 1, at) \o <<skb>>
               \o SubSeq(ofo, at + Cardinality(gone) + 1, Len(ofo))

\* Units from, ..., to - 1 as the reader will know them
Units(tp, from, n) == [i \in 1..n |-> Sub(Add(from, i - 1), tp.base)]

\* queue_and_out: the buffer becomes part of the stream
QueueInSequence(tp, skb, eaten) ==
    LET moved == [tp EXCEPT !.rq = IF eaten THEN @ ELSE Append(@, skb),
                            !.rcv_nxt = skb.end]
        seen == IF DataLen(skb) > 0 THEN serval_tcp_event_data_recv(moved, skb) ELSE moved
    IN  serval_tcp_fast_path_check(
            serval_tcp_ofo_queue(IF skb.fin THEN serval_tcp_fin(seen) ELSE seen))

OutOfWindow(tp) == serval_tsk_schedule_ack(serval_tcp_enter_quickack_mode(tp))

\* A segment at rcv_nxt: copied to a reader that owns the socket, else queued
DataInSequence(tp, skb, owned) ==
    LET direct == owned /\ tp.copied_seq = tp.rcv_nxt /\ tp.ucopy_len > 0
        chunk == IF direct THEN min(DataLen(skb), tp.ucopy_len) ELSE 0
        eaten == direct /\ chunk = DataLen(skb) /\ ~skb.fin
        copied == [tp EXCEPT !.ucopy_len = @ - chunk,
                             !.copied_seq = Add(@, chunk),
                             !.delivered = @ \o Units(tp, skb.seq, chunk)]
    IN  IF serval_tcp_receive_window(tp) = 0 THEN OutOfWindow(tp)
        ELSE IF direct THEN QueueInSequence(copied, skb, eaten)
        ELSE IF RmemFails(tp) THEN serval_tcp_try_rmem_schedule(tp)
        ELSE QueueInSequence(serval_tcp_try_rmem_schedule(tp), skb, FALSE)

serval_tcp_data_queue(tp, skb, owned) ==
    LET win == serval_tcp_receive_window(tp)
        quick == serval_tcp_enter_quickack_mode(tp)
        mem == serval_tcp_try_rmem_schedule(quick)
    IN  IF skb.seq = skb.end THEN tp
        ELSE IF skb.seq = tp.rcv_nxt THEN DataInSequence(tp, skb, owned)
        ELSE IF \/ ~after(skb.end, tp.rcv_nxt)
                \/ ~before(skb.seq, Add(tp.rcv_nxt, win))
                \/ before(skb.seq, tp.rcv_nxt) /\ win = 0
        THEN OutOfWindow(tp)
        ELSE IF RmemFails(tp) THEN mem
        ELSE IF before(skb.seq, tp.rcv_nxt) THEN QueueInSequence(mem, skb, FALSE)
        ELSE [mem EXCEPT !.sched = TRUE, !.pred = FALSE, !.ofo = InsertOfo(@, skb)]

-----------------------------------------------------------------------------
\* Segments from the SAL

serval_tcp_sequence(tp, skb) ==
    /\ ~before(skb.end, tp.rcv_wup)
    /\ ~after(skb.seq, Add(tp.rcv_nxt, serval_tcp_receive_window(tp)))

\* The next operators say with "text" whether step 5 is still to come.
\* A segment outside the window is answered and dropped
serval_tcp_validate_incoming(tp, skb) ==
    LET ok == serval_tcp_sequence(tp, skb)
    IN  [text |-> ok, tp |-> IF ok THEN tp ELSE serval_tcp_send_dupack(tp, skb)]

\* The predicted segment: all of it to a reader with room for all of it, or
\* into the receive queue
PredictedSegment(tp, skb, owned) ==
    LET eaten == owned /\ tp.copied_seq = tp.rcv_nxt /\ DataLen(skb) <= tp.ucopy_len
        room == tp.mem \in {"ok", "noack"}
        taken == [tp EXCEPT !.rcv_nxt = skb.end, !.ucopy_len = @ - DataLen(skb),
                            !.copied_seq = skb.end,
                            !.delivered = @ \o Units(tp, skb.seq, DataLen(skb))]
        queued == [tp EXCEPT !.rcv_nxt = skb.end, !.rq = Append(@, skb)]
    IN  [text |-> ~eaten /\ ~room,
         tp |-> IF eaten \/ room
                THEN __serval_tcp_ack_snd_check(
                       serval_tcp_event_data_recv(IF eaten THEN taken ELSE queued, skb))
                ELSE tp]

serval_tcp_rcv_established(tp, skb, owned) ==
    IF tp.pred /\ skb.seq = tp.rcv_nxt /\ ~skb.fin /\ DataLen(skb) > 0
    THEN PredictedSegment(tp, skb, owned)
    ELSE serval_tcp_validate_incoming(tp, skb)

\* Once the SAL has its FIN, new data is no longer queued
serval_tcp_rcv_state_process(tp, skb) ==
    LET checked(v) ==
            IF v.text /\ ~before(skb.seq, v.tp.rcv_nxt)
            THEN [text |-> FALSE, tp |-> serval_tcp_ack_snd_check(v.tp)] ELSE v
    IN  checked(serval_tcp_validate_incoming(tp, skb))

\* Step 5 on: the text of the segment
SegmentText(v, skb, owned) ==
    IF v.text THEN serval_tcp_ack_snd_check(serval_tcp_data_queue(v.tp, skb, owned))
    ELSE v.tp

serval_tcp_do_rcv(tp, skb, owned) ==
    SegmentText(IF tp.state = "CONNECTED"
                THEN serval_tcp_rcv_established(tp, skb, owned)
                ELSE serval_tcp_rcv_state_process(tp, skb),
                skb, owned)

\* Runs the prequeue; the reader does it with the socket owned
serval_tcp_prequeue_process(tp, owned) ==
    FoldLeft(LAMBDA t, skb : serval_tcp_do_rcv(t, skb, owned),
             [tp EXCEPT !.prequeue = <<>>], tp.prequeue)

\* A waiting reader handles its packets itself, unless they are too many
serval_tcp_prequeue(tp, skb) ==
    LET queued == [tp EXCEPT !.prequeue = Append(@, skb)]
    IN  IF UnitsIn(queued.prequeue) > RcvBuf
        THEN serval_tcp_prequeue_process(queued, FALSE)
        ELSE IF Len(queued.prequeue) = 1 /\ ~tp.sched
        THEN [queued EXCEPT !.dack = TRUE]
        ELSE queued

serval_tcp_rcv(tp, skb) ==
    IF tp.reader = "waiting" THEN serval_tcp_prequeue(tp, skb)
    ELSE serval_tcp_do_rcv(tp, skb, FALSE)

serval_tcp_delack_timer(tp) ==
    LET ack(t) == IF t.sched THEN serval_tcp_send_ack(t) ELSE t
    IN  ack(serval_tcp_prequeue_process([tp EXCEPT !.dack = FALSE], FALSE))

\* The timer goes off while a call may hold the socket: it is armed again
DelackLocked(tp) ==
    {tp} \cup (IF tp.dack THEN {[tp EXCEPT !.blocked = TRUE]} ELSE {})

-----------------------------------------------------------------------------
\* The reader

\* ACK or window update after the reader took data: the timer met a locked
\* socket, two segments are not acknowledged, the read emptied the buffer and
\* there was a small segment; or the window has opened
serval_tcp_cleanup_rbuf(tp, copied) ==
    LET late == \/ tp.blocked
                \/ Sub(tp.rcv_nxt, tp.rcv_wup) > Mss
                \/ copied > 0 /\ tp.pushed /\ tp.rq = <<>> /\ tp.ofo = <<>>
        now == serval_tcp_receive_window(tp)
        new == __serval_tcp_select_window(tp)
        raised == /\ copied > 0 /\ ~tp.done
                  /\ 2 * now <= RcvBuf
                  /\ new > 0 /\ new >= 2 * now
    IN  IF (tp.sched /\ late) \/ raised THEN serval_tcp_send_ack(tp) ELSE tp

\* One buffer of the receive queue, as recvmsg walks it; a buffer is freed when
\* all of it is read, the one with the FIN marks the end of the stream
ReadStep(st, skb) ==
    LET tp == st.tp
        offset == Sub(tp.copied_seq, skb.seq)
        used == min(DataLen(skb) - offset, st.len)
        whole == offset + used >= DataLen(skb)
    IN  IF tp.fin_found \/ st.len = 0 \/ before(tp.copied_seq, skb.seq)
        THEN [st EXCEPT !.tp.rq = Append(@, skb)]
        ELSE IF offset >= DataLen(skb)
        THEN IF skb.fin
             THEN [st EXCEPT !.tp.copied_seq = Add(@, 1), !.tp.fin_found = TRUE]
             ELSE [st EXCEPT !.tp.rq = Append(@, skb)]
        ELSE [st EXCEPT
                !.len = @ - used,
                !.tp.delivered = @ \o Units(tp, tp.copied_seq, used),
                !.tp.copied_seq = Add(@, used + (IF whole /\ skb.fin THEN 1 ELSE 0)),
                !.tp.fin_found = whole /\ skb.fin,
                !.tp.rq = IF whole THEN @ ELSE Append(@, skb)]

\* The reader returns with "copied" units and what the prequeue gave it
BackToReader(tp, copied, room) ==
    [serval_tcp_cleanup_rbuf(tp, copied + room - tp.ucopy_len)
        EXCEPT !.reader = "idle", !.ucopy_len = 0, !.eof = @ \/ copied = 0]

\* End of recvmsg: what is left in the prequeue goes to the reader as far as
\* its buffer has room
RecvReturn(tp, len, copied) ==
    LET room == IF copied > 0 THEN len ELSE 0
    IN  BackToReader(serval_tcp_prequeue_process([tp EXCEPT !.ucopy_len = room], TRUE),
                     copied, room)

\* After the walk: with nothing read the call waits, until the SAL has closed
\* the flow
WalkEnds(st, len, already) ==
    IF already + len > st.len \/ st.tp.done
    THEN RecvReturn(st.tp, st.len, already + len - st.len)
    ELSE [serval_tcp_cleanup_rbuf(st.tp, 0)
             EXCEPT !.reader = "waiting", !.ucopy_len = len]

serval_tcp_recvmsg(tp, len, already) ==
    WalkEnds(FoldLeft(ReadStep, [tp |-> [tp EXCEPT !.rq = <<>>], len |-> len], tp.rq),
             len, already)

\* The reader, which has room for "room", wakes: first the prequeue, straight
\* into its buffer, then the receive queue
AfterPrequeue(tp, room) == serval_tcp_recvmsg(tp, tp.ucopy_len, room - tp.ucopy_len)

RecvWake(tp) ==
    AfterPrequeue(IF tp.rcv_nxt = tp.copied_seq
                  THEN serval_tcp_prequeue_process(tp, TRUE) ELSE tp, tp.ucopy_len)

\* POLLIN, and what SIOCINQ answers
serval_tcp_poll(tp) == tp.done \/ Sub(tp.rcv_nxt, tp.copied_seq) >= 1

\* Mutant: the FIN counts as data.
MutInqCountsFin(tp) == Sub(tp.rcv_nxt, tp.copied_seq)

serval_tcp_ioctl(tp) ==
    LET answ == Sub(tp.rcv_nxt, tp.copied_seq)
    IN  IF answ > 0 /\ tp.rq # <<>> /\ tp.rq[Len(tp.rq)].fin THEN answ - 1 ELSE answ

-----------------------------------------------------------------------------
\* Opening and closing

\* A whole number of segments, four at most
serval_tcp_select_initial_window(space) ==
    min(IF space > Mss THEN (space \div Mss) * Mss ELSE space, 4 * Mss)

\* The request remembers the peer's first number; the window is chosen with
\* the SYN-ACK, on the first call only
serval_tcp_connection_request(isn) == [rcv_isn |-> isn, rcv_wnd |-> 0]

serval_tcp_connection_build_synack(req) ==
    IF req.rcv_wnd # 0 THEN req
    ELSE [req EXCEPT !.rcv_wnd = serval_tcp_select_initial_window(RcvBuf)]

serval_tcp_create_openreq_child(tp, req) ==
    LET first == Add(req.rcv_isn, 1)
    IN  [tp EXCEPT !.state = "RESPOND", !.base = first, !.rcv_nxt = first,
                   !.copied_seq = first, !.rcv_wup = first, !.pred = FALSE,
                   !.rcv_wnd = req.rcv_wnd, !.rcv_ssthresh = req.rcv_wnd]

serval_tcp_syn_recv_state_process(tp) ==
    [tp EXCEPT !.state = "CONNECTED", !.copied_seq = tp.rcv_nxt, !.pred = TRUE]

\* The SAL's FIN: no more data, readers may see the end
serval_sal_rcv_fin(tp) == [tp EXCEPT !.state = "CLOSEWAIT", !.done = TRUE]
=============================================================================
