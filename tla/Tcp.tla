-------------------------------- MODULE Tcp --------------------------------
(***************************************************************************)
(* A stream connection: one writer, one reader and the network between.    *)
(* Each action is one entry into the transport of one end: a socket call,  *)
(* a segment from the SAL, a timer, or a notification of the SAL about a   *)
(* migration.  The network loses, duplicates and reorders, within budgets; *)
(* a channel that is full drops.  The handshake segments ride on SAL       *)
(* control packets, which the SAL resends until they arrive.               *)
(***************************************************************************)
EXTENDS TcpSender, TcpReceiver

CONSTANTS
    Writes,       \* sizes of the calls to sendmsg
    Reads,        \* sizes of the calls to recvmsg
    MaxUnits,     \* units written in all (bound)
    ChanCap,      \* segments one direction of the network holds (bound)
    MaxFaults     \* faults of the network and the hosts, early timeouts and
                  \* migrations, taken together (bound)

ASSUME TcpAssumption ==
    /\ Writes \subseteq Nat \ {0} /\ Reads \subseteq Nat \ {0}
    /\ MaxUnits \in Nat /\ 2 * (MaxUnits + 2) < SeqSpace
    /\ ChanCap \in Nat \ {0} /\ MaxFaults \in Nat

VARIABLES
    hs,        \* the handshake segment on its way
    net,       \* segments to the reader's end
    acks,      \* ACKs to the writer's end
    written,   \* units handed to sendmsg
    closed,    \* the writer has shut down its side
    frozen,    \* the flow is between two interfaces
    budget     \* faults and migrations still to come

vars == <<snd, rcv, hs, net, acks, written, closed, frozen, budget>>

Init ==
    /\ snd = SndInit /\ rcv = RcvInit
    /\ hs = "none" /\ net = <<>> /\ acks = <<>>
    /\ written = 0 /\ closed = FALSE /\ frozen = FALSE
    /\ budget = MaxFaults

Spend == budget > 0 /\ budget' = budget - 1

\* A step that counts as a fault only in the case given
Charge(fault) == IF fault THEN Spend ELSE UNCHANGED budget

\* A channel after more segments were sent: the excess is dropped
Put(chan, more) == SubSeq(chan \o more, 1, min(Len(chan \o more), ChanCap))

\* A handler of the sender: h is its effect on the socket
SndDone(h) ==
    /\ snd' = [h EXCEPT !.out = <<>>, !.rc = 0, !.xmit = "ok", !.idle = FALSE]
    /\ net' = Put(net, h.out)

\* The handler meets a failing layer below, or a connection idle for an rto
Troubles == {[snd EXCEPT !.xmit = x] : x \in XmitResults \ {"ok"}}
              \cup (IF snd.packets_out = 0 THEN {[snd EXCEPT !.idle = TRUE]} ELSE {})

RcvDone(h) ==
    /\ rcv' = [h EXCEPT !.out = <<>>, !.mem = "ok"]
    /\ acks' = Put(acks, h.out)

Shortages == {[rcv EXCEPT !.mem = m] : m \in MemStates \ {"ok"}}

-----------------------------------------------------------------------------
\* Connection set-up

Connect ==
    /\ hs = "none"
    /\ \E isn \in Isns : snd' = serval_tcp_connection_build_syn(snd, isn)
    /\ hs' = "syn"
    /\ UNCHANGED <<rcv, net, acks, written, closed, frozen, budget>>

\* The SYN makes a request, its SYN-ACK chooses the window, the child is made
\* with the ACK but not used before
ConnectionRequest ==
    /\ hs = "syn"
    /\ rcv' = serval_tcp_create_openreq_child(rcv,
                 serval_tcp_connection_build_synack(
                     serval_tcp_connection_request(snd.snd_una)))
    /\ hs' = "synack"
    /\ UNCHANGED <<snd, net, acks, written, closed, frozen, budget>>

SynSent ==
    /\ hs = "synack"
    /\ snd' = serval_tcp_syn_sent_state_process(snd, rcv.rcv_nxt, rcv.rcv_wnd)
    /\ hs' = "ack"
    /\ UNCHANGED <<rcv, net, acks, written, closed, frozen, budget>>

SynRecv ==
    /\ hs = "ack"
    /\ rcv' = serval_tcp_syn_recv_state_process(rcv)
    /\ hs' = "done"
    /\ UNCHANGED <<snd, net, acks, written, closed, frozen, budget>>

-----------------------------------------------------------------------------
\* The writer's end

AppWrite ==
    /\ snd.state = "CONNECTED" /\ ~closed
    /\ \E n \in Writes :
          /\ written + n <= MaxUnits
          /\ written' = written + n
          /\ \E tp \in {snd} \cup Troubles :
                Charge(tp # snd) /\ SndDone(serval_tcp_sendmsg(tp, n))
    /\ UNCHANGED <<rcv, hs, acks, closed, frozen>>

AppClose ==
    /\ snd.state = "CONNECTED" /\ ~closed
    /\ closed' = TRUE
    /\ SndDone(serval_tcp_connection_close(snd))
    /\ UNCHANGED <<rcv, hs, acks, written, frozen, budget>>

RecvAck ==
    /\ acks # <<>>
    /\ acks' = Tail(acks)
    /\ LET a == Head(acks)
       IN  IF snd.state # "CONNECTED" THEN UNCHANGED <<snd, net, budget>>
           ELSE \E tp \in {snd} \cup Troubles :
                    Charge(tp # snd) /\ SndDone(serval_tcp_rcv_ack(tp, a.ack, a.win))
    /\ UNCHANGED <<rcv, hs, written, closed, frozen>>

WriteTimer ==
    /\ snd.state = "CONNECTED" /\ snd.pending # "none"
    /\ \E tp \in {snd} \cup Troubles :
          /\ Charge(tp # snd \/ net # <<>> \/ acks # <<>> \/ rcv.dack)
          /\ SndDone(serval_tcp_write_timer(tp))
    /\ UNCHANGED <<rcv, hs, acks, written, closed, frozen>>

-----------------------------------------------------------------------------
\* The reader's end

RecvSegment ==
    /\ net # <<>>
    /\ net' = Tail(net)
    /\ IF rcv.state \in {"CONNECTED", "CLOSEWAIT"}
       THEN \E tp \in {rcv} \cup Shortages :
                Charge(tp # rcv) /\ RcvDone(serval_tcp_rcv(tp, Head(net)))
       ELSE UNCHANGED <<rcv, acks, budget>>
    /\ UNCHANGED <<snd, hs, written, closed, frozen>>

DelackTimer ==
    /\ rcv.dack
    /\ RcvDone(serval_tcp_delack_timer(rcv))
    /\ UNCHANGED <<snd, hs, net, written, closed, frozen, budget>>

AppRead ==
    /\ rcv.state \in {"CONNECTED", "CLOSEWAIT"} /\ rcv.reader = "idle" /\ ~rcv.eof
    /\ \E n \in Reads, tp \in DelackLocked(rcv) :
          \E h \in DelackLocked(serval_tcp_recvmsg(tp, n, 0)) : RcvDone(h)
    /\ UNCHANGED <<snd, hs, net, written, closed, frozen, budget>>

ReaderWakes ==
    /\ rcv.reader = "waiting"
    /\ rcv.rq # <<>> \/ rcv.prequeue # <<>> \/ rcv.done
    /\ \E tp \in DelackLocked(rcv) : \E h \in DelackLocked(RecvWake(tp)) : RcvDone(h)
    /\ UNCHANGED <<snd, hs, net, written, closed, frozen, budget>>

\* The writer's SAL sent its FIN once the transport's FIN was acknowledged
RecvSalFin ==
    /\ snd.fin_acked > 0 /\ ~rcv.done
    /\ rcv' = serval_sal_rcv_fin(rcv)
    /\ UNCHANGED <<snd, hs, net, acks, written, closed, frozen, budget>>

-----------------------------------------------------------------------------
\* Migration and the network

\* The interface goes away, with or without what was under way
Freeze ==
    /\ snd.state = "CONNECTED" /\ ~frozen /\ Spend
    /\ frozen' = TRUE
    /\ snd' = serval_tcp_freeze_flow(snd)
    /\ \/ net' = <<>> /\ acks' = <<>>
       \/ UNCHANGED <<net, acks>>
    /\ UNCHANGED <<rcv, hs, written, closed>>

MigrationCompleted ==
    /\ snd.state = "CONNECTED" /\ frozen
    /\ frozen' = FALSE
    /\ SndDone(serval_tcp_migration_completed(snd))
    /\ UNCHANGED <<rcv, hs, acks, written, closed, budget>>

Swap(chan) == <<chan[2], chan[1]>> \o SubSeq(chan, 3, Len(chan))

Lose ==
    /\ Spend
    /\ \/ net # <<>> /\ net' = Tail(net) /\ UNCHANGED acks
       \/ acks # <<>> /\ acks' = Tail(acks) /\ UNCHANGED net
    /\ UNCHANGED <<snd, rcv, hs, written, closed, frozen>>

Reorder ==
    /\ Spend
    /\ \/ Len(net) > 1 /\ net' = Swap(net) /\ UNCHANGED acks
       \/ Len(acks) > 1 /\ acks' = Swap(acks) /\ UNCHANGED net
    /\ UNCHANGED <<snd, rcv, hs, written, closed, frozen>>

Duplicate ==
    /\ Spend
    /\ \/ net # <<>> /\ net' = Put(net, <<Head(net)>>) /\ UNCHANGED acks
       \/ acks # <<>> /\ acks' = Put(acks, <<Head(acks)>>) /\ UNCHANGED net
    /\ UNCHANGED <<snd, rcv, hs, written, closed, frozen>>

\* Nothing is left to do: the reader saw the end, or the writer gave up
Finished ==
    /\ rcv.eof \/ (snd.state = "CLOSE" /\ hs # "none")
    /\ UNCHANGED vars

Next ==
    \/ Connect \/ ConnectionRequest \/ SynSent \/ SynRecv
    \/ AppWrite \/ AppClose \/ RecvAck \/ WriteTimer
    \/ RecvSegment \/ DelackTimer \/ AppRead \/ ReaderWakes \/ RecvSalFin
    \/ Freeze \/ MigrationCompleted
    \/ Lose \/ Reorder \/ Duplicate
    \/ Finished

Spec == Init /\ [][Next]_vars

\* What the scheduling of the two hosts grants: they do not both stop while a
\* packet is under way, a timer is due or a migration is to be completed (a
\* timer is due when nothing under way can make it superfluous); and a reader
\* that can go on does
TimerDue ==
    /\ snd.state = "CONNECTED" /\ snd.pending # "none"
    /\ net = <<>> /\ acks = <<>> /\ ~rcv.dack

HostReady ==
    \/ hs \in {"syn", "synack", "ack"}
    \/ net # <<>> \/ acks # <<>> \/ rcv.dack \/ TimerDue
    \/ snd.fin_acked > 0 /\ ~rcv.done

ReaderReady ==
    \/ rcv.state \in {"CONNECTED", "CLOSEWAIT"} /\ rcv.reader = "idle" /\ ~rcv.eof
    \/ /\ rcv.reader = "waiting"
       /\ rcv.rq # <<>> \/ rcv.prequeue # <<>> \/ rcv.done

ReaderView == <<rcv.reader, rcv.delivered, rcv.eof>>

Fairness ==
    /\ []<>~(HostReady \/ frozen) \/ []<><<TRUE>>_vars
    /\ []<>~ReaderReady \/ []<><<ReaderView' # ReaderView>>_vars

FairSpec == Spec /\ Fairness

-----------------------------------------------------------------------------
\* Properties

SkbOK(skb) == skb.seq \in SeqNo /\ skb.end \in SeqNo /\ skb.fin \in BOOLEAN

\* Fields stay in their ranges; queues hold well-formed buffers
TypeOK ==
    /\ snd.ca_state \in CaStates /\ snd.pending \in {"none", "RETRANS", "PROBE0"}
    /\ snd.nsent \in 0..Len(snd.wq)
    /\ \A i \in DOMAIN snd.wq : SkbOK(snd.wq[i]) /\ snd.wq[i].tags \subseteq Tags
    /\ \A skb \in Range(rcv.rq \o rcv.ofo \o rcv.prequeue \o net) : SkbOK(skb)
    /\ {snd.snd_una, snd.snd_nxt, snd.write_seq, rcv.rcv_nxt, rcv.copied_seq}
           \subseteq SeqNo
    /\ {snd.sacked_out, snd.lost_out, snd.retrans_out, snd.cwnd_cnt} \subseteq Nat
    /\ snd.cwnd \in Nat \ {0} /\ snd.ssthresh \in Nat
    /\ rcv.rcv_wnd \in 0..RcvBuf /\ rcv.quick \in Nat

\* The counters of the retransmission machine agree with the tags on the
\* buffers, no more packets are called left than are out (what
\* serval_tcp_verify_left_out warns about), the hints point at buffers that
\* were sent, and nothing counts as resent in state Open (the WARN_ON of
\* serval_tcp_fastretrans_alert)
CountersAgree ==
    LET tagged(tag) == Cardinality({i \in 1..snd.nsent : tag \in snd.wq[i].tags})
    IN  /\ snd.packets_out = snd.nsent
        /\ snd.retrans_out = tagged("SACKED_RETRANS")
        /\ snd.lost_out = tagged("LOST")
        /\ serval_tcp_left_out(snd) <= snd.packets_out
        /\ {snd.retransmit_hint, snd.lost_hint} \subseteq 0..snd.nsent
        /\ snd.ca_state = "Open" => snd.retrans_out = 0

\* A connected flow that has something to send or to have acknowledged always
\* has its timer armed, unless it is frozen by a migration
NoStall ==
    snd.state = "CONNECTED" /\ ~frozen /\ (snd.packets_out > 0 \/ HasSendHead(snd))
        => snd.pending # "none"

\* Nothing is acknowledged that is not held for the reader: the receive queue
\* covers all from copied_seq to rcv_nxt, and snd_una is not beyond it
AckedIsHeld ==
    LET held == {s \in SeqNo : \E skb \in Range(rcv.rq) :
                                   ~before(s, skb.seq) /\ before(s, skb.end)}
    IN  hs = "done" =>
          /\ \A a \in Range(acks) : ~after(a.ack, rcv.rcv_nxt)
          /\ ~after(snd.snd_una, rcv.rcv_nxt)
          /\ \A s \in SeqNo : ~before(s, rcv.copied_seq) /\ before(s, rcv.rcv_nxt)
                                 => s \in held

\* The out-of-order queue is sorted, lies beyond rcv_nxt, and no segment in it
\* is covered by its neighbour, whatever was inserted, drained or collapsed;
\* header prediction is off while it holds anything
OfoSorted ==
    /\ rcv.pred => rcv.ofo = <<>>
    /\ \A i \in DOMAIN rcv.ofo :
          /\ after(rcv.ofo[i].seq, rcv.rcv_nxt)
          /\ i > 1 => /\ after(rcv.ofo[i].seq, rcv.ofo[i - 1].seq)
                      /\ after(rcv.ofo[i].end, rcv.ofo[i - 1].end)

\* Sender's counters and tags, receiver's queues and what was acknowledged
\* agree after every step of either (serval_tcp_clean_rtx_queue,
\* serval_tcp_data_queue, serval_tcp_collapse)
QueuesConsistent == TypeOK /\ CountersAgree /\ AckedIsHeld /\ OfoSorted

\* What poll and SIOCINQ tell is what recvmsg does: as many units as SIOCINQ
\* counts are read without waiting, and with POLLIN the call waits only for
\* the SAL's FIN after the transport's
PollTells ==
    LET done == serval_tcp_recvmsg(rcv, RcvBuf + 1, 0)
    IN  rcv.reader = "idle" /\ rcv.state \in {"CONNECTED", "CLOSEWAIT"} =>
          /\ Len(done.delivered) - Len(rcv.delivered) = serval_tcp_ioctl(rcv)
          /\ done.reader = "idle" => serval_tcp_poll(rcv)
          /\ serval_tcp_poll(rcv) => done.reader = "idle" \/ done.fin_found

\* The SAL's FIN is sent once, and only after all data and the FIN arrived
SalFinLast ==
    /\ snd.fin_acked <= 1
    /\ snd.fin_acked = 1 => closed /\ rcv.rcv_nxt = snd.write_seq

\* The connection implements the stream its users see
Stream == INSTANCE TcpStream WITH delivered <- rcv.delivered, eof <- rcv.eof

StreamKept == Stream!Spec

\* A stream that was closed is read to its end, unless the writer gave up
ReadToTheEnd == closed ~> rcv.eof \/ snd.state = "CLOSE"
=============================================================================
