-------------------------------- MODULE Rtt --------------------------------
(***************************************************************************)
(* How long a connection waits before it sends again.  The service access  *)
(* layer (control packets) and the TCP transport (data) each estimate the  *)
(* round trip with their own copy of the same algorithm; a measurement of  *)
(* the transport is handed to the layer below as well.  Only packets sent  *)
(* once are measured, unless the transport has timestamps.  The measured   *)
(* times, the window an acknowledgment falls in and the minimum a route    *)
(* locks are inputs; arithmetic is that of an unsigned Word-valued word.   *)
(* The retransmission timer of the SAL is stopped without waiting for a    *)
(* callback that has begun: such a callback runs later, also without a     *)
(* packet to send.                                                         *)
(***************************************************************************)
EXTENDS Integers

CONSTANTS
    Word,            \* the number of values of a u32
    WordBits,        \* and of its bits
    Byte,            \* the number of values of a u8
    RtoMins,         \* what rto_min may return: the default, routes' locked metrics
    Floor,           \* no member of RtoMins is below it
    RTO_MAX,         \* SAL_RTO_MAX, SERVAL_TCP_RTO_MAX
    TIMEOUT_INIT,    \* SAL_TIMEOUT_INIT, SERVAL_TCP_TIMEOUT_INIT
    Rtts,            \* the round trips that are measured
    MaxRtt,          \* none of them is longer
    MaxRetransmits,  \* sysctl_sal_max_retransmits
    Packets          \* for the retransmissions of so many packets in a row a
                     \* word has room (1 with the code's numbers); pkts stops there

ASSUME RttAssumption ==
    /\ Word \in Nat /\ Floor \in Nat /\ RTO_MAX \in Nat /\ TIMEOUT_INIT \in Nat
    /\ MaxRtt \in Nat \ {0} /\ MaxRetransmits \in Nat /\ Packets \in Nat
    /\ WordBits \in Nat \ {0} /\ Byte \in Nat \ {0}
    /\ Rtts \subseteq 0..MaxRtt
    /\ Floor < TIMEOUT_INIT
    /\ TIMEOUT_INIT <= RTO_MAX /\ 2 * RTO_MAX < Word /\ 12 * MaxRtt < Word
    /\ Packets * MaxRetransmits < WordBits
    /\ \A b \in 0..Packets * MaxRetransmits : 2^b \in Nat \ {0} /\ RTO_MAX * 2^b < Word
    /\ RtoMins \subseteq Nat
    /\ \A lo \in RtoMins : Floor <= lo /\ 8 * MaxRtt + lo < Word

VARIABLES
    est,          \* of each layer: srtt, mdev, mdev_max, rttvar and rto
    queue,        \* of each layer: what the retransmission timer runs for
    backoff,      \* of the SAL, a u8
    retransmits,  \* of the SAL's control packet
    wait,         \* for how long the SAL's timer was set last, 0 once it is stopped
    timer,        \* "off", "on", or "late": stopped, but the callback waits for the lock
    pkts          \* history: control packets that left the queue since a measurement
                  \* that found, or left, no packet waiting

vars == <<est, queue, backoff, retransmits, wait, timer, pkts>>

Layers == {"sal", "tcp"}

U32(x) == x % Word
max(a, b) == IF a < b THEN b ELSE a
min(a, b) == IF a < b THEN a ELSE b

----------------------------------------------------------------------------
(* The estimator *)

\* Mutant: the first deviation is not raised to the minimum.
MutFirstMeasure(e, m, lo) ==
    [srtt |-> U32(8 * m), mdev |-> U32(2 * m), mdev_max |-> U32(2 * m),
     rttvar |-> U32(2 * m), rto |-> e.rto]

\* No previous measure: take the measured time to be the round trip
FirstMeasure(e, m, lo) ==
    LET var == max(U32(2 * m), lo)
    IN  [srtt |-> U32(8 * m), mdev |-> U32(2 * m), mdev_max |-> var, rttvar |-> var,
         rto |-> e.rto]

\* The error in the estimate
ErrorOf(e, m) == m - e.srtt \div 8

\* srtt moves by the error, mdev by a share of it: a finer one when the
\* round trip got shorter
Smoothed(e, err) ==
    LET rest == (IF err < 0 THEN -err ELSE err) - e.mdev \div 4
        gain == IF err < 0 /\ rest > 0 THEN rest \div 8 ELSE rest
        mdev == U32(e.mdev + gain)
    IN  [srtt |-> U32(e.srtt + err), mdev |-> mdev, mdev_max |-> max(mdev, e.mdev_max),
         rttvar |-> IF mdev > e.mdev_max THEN max(mdev, e.rttvar) ELSE e.rttvar,
         rto |-> e.rto]

\* Once a round trip (past: una is after rtt_seq) the variance may shrink
NextRound(e, past, lo) ==
    IF past
    THEN [srtt |-> e.srtt, mdev |-> e.mdev, mdev_max |-> lo,
          rttvar |-> IF e.mdev_max < e.rttvar
                     THEN e.rttvar - (e.rttvar - e.mdev_max) \div 4 ELSE e.rttvar,
          rto |-> e.rto]
    ELSE e

serval_sal_rtt_estimator(e, mrtt, past, lo) ==
    LET m == IF mrtt = 0 THEN 1 ELSE mrtt
    IN  IF e.srtt # 0 THEN NextRound(Smoothed(e, ErrorOf(e, m)), past, lo)
        ELSE FirstMeasure(e, m, lo)

\* The transport's copy
serval_tcp_rtt_estimator(e, mrtt, past, lo) == serval_sal_rtt_estimator(e, mrtt, past, lo)

serval_sal_bound_rto(rto) == min(rto, RTO_MAX)
serval_tcp_bound_rto(rto) == min(rto, RTO_MAX)

serval_sal_calc_rto(e) == U32(e.srtt \div 8 + e.rttvar)
serval_tcp_calc_rto(e) == U32(e.srtt \div 8 + e.rttvar)

serval_sal_set_rto(e) == [e EXCEPT !.rto = serval_sal_bound_rto(serval_sal_calc_rto(e))]
serval_tcp_set_rto(e) == [e EXCEPT !.rto = serval_tcp_bound_rto(serval_tcp_calc_rto(e))]

\* What it and serval_tcp_rto_min return: the default, or
\* what the route of the moment has locked
serval_sal_rto_min == RtoMins

\* A measurement: its time, whose layer's acknowledgment is past rtt_seq, and
\* the minimum of the route
Samples == [rtt : Rtts, past : [Layers -> BOOLEAN], lo : serval_sal_rto_min]

serval_sal_update_rtt(s) ==
    serval_sal_set_rto(serval_sal_rtt_estimator(est.sal, s.rtt, s.past.sal, s.lo))

\* The transport's measurement also goes to the SAL
serval_tcp_valid_rtt_meas(s) ==
    /\ est' = [sal |-> serval_sal_update_rtt(s),
               tcp |-> serval_tcp_set_rto(
                          serval_tcp_rtt_estimator(est.tcp, s.rtt, s.past.tcp, s.lo))]
    /\ backoff' = 0

\* rto << b.  A shift by the width of the word or more is undefined: the
\* machine shifts everything out, or takes the count modulo the width
Shifted(rto, b) ==
    IF b < WordBits THEN {U32(rto * 2^b)} ELSE {0, U32(rto * 2^(b % WordBits))}

----------------------------------------------------------------------------
(* Control packets *)

Unacked == queue.sal \in {"sent", "resent"}

serval_sock_reset_xmit_timer(w) ==
    /\ timer' = "on"
    /\ wait' = min(w, RTO_MAX)

\* The callback may have begun and wait for the lock
serval_sock_clear_xmit_timer ==
    /\ timer' \in IF timer = "off" THEN {"off"} ELSE {"off", "late"}
    /\ wait' = 0

OneMore == min(pkts + 1, Packets)

\* A new control packet takes the place of an unacknowledged one, whose flag
\* of having been resent it inherits and whose retransmissions no longer
\* count; the backoff stays, the wait does not
serval_sal_queue_and_push ==
    /\ queue.sal # "done"
    /\ queue' = [queue EXCEPT !.sal = IF @ = "resent" THEN "resent" ELSE "sent"]
    /\ retransmits' = IF Unacked THEN 0 ELSE retransmits
    /\ pkts' = IF Unacked THEN OneMore ELSE pkts
    /\ serval_sock_reset_xmit_timer(est.sal.rto)
    /\ UNCHANGED <<est, backoff>>

\* The head of the queue, and with it the whole queue, goes
Unqueued ==
    /\ queue' = [queue EXCEPT !.sal = "none"]
    /\ retransmits' = 0
    /\ serval_sock_clear_xmit_timer

\* Mutant: a measurement leaves the backoff as it is.
MutKeepsBackoff ==
    /\ Unacked
    /\ \/ /\ queue.sal = "sent"
          /\ \E s \in Samples : est' = [est EXCEPT !.sal = serval_sal_update_rtt(s)]
          /\ pkts' = 0
          /\ Unqueued
          /\ UNCHANGED backoff
       \/ /\ pkts' = OneMore
          /\ Unqueued
          /\ UNCHANGED <<est, backoff>>

\* The packet is acknowledged and, when it was sent once, measured; or it goes
\* unmeasured, as one that was resent or with 'all' (an acknowledgment in a
\* migration); or the acknowledgment is not for it, and its wait starts anew
serval_sal_clean_rtx_queue ==
    /\ Unacked
    /\ \/ /\ queue.sal = "sent"
          /\ \E s \in Samples : est' = [est EXCEPT !.sal = serval_sal_update_rtt(s)]
          /\ backoff' = 0
          /\ pkts' = 0
          /\ Unqueued
       \/ /\ pkts' = OneMore
          /\ Unqueued
          /\ UNCHANGED <<est, backoff>>
       \/ /\ serval_sock_reset_xmit_timer(est.sal.rto)
          /\ UNCHANGED <<est, queue, backoff, retransmits, pkts>>

\* Without a packet serval_sal_rexmit does nothing, and the timer is set all
\* the same
serval_sal_rexmit_timeout ==
    /\ timer # "off" /\ queue.sal # "done"
    /\ IF retransmits = MaxRetransmits
       THEN /\ queue' = [l \in Layers |-> "done"]
            /\ timer' = "off" /\ wait' = 0
            /\ UNCHANGED <<backoff, retransmits>>
       ELSE /\ queue' = [queue EXCEPT !.sal = IF Unacked THEN "resent" ELSE @]
            /\ backoff' = (backoff + 1) % Byte
            /\ retransmits' = retransmits + 1
            /\ \E w \in Shifted(est.sal.rto, backoff') : serval_sock_reset_xmit_timer(w)
    /\ UNCHANGED <<est, pkts>>

----------------------------------------------------------------------------
(* The transport's data *)

\* The first segment in flight starts the timer
serval_tcp_event_new_data_sent ==
    /\ queue.tcp = "none"
    /\ queue' = [queue EXCEPT !.tcp = "sent"]
    /\ UNCHANGED <<est, backoff, retransmits, wait, timer, pkts>>

\* With timestamps every acknowledgment of data is measured, without them
\* only that of data sent once (Karn)
serval_tcp_ack_update_rtt ==
    \/ /\ \E s \in Samples : serval_tcp_valid_rtt_meas(s)
       /\ pkts' = IF Unacked THEN pkts ELSE 0
    \/ queue.tcp = "resent" /\ UNCHANGED <<est, backoff, pkts>>

\* Some or all of what is in flight is acknowledged, and the timer is set
\* again for the rest, which was resent only if what was in flight was
TcpAck(rest) ==
    /\ queue.tcp \in {"sent", "resent"}
    /\ rest \in {"none", "sent", queue.tcp}
    /\ serval_tcp_ack_update_rtt
    /\ queue' = [queue EXCEPT !.tcp = rest]
    /\ UNCHANGED <<retransmits, wait, timer>>

\* out_reset_timer: a thin stream waits the estimate again, others double
NextRto(thin) ==
    IF thin THEN min(serval_tcp_calc_rto(est.tcp), RTO_MAX)
    ELSE min(U32(2 * est.tcp.rto), RTO_MAX)

\* The write times out and the connection ends, the packet is refused for
\* want of resources, or it is sent again, as a probe or after a loss
serval_tcp_retransmit_timer ==
    /\ queue.tcp \in {"sent", "resent"}
    /\ \/ /\ queue' = [l \in Layers |-> "done"]
          /\ timer' = "off" /\ wait' = 0
          /\ UNCHANGED est
       \/ UNCHANGED <<est, queue, wait, timer>>
       \/ /\ queue' = [queue EXCEPT !.tcp = "resent"]
          /\ \E thin \in BOOLEAN : est' = [est EXCEPT !.tcp.rto = NextRto(thin)]
          /\ UNCHANGED <<wait, timer>>
    /\ UNCHANGED <<backoff, retransmits, pkts>>

----------------------------------------------------------------------------
serval_sock_init ==
    [srtt |-> 0, mdev |-> TIMEOUT_INIT, mdev_max |-> TIMEOUT_INIT,
     rttvar |-> TIMEOUT_INIT, rto |-> TIMEOUT_INIT]

\* mdev_max and rttvar are left as the zeroed allocation has them
serval_tcp_init_sock ==
    [srtt |-> 0, mdev |-> TIMEOUT_INIT, mdev_max |-> 0, rttvar |-> 0, rto |-> TIMEOUT_INIT]

Init ==
    /\ est = [sal |-> serval_sock_init, tcp |-> serval_tcp_init_sock]
    /\ backoff = 0
    /\ retransmits = 0
    /\ queue = [l \in Layers |-> "none"]
    /\ wait = 0
    /\ timer = "off"
    /\ pkts = 0

Next ==
    \/ serval_sal_queue_and_push \/ serval_sal_clean_rtx_queue \/ serval_sal_rexmit_timeout
    \/ serval_tcp_event_new_data_sent \/ serval_tcp_retransmit_timer
    \/ \E rest \in {"none", "sent", "resent"} : TcpAck(rest)

Spec == Init /\ [][Next]_vars

----------------------------------------------------------------------------
(* Properties *)

TypeOK ==
    /\ est \in [Layers -> [srtt : 0..Word - 1, mdev : 0..Word - 1, mdev_max : 0..Word - 1,
                           rttvar : 0..Word - 1, rto : 0..RTO_MAX]]
    /\ backoff \in 0..Byte - 1
    /\ retransmits \in 0..MaxRetransmits
    /\ queue \in [Layers -> {"none", "sent", "resent", "done"}]
    /\ wait \in 0..RTO_MAX
    /\ timer \in {"off", "on", "late"}
    /\ pkts \in 0..Packets

\* The comment in serval_sal_set_rto and in serval_tcp_set_rto: "clamping at
\* SAL_RTO_MIN is not required, current algo guarantees that rto is higher".
\* Once a layer has measured a round trip its rto stays above the smallest
\* minimum, whatever was measured and however often the timer doubled it.
RtoAboveMin == \A l \in Layers : est[l].srtt # 0 => est[l].rto > Floor

\* An unacknowledged control packet is not sent again before the smallest
\* minimum has passed, as long as fewer than Packets packets have left the
\* queue unmeasured: the backoff, which only a measurement resets, adds up over
\* these packets, over the ones that took another's place and over callbacks
\* that found no packet, and serval_sal_rexmit_timeout shifts the rto by it in
\* a word that has room for so much.
WaitAboveMin == Unacked /\ pkts < Packets => wait > Floor

\* Without that condition it does not hold: after more unmeasured packets the
\* shift in serval_sal_rexmit_timeout runs over its word and the packet is sent
\* again at once.
WaitNeverShort == Unacked => wait > Floor

\* The estimate stays within what was measured: a round trip of at least one
\* tick and at most the longest, a deviation of at most that long (mdev is
\* scaled by four), so that srtt, once it is set, is never zero again and no
\* sum of the estimator runs over its word.
EstimateBounded ==
    \A l \in Layers : est[l].srtt # 0 =>
        /\ est[l].srtt \div 8 \in 1..MaxRtt
        /\ est[l].mdev <= 4 * MaxRtt
============================================================================
