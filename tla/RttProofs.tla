----------------------------- MODULE RttProofs -----------------------------
(***************************************************************************)
(* For every word, every set of route minimums and every measured time     *)
(* that the assumption admits, both estimators keep the rto above the      *)
(* smallest minimum and the estimate within what was measured.             *)
(***************************************************************************)
EXTENDS Rtt, TLAPS

Est == [srtt : Nat, mdev : Nat, mdev_max : Nat, rttvar : Nat, rto : Nat]

\* What both estimators keep once they have measured: the deviations are above
\* the smallest minimum and far enough from the end of the word for the sum
\* that gives the rto
Measured(e) ==
    /\ e.srtt \in 8..8 * MaxRtt
    /\ e.mdev <= 4 * MaxRtt
    /\ Floor <= e.mdev_max /\ 8 * MaxRtt + e.mdev_max < Word
    /\ Floor <= e.rttvar /\ 8 * MaxRtt + e.rttvar < Word

GoodEst(e) ==
    /\ e \in Est
    /\ e.rto <= RTO_MAX
    /\ e.srtt # 0 => Measured(e) /\ Floor < e.rto

IInv ==
    /\ est \in [sal : Est, tcp : Est]
    /\ GoodEst(est.sal) /\ GoodEst(est.tcp)

\* A value that fits its word is the word
LEMMA Fits == ASSUME NEW x \in Nat, x < Word PROVE U32(x) = x
  BY RttAssumption DEF U32

\* A value cut to a 32-bit word (U32) is a natural number.
LEMMA InWord == ASSUME NEW x \in Int PROVE U32(x) \in Nat
  BY RttAssumption DEF U32

\* The first measurement sets everything there is
LEMMA FirstKeeps ==
  ASSUME NEW e \in Est, NEW m \in 1..MaxRtt, NEW lo \in RtoMins
  PROVE  FirstMeasure(e, m, lo) \in Est /\ Measured(FirstMeasure(e, m, lo))
  <1> DEFINE r == FirstMeasure(e, m, lo)
             var == max(2 * m, lo)
  <1>1. 8 * m \in Nat /\ 2 * m \in Nat /\ 8 * m < Word /\ 2 * m < Word
    BY RttAssumption
  <1>2. U32(8 * m) = 8 * m /\ U32(2 * m) = 2 * m
    BY <1>1, Fits
  <1>3. lo \in Nat /\ Floor <= lo /\ 8 * MaxRtt + lo < Word
    BY RttAssumption
  <1>4. var \in Nat /\ Floor <= var /\ 8 * MaxRtt + var < Word
    BY <1>3, RttAssumption DEF max
  <1>5. r = [srtt |-> 8 * m, mdev |-> 2 * m, mdev_max |-> var, rttvar |-> var,
             rto |-> e.rto]
    BY <1>2 DEF FirstMeasure
  <1> HIDE DEF r, var
  <1>6. /\ r \in Est /\ r.srtt = 8 * m /\ r.mdev = 2 * m
        /\ r.mdev_max = var /\ r.rttvar = var
    BY <1>1, <1>4, <1>5 DEF Est
  <1>7. Measured(r)
    BY <1>4, <1>6, RttAssumption DEF Measured
  <1> QED
    BY <1>6, <1>7 DEF r

\* A later one moves srtt and mdev by less than would leave their bounds
LEMMA SmoothedKeeps ==
  ASSUME NEW e \in Est, Measured(e), NEW m \in 1..MaxRtt
  PROVE  /\ Smoothed(e, ErrorOf(e, m)) \in Est
         /\ Measured(Smoothed(e, ErrorOf(e, m)))
         /\ Smoothed(e, ErrorOf(e, m)).rto = e.rto
  <1> DEFINE err == ErrorOf(e, m)
             rest == (IF err < 0 THEN -err ELSE err) - e.mdev \div 4
             gain == IF err < 0 /\ rest > 0 THEN rest \div 8 ELSE rest
             mdev == e.mdev + gain
             top == max(mdev, e.mdev_max)
             var == IF mdev > e.mdev_max THEN max(mdev, e.rttvar) ELSE e.rttvar
             r == Smoothed(e, err)
  <1>1. /\ MaxRtt \in Nat \ {0} /\ Floor \in Nat /\ Word \in Nat /\ 12 * MaxRtt < Word
        /\ e.srtt \in Nat /\ e.mdev \in Nat /\ e.mdev_max \in Nat /\ e.rttvar \in Nat
    BY RttAssumption DEF Est
  <1>2. /\ e.srtt >= 8 /\ e.srtt <= 8 * MaxRtt /\ e.mdev <= 4 * MaxRtt
        /\ Floor <= e.mdev_max /\ 8 * MaxRtt + e.mdev_max < Word
        /\ Floor <= e.rttvar /\ 8 * MaxRtt + e.rttvar < Word
    BY <1>1 DEF Measured
  <1>3. /\ err \in Int /\ err <= MaxRtt /\ -err <= MaxRtt
        /\ e.srtt + err \in 8..8 * MaxRtt
    BY <1>1, <1>2 DEF ErrorOf
  <1> HIDE DEF err
  <1>4. mdev \in 0..4 * MaxRtt
    BY <1>1, <1>2, <1>3
  <1> HIDE DEF mdev
  <1>5. top \in Nat /\ Floor <= top /\ 8 * MaxRtt + top < Word
    BY <1>1, <1>2, <1>4 DEF max
  <1>6. var \in Nat /\ Floor <= var /\ 8 * MaxRtt + var < Word
    BY <1>1, <1>2, <1>4 DEF max
  <1>7. U32(e.srtt + err) = e.srtt + err /\ U32(mdev) = mdev
    BY <1>1, <1>3, <1>4, Fits
  <1>8. r = [srtt |-> e.srtt + err, mdev |-> mdev, mdev_max |-> top, rttvar |-> var,
             rto |-> e.rto]
    BY <1>7 DEF Smoothed, mdev
  <1> HIDE DEF r, top, var
  <1>9. /\ r \in Est /\ r.srtt = e.srtt + err /\ r.mdev = mdev
        /\ r.mdev_max = top /\ r.rttvar = var /\ r.rto = e.rto
    BY <1>3, <1>4, <1>5, <1>6, <1>8 DEF Est
  <1>10. Measured(r)
    BY <1>3, <1>4, <1>5, <1>6, <1>9 DEF Measured
  <1> QED
    BY <1>9, <1>10 DEF r, err

\* A new round brings the variance down to no less than the largest deviation
LEMMA RoundKeeps ==
  ASSUME NEW e \in Est, Measured(e), NEW past \in BOOLEAN, NEW lo \in RtoMins
  PROVE  NextRound(e, past, lo) \in Est /\ Measured(NextRound(e, past, lo))
  <1> DEFINE var == IF e.mdev_max < e.rttvar
                    THEN e.rttvar - (e.rttvar - e.mdev_max) \div 4 ELSE e.rttvar
             r == [srtt |-> e.srtt, mdev |-> e.mdev, mdev_max |-> lo, rttvar |-> var,
                   rto |-> e.rto]
  <1>1. /\ MaxRtt \in Nat \ {0} /\ Floor \in Nat /\ Word \in Nat
        /\ lo \in Nat /\ Floor <= lo /\ 8 * MaxRtt + lo < Word
        /\ e.mdev_max \in Nat /\ e.rttvar \in Nat
    BY RttAssumption DEF Est
  <1>2. var \in Nat /\ Floor <= var /\ 8 * MaxRtt + var < Word
    BY <1>1 DEF Measured
  <1> HIDE DEF var
  <1>3. /\ r \in Est /\ r.srtt = e.srtt /\ r.mdev = e.mdev
        /\ r.mdev_max = lo /\ r.rttvar = var
    BY <1>1, <1>2 DEF Est
  <1> HIDE DEF r
  <1>4. Measured(r)
    BY <1>1, <1>2, <1>3 DEF Measured
  <1> QED
    BY <1>3, <1>4 DEF NextRound, r, var

\* A sample (serval_sal_rtt_estimator, tcp_rtt_estimator) keeps the bounds on
\* the estimates and measures them.
LEMMA EstimatorKeeps ==
  ASSUME NEW e, GoodEst(e), NEW mrtt \in 0..MaxRtt, NEW past \in BOOLEAN, NEW lo \in RtoMins
  PROVE  /\ serval_sal_rtt_estimator(e, mrtt, past, lo) \in Est
         /\ Measured(serval_sal_rtt_estimator(e, mrtt, past, lo))
  <1> DEFINE m == IF mrtt = 0 THEN 1 ELSE mrtt
  <1>1. m \in 1..MaxRtt
    BY RttAssumption
  <1> HIDE DEF m
  <1>2. CASE e.srtt = 0
    BY <1>1, <1>2, FirstKeeps DEF serval_sal_rtt_estimator, m, GoodEst
  <1>3. CASE e.srtt # 0
    <2>1. e \in Est /\ Measured(e)
      BY <1>3 DEF GoodEst
    <2>2. Smoothed(e, ErrorOf(e, m)) \in Est /\ Measured(Smoothed(e, ErrorOf(e, m)))
      BY <1>1, <2>1, SmoothedKeeps
    <2> QED
      BY <1>3, <2>2, RoundKeeps DEF serval_sal_rtt_estimator, m
  <1> QED
    BY <1>2, <1>3

\* The sum of a round trip of a tick at least and of a variance not below the
\* minimum is above it; that is why the code need not clamp
LEMMA RtoKeeps ==
  ASSUME NEW e \in Est, Measured(e)
  PROVE  /\ GoodEst(serval_sal_set_rto(e)) /\ GoodEst(serval_tcp_set_rto(e))
         /\ Floor < serval_sal_set_rto(e).rto
  <1> DEFINE sum == e.srtt \div 8 + e.rttvar
             r == [e EXCEPT !.rto = min(sum, RTO_MAX)]
  <1>1. /\ MaxRtt \in Nat \ {0} /\ Floor \in Nat /\ Word \in Nat /\ RTO_MAX \in Nat
        /\ Floor < RTO_MAX /\ e.srtt \in Nat /\ e.rttvar \in Nat
    BY RttAssumption DEF Est
  <1>2. sum \in Nat /\ Floor < sum /\ sum < Word
    BY <1>1 DEF Measured
  <1>3. U32(sum) = sum
    BY <1>2, Fits
  <1>4. serval_sal_set_rto(e) = r /\ serval_tcp_set_rto(e) = r
    BY <1>3 DEF serval_sal_set_rto, serval_tcp_set_rto, serval_sal_bound_rto,
       serval_tcp_bound_rto, serval_sal_calc_rto, serval_tcp_calc_rto
  <1>5. min(sum, RTO_MAX) \in Nat /\ Floor < min(sum, RTO_MAX) /\ min(sum, RTO_MAX) <= RTO_MAX
    BY <1>1, <1>2 DEF min
  <1> HIDE DEF sum
  <1>6. /\ r \in Est /\ r.srtt = e.srtt /\ r.mdev = e.mdev /\ r.mdev_max = e.mdev_max
        /\ r.rttvar = e.rttvar /\ r.rto = min(sum, RTO_MAX)
    BY <1>5 DEF Est
  <1> HIDE DEF r
  <1>7. GoodEst(r)
    BY <1>5, <1>6 DEF GoodEst, Measured
  <1>8. Floor < r.rto
    BY <1>5, <1>6
  <1> QED
    BY <1>4, <1>7, <1>8

\* A timeout of the transport doubles the rto or takes the estimate again
LEMMA TimeoutKeeps ==
  ASSUME NEW thin \in BOOLEAN, GoodEst(est.tcp)
  PROVE  GoodEst([est.tcp EXCEPT !.rto = NextRto(thin)])
  <1> DEFINE e == est.tcp
             r == [e EXCEPT !.rto = NextRto(thin)]
  <1>1. /\ MaxRtt \in Nat \ {0} /\ Floor \in Nat /\ Word \in Nat /\ RTO_MAX \in Nat
        /\ Floor < RTO_MAX /\ 2 * RTO_MAX < Word
        /\ e \in Est /\ e.srtt \in Nat /\ e.rttvar \in Nat /\ e.rto \in Nat
        /\ e.rto <= RTO_MAX
    BY RttAssumption DEF Est, GoodEst
  <1>2. U32(2 * e.rto) = 2 * e.rto
    BY <1>1, Fits
  <1>3. e.srtt \div 8 + e.rttvar \in Int
    BY <1>1
  <1>4. U32(e.srtt \div 8 + e.rttvar) \in Nat
    BY <1>3, InWord
  <1>5. NextRto(thin) \in Nat /\ NextRto(thin) <= RTO_MAX
    BY <1>1, <1>2, <1>4 DEF NextRto, serval_tcp_calc_rto, min
  <1>6. ASSUME e.srtt # 0 PROVE Floor < NextRto(thin)
    <2>1. Measured(e) /\ Floor < e.rto
      BY <1>6 DEF GoodEst
    <2>2. CASE thin
      <3>1. GoodEst(serval_tcp_set_rto(e)) /\ serval_tcp_set_rto(e).srtt = e.srtt
        BY <1>1, <2>1, RtoKeeps DEF serval_tcp_set_rto, Est
      <3>2. Floor < serval_tcp_set_rto(e).rto
        BY <1>6, <3>1 DEF GoodEst
      <3> QED
        BY <1>1, <2>2, <3>2 DEF NextRto, serval_tcp_set_rto, serval_tcp_bound_rto, Est
    <2>3. CASE ~thin
      BY <1>1, <1>2, <2>1, <2>3 DEF NextRto, min
    <2> QED
      BY <2>2, <2>3
  <1> HIDE DEF e
  <1>7. /\ r \in Est /\ r.srtt = e.srtt /\ r.mdev = e.mdev /\ r.mdev_max = e.mdev_max
        /\ r.rttvar = e.rttvar /\ r.rto = NextRto(thin)
    BY <1>1, <1>5 DEF Est
  <1> HIDE DEF r
  <1>8. GoodEst(r)
    BY <1>5, <1>6, <1>7 DEF GoodEst, Measured, e
  <1> QED
    BY <1>8 DEF r, e

\* A measurement of either layer leaves a good estimate
LEMMA UpdateKeeps ==
  ASSUME NEW e, GoodEst(e), NEW s \in Samples, NEW l \in Layers
  PROVE  /\ GoodEst(serval_sal_set_rto(serval_sal_rtt_estimator(e, s.rtt, s.past[l], s.lo)))
         /\ GoodEst(serval_tcp_set_rto(serval_tcp_rtt_estimator(e, s.rtt, s.past[l], s.lo)))
         /\ Floor < serval_sal_set_rto(
                      serval_sal_rtt_estimator(e, s.rtt, s.past[l], s.lo)).rto
  <1>1. s.rtt \in 0..MaxRtt /\ s.past[l] \in BOOLEAN /\ s.lo \in RtoMins
    BY RttAssumption, Zenon DEF Samples, serval_sal_rto_min
  <1> QED
    BY <1>1, EstimatorKeeps, RtoKeeps DEF serval_tcp_rtt_estimator

\* Whatever an acknowledgment of control packets or of data measures and
\* whatever a timeout does, both estimates stay good
THEOREM Inductive == Spec => []IInv
  <1>1. Init => IInv
    <2> SUFFICES ASSUME Init PROVE IInv
      OBVIOUS
    <2>1. GoodEst(serval_sock_init) /\ GoodEst(serval_tcp_init_sock)
      BY RttAssumption DEF GoodEst, Est, serval_sock_init, serval_tcp_init_sock
    <2>2. est = [sal |-> serval_sock_init, tcp |-> serval_tcp_init_sock]
      BY DEF Init
    <2> QED
      BY <2>1, <2>2 DEF IInv, GoodEst
  <1>2. IInv /\ [Next]_vars => IInv'
    <2> SUFFICES ASSUME IInv, [Next]_vars PROVE IInv'
      OBVIOUS
    <2>0. est \in [sal : Est, tcp : Est] /\ GoodEst(est.sal) /\ GoodEst(est.tcp)
      BY DEF IInv
    <2>1. ASSUME UNCHANGED est PROVE IInv'
      BY <2>0, <2>1 DEF IInv, GoodEst, Measured
    <2>2. CASE serval_sal_queue_and_push
      BY <2>1, <2>2 DEF serval_sal_queue_and_push
    <2>3. CASE serval_sal_clean_rtx_queue
      <3>1. CASE UNCHANGED est
        BY <2>1, <3>1
      <3>2. CASE ~UNCHANGED est
        <4>1. PICK s \in Samples : est' = [est EXCEPT !.sal = serval_sal_update_rtt(s)]
          BY <2>3, <3>2 DEF serval_sal_clean_rtx_queue
        <4>2. s.past["sal"] = s.past.sal
          OBVIOUS
        <4>3. GoodEst(serval_sal_update_rtt(s))
          BY <2>0, <4>2, UpdateKeeps DEF serval_sal_update_rtt, Layers
        <4>4. est'.sal = serval_sal_update_rtt(s) /\ est'.tcp = est.tcp
              /\ est' \in [sal : Est, tcp : Est]
          BY <2>0, <4>1, <4>3 DEF GoodEst
        <4> QED
          BY <2>0, <4>3, <4>4 DEF IInv, GoodEst, Measured
      <3> QED
        BY <3>1, <3>2
    <2>4. CASE serval_sal_rexmit_timeout
      BY <2>1, <2>4 DEF serval_sal_rexmit_timeout
    <2>5. CASE serval_tcp_event_new_data_sent
      BY <2>1, <2>5 DEF serval_tcp_event_new_data_sent
    <2>6. CASE serval_tcp_retransmit_timer
      <3>1. CASE UNCHANGED est
        BY <2>1, <3>1
      <3>2. ASSUME NEW thin \in BOOLEAN, est' = [est EXCEPT !.tcp.rto = NextRto(thin)]
            PROVE  IInv'
        <4> DEFINE r == [est.tcp EXCEPT !.rto = NextRto(thin)]
        <4>1. GoodEst(r)
          BY <2>0, TimeoutKeeps
        <4>2. est'.sal = est.sal /\ est'.tcp = r /\ est' \in [sal : Est, tcp : Est]
          BY <2>0, <3>2, <4>1 DEF GoodEst
        <4> QED
          BY <2>0, <4>1, <4>2 DEF IInv, GoodEst, Measured
      <3> QED
        BY <2>6, <3>1, <3>2 DEF serval_tcp_retransmit_timer
    <2>7. ASSUME NEW rest \in {"none", "sent", "resent"}, TcpAck(rest) PROVE IInv'
      <3>1. CASE UNCHANGED est
        BY <2>1, <3>1
      <3>2. ASSUME NEW s \in Samples, serval_tcp_valid_rtt_meas(s) PROVE IInv'
        <4> DEFINE a == serval_sal_update_rtt(s)
                   b == serval_tcp_set_rto(
                          serval_tcp_rtt_estimator(est.tcp, s.rtt, s.past.tcp, s.lo))
        <4>1. GoodEst(a)
          BY <2>0, UpdateKeeps DEF serval_sal_update_rtt, Layers
        <4>2. GoodEst(b)
          BY <2>0, UpdateKeeps DEF Layers
        <4>3. est' = [sal |-> a, tcp |-> b]
          BY <3>2 DEF serval_tcp_valid_rtt_meas
        <4> HIDE DEF a, b
        <4>4. est'.sal = a /\ est'.tcp = b /\ est' \in [sal : Est, tcp : Est]
          BY <4>1, <4>2, <4>3 DEF GoodEst
        <4> QED
          BY <4>1, <4>2, <4>4 DEF IInv, GoodEst, Measured
      <3> QED
        BY <2>7, <3>1, <3>2 DEF TcpAck, serval_tcp_ack_update_rtt
    <2>8. CASE UNCHANGED vars
      BY <2>1, <2>8 DEF vars
    <2> QED
      BY <2>2, <2>3, <2>4, <2>5, <2>6, <2>7, <2>8 DEF Next
  <1> QED
    BY <1>1, <1>2, PTL DEF Spec

\* serval_sal_set_rto and serval_tcp_set_rto need no clamp at the minimum: once
\* a round trip was measured the rto is above the smallest minimum
THEOREM RtoAbove == Spec => []RtoAboveMin
  <1>1. IInv => RtoAboveMin
    BY DEF IInv, GoodEst, RtoAboveMin, Layers
  <1> QED
    BY <1>1, Inductive, PTL

\* The estimators never leave the range of what was measured, and nothing in
\* them runs over its word
THEOREM Bounded == Spec => []EstimateBounded
  <1>1. ASSUME NEW e, GoodEst(e), e.srtt # 0
        PROVE  e.srtt \div 8 \in 1..MaxRtt /\ e.mdev <= 4 * MaxRtt
    BY <1>1, RttAssumption DEF GoodEst, Measured, Est
  <1>2. IInv => EstimateBounded
    BY <1>1 DEF IInv, EstimateBounded, Layers
  <1> QED
    BY <1>2, Inductive, PTL

----------------------------------------------------------------------------
(* The wait of the control packet *)

\* The SAL's rto is above the minimum even before it is measured; until Packets
\* packets have left the queue unmeasured, each of them, the one that waits and
\* the callbacks in between account for all of the backoff; and what the timer
\* was set to for the packet that waits is above the minimum
WInv ==
    /\ est.sal \in Est /\ Floor < est.sal.rto
    /\ queue \in [Layers -> {"none", "sent", "resent", "done"}]
    /\ backoff \in Nat /\ retransmits \in 0..MaxRetransmits /\ pkts \in 0..Packets
    /\ pkts < Packets => backoff <= pkts * MaxRetransmits + retransmits
    /\ WaitAboveMin

\* The shift by a backoff within its bound stays in the word and takes nothing
\* from the rto
LEMMA ShiftKeeps ==
  ASSUME NEW rto \in Nat, NEW b \in 0..Packets * MaxRetransmits, Floor < rto, rto <= RTO_MAX,
         NEW w \in Shifted(rto, b)
  PROVE  Floor < min(w, RTO_MAX)
  <1> DEFINE x == 2^b
  <1>0. Packets * MaxRetransmits \in Nat /\ Packets * MaxRetransmits < WordBits /\ WordBits \in Nat
    BY RttAssumption
  <1>1. x \in Nat /\ x >= 1 /\ RTO_MAX * x < Word /\ RTO_MAX \in Nat /\ Floor \in Nat
    BY RttAssumption
  <1>2. b < WordBits
    BY <1>0
  <1> HIDE DEF x
  <1>3. rto * x \in Nat /\ rto <= rto * x /\ rto * x <= RTO_MAX * x
    BY <1>1
  <1>4. U32(rto * x) = rto * x
    BY <1>1, <1>3, Fits, RttAssumption
  <1>5. w = rto * x
    BY <1>2, <1>4 DEF Shifted, x
  <1> QED
    BY <1>1, <1>3, <1>5 DEF min

\* One more packet that left the queue accounts for one more round of
\* retransmissions
LEMMA RoundOfRetransmits ==
  ASSUME NEW p \in Nat, NEW n \in 0..MaxRetransmits
  PROVE  p * MaxRetransmits + n <= (p + 1) * MaxRetransmits
  BY RttAssumption

\* Fewer packets than Packets leave the backoff within what the word has room for
LEMMA RoundsFit ==
  ASSUME NEW p \in Nat, p < Packets, NEW n \in 0..MaxRetransmits
  PROVE  p * MaxRetransmits + n <= Packets * MaxRetransmits
  <1>1. p + 1 <= Packets /\ Packets \in Nat /\ MaxRetransmits \in Nat
    BY RttAssumption
  <1>2. (p + 1) * MaxRetransmits <= Packets * MaxRetransmits
    BY <1>1
  <1> QED
    BY <1>1, <1>2, RoundOfRetransmits

\* When a packet leaves the queue its retransmissions are forgotten and the
\* packet is counted, so the account of the backoff stays
LEMMA OneMoreKeeps ==
  ASSUME WInv, pkts' = OneMore, retransmits' = 0, backoff' = backoff
  PROVE  /\ backoff' \in Nat /\ retransmits' \in 0..MaxRetransmits /\ pkts' \in 0..Packets
         /\ pkts' < Packets => backoff' <= pkts' * MaxRetransmits + retransmits'
  <1>1. /\ backoff \in Nat /\ retransmits \in 0..MaxRetransmits /\ pkts \in 0..Packets
        /\ pkts < Packets => backoff <= pkts * MaxRetransmits + retransmits
        /\ Packets \in Nat /\ MaxRetransmits \in Nat
    BY RttAssumption DEF WInv
  <1>2. /\ pkts' \in 0..Packets
        /\ pkts' < Packets => pkts' = pkts + 1 /\ pkts < Packets
    BY <1>1 DEF OneMore, min
  <1>3. pkts * MaxRetransmits + retransmits <= (pkts + 1) * MaxRetransmits
    BY <1>1, RoundOfRetransmits
  <1>4. pkts * MaxRetransmits + retransmits \in Nat /\ (pkts + 1) * MaxRetransmits \in Nat
    BY <1>1
  <1>5. ASSUME pkts' < Packets PROVE backoff' <= pkts' * MaxRetransmits + retransmits'
    <2>1. pkts' = pkts + 1 /\ backoff <= pkts * MaxRetransmits + retransmits
      BY <1>1, <1>2, <1>5
    <2>2. pkts' * MaxRetransmits = (pkts + 1) * MaxRetransmits
      BY <2>1
    <2> QED
      BY <1>1, <1>3, <1>4, <2>1, <2>2
  <1> QED
    BY <1>1, <1>2, <1>5

\* Before and after a measurement, for a new packet, one that takes the place of
\* another, one that is sent again and one whose wait an acknowledgment starts
\* anew, serval_sock_reset_xmit_timer gets more than the minimum, as long as
\* fewer than Packets packets left the queue unmeasured: however the packets,
\* the measurements of both layers and late callbacks of the timer interleave,
\* the backoff is then within what the word has room for
THEOREM WaitAbove == Spec => []WaitAboveMin
  <1>1. Init => WInv
    BY RttAssumption DEF Init, WInv, WaitAboveMin, Unacked, serval_sock_init, Est, Layers
  <1>2. IInv /\ WInv /\ [Next]_vars => WInv'
    <2> SUFFICES ASSUME IInv, WInv, [Next]_vars PROVE WInv'
      OBVIOUS
    <2> USE DEF Layers
    <2>0. /\ GoodEst(est.sal) /\ est.sal \in Est /\ Floor < est.sal.rto
          /\ est.sal.rto \in Nat /\ est.sal.rto <= RTO_MAX
          /\ est \in [sal : Est, tcp : Est]
          /\ queue \in [Layers -> {"none", "sent", "resent", "done"}]
          /\ backoff \in Nat /\ retransmits \in 0..MaxRetransmits /\ pkts \in 0..Packets
          /\ WaitAboveMin
      BY DEF IInv, WInv, GoodEst, Est
    <2>a. pkts < Packets => backoff <= pkts * MaxRetransmits + retransmits
      BY DEF WInv
    <2>b. MaxRetransmits \in Nat /\ Packets \in Nat /\ RTO_MAX \in Nat /\ Floor \in Nat
          /\ Byte \in Nat \ {0}
      BY RttAssumption
    <2>c. pkts * MaxRetransmits \in Nat /\ 0 * MaxRetransmits = 0
      BY <2>0, <2>b
    <2>d. Floor < min(est.sal.rto, RTO_MAX)
      BY <2>0, <2>b DEF min
    <2>1. ASSUME NEW s \in Samples
          PROVE  serval_sal_update_rtt(s) \in Est /\ Floor < serval_sal_update_rtt(s).rto
      <3>1. s.past["sal"] = s.past.sal
        OBVIOUS
      <3> QED
        BY <2>0, <3>1, UpdateKeeps DEF serval_sal_update_rtt, GoodEst
    <2>2. CASE serval_sal_queue_and_push
      <3>1. /\ est' = est /\ backoff' = backoff
            /\ queue' \in [Layers -> {"none", "sent", "resent", "done"}]
            /\ wait' = min(est.sal.rto, RTO_MAX)
        BY <2>0, <2>2 DEF serval_sal_queue_and_push, serval_sock_reset_xmit_timer
      <3>2. \/ pkts' = OneMore /\ retransmits' = 0
            \/ pkts' = pkts /\ retransmits' = retransmits
        BY <2>2 DEF serval_sal_queue_and_push
      <3>3. /\ backoff' \in Nat /\ retransmits' \in 0..MaxRetransmits /\ pkts' \in 0..Packets
            /\ pkts' < Packets => backoff' <= pkts' * MaxRetransmits + retransmits'
        <4>1. CASE pkts' = OneMore /\ retransmits' = 0
          BY <3>1, <4>1, OneMoreKeeps, Zenon
        <4>2. CASE pkts' = pkts /\ retransmits' = retransmits
          BY <2>0, <2>a, <3>1, <4>2
        <4> QED
          BY <3>2, <4>1, <4>2
      <3> QED
        BY <2>0, <2>d, <3>1, <3>3 DEF WInv, WaitAboveMin
    <2>3. CASE serval_sal_clean_rtx_queue
      <3>1. ASSUME NEW s \in Samples, est' = [est EXCEPT !.sal = serval_sal_update_rtt(s)],
                   backoff' = 0, pkts' = 0, Unqueued
            PROVE  WInv'
        <4>1. est'.sal \in Est /\ Floor < est'.sal.rto
          BY <2>0, <2>1, <3>1
        <4>2. queue'.sal = "none" /\ queue' \in [Layers -> {"none", "sent", "resent", "done"}]
              /\ retransmits' = 0
          BY <2>0, <3>1 DEF Unqueued
        <4>3. 0 \in Nat /\ 0 \in 0..MaxRetransmits /\ 0 \in 0..Packets
              /\ 0 <= 0 * MaxRetransmits + 0
          BY <2>b, <2>c
        <4> QED
          BY <3>1, <4>1, <4>2, <4>3 DEF WInv, WaitAboveMin, Unacked
      <3>2. ASSUME pkts' = OneMore, Unqueued, UNCHANGED <<est, backoff>>
            PROVE  WInv'
        <4>1. queue'.sal = "none" /\ queue' \in [Layers -> {"none", "sent", "resent", "done"}]
              /\ retransmits' = 0
          BY <2>0, <3>2 DEF Unqueued
        <4>2. /\ backoff' \in Nat /\ retransmits' \in 0..MaxRetransmits /\ pkts' \in 0..Packets
              /\ pkts' < Packets => backoff' <= pkts' * MaxRetransmits + retransmits'
          BY <3>2, <4>1, OneMoreKeeps, Zenon
        <4> QED
          BY <2>0, <3>2, <4>1, <4>2 DEF WInv, WaitAboveMin, Unacked
      <3>3. ASSUME serval_sock_reset_xmit_timer(est.sal.rto),
                   UNCHANGED <<est, queue, backoff, retransmits, pkts>>
            PROVE  WInv'
        BY <2>0, <2>a, <2>d, <3>3 DEF WInv, WaitAboveMin, serval_sock_reset_xmit_timer
      <3> QED
        BY <2>3, <3>1, <3>2, <3>3 DEF serval_sal_clean_rtx_queue
    <2>4. CASE serval_sal_rexmit_timeout
      <3>0. est' = est /\ pkts' = pkts
        BY <2>4 DEF serval_sal_rexmit_timeout
      <3>1. CASE retransmits = MaxRetransmits
        <4>1. queue' = [l \in Layers |-> "done"] /\ backoff' = backoff
              /\ retransmits' = retransmits
          BY <2>4, <3>1 DEF serval_sal_rexmit_timeout
        <4> QED
          BY <2>0, <2>a, <3>0, <4>1 DEF WInv, WaitAboveMin, Unacked
      <3>2. CASE retransmits # MaxRetransmits
        <4>1. /\ queue' \in [Layers -> {"none", "sent", "resent", "done"}]
              /\ backoff' = (backoff + 1) % Byte
              /\ retransmits' = retransmits + 1
          BY <2>0, <2>4, <3>2 DEF serval_sal_rexmit_timeout, Unacked
        <4>2. PICK w \in Shifted(est.sal.rto, backoff') : wait' = min(w, RTO_MAX)
          BY <2>4, <3>2 DEF serval_sal_rexmit_timeout, serval_sock_reset_xmit_timer
        <4>3. backoff' \in Nat /\ backoff' <= backoff + 1 /\ retransmits' \in 0..MaxRetransmits
          BY <2>0, <2>b, <3>2, <4>1
        <4>4. ASSUME pkts < Packets
              PROVE  backoff' <= pkts * MaxRetransmits + retransmits'
          BY <2>0, <2>a, <2>c, <4>1, <4>3, <4>4
        <4>5. ASSUME pkts < Packets PROVE Floor < wait'
          <5>0. pkts \in Nat /\ Packets * MaxRetransmits \in Nat
            BY <2>0, <2>b
          <5>1. pkts * MaxRetransmits + retransmits' <= Packets * MaxRetransmits
            BY <4>3, <4>5, <5>0, RoundsFit, Zenon
          <5>2. backoff' \in 0..Packets * MaxRetransmits
            BY <2>0, <2>c, <4>3, <4>4, <4>5, <5>0, <5>1
          <5> QED
            BY <2>0, <4>2, <5>2, ShiftKeeps
        <4> QED
          BY <2>0, <3>0, <4>1, <4>3, <4>4, <4>5 DEF WInv, WaitAboveMin
      <3> QED
        BY <3>1, <3>2
    <2>5. CASE serval_tcp_event_new_data_sent
      <3>1. queue' \in [Layers -> {"none", "sent", "resent", "done"}] /\ queue'.sal = queue.sal
            /\ UNCHANGED <<est, backoff, retransmits, wait, pkts>>
        BY <2>0, <2>5 DEF serval_tcp_event_new_data_sent
      <3> QED
        BY <2>0, <2>a, <3>1 DEF WInv, WaitAboveMin, Unacked
    <2>6. CASE serval_tcp_retransmit_timer
      <3>1. est'.sal = est.sal
        BY <2>0, <2>6 DEF serval_tcp_retransmit_timer
      <3>2. queue' \in [Layers -> {"none", "sent", "resent", "done"}]
        BY <2>0, <2>6 DEF serval_tcp_retransmit_timer
      <3>3. queue'.sal = "done" \/ (queue'.sal = queue.sal /\ wait' = wait)
        BY <2>0, <2>6 DEF serval_tcp_retransmit_timer
      <3>4. UNCHANGED <<backoff, retransmits, pkts>>
        BY <2>6 DEF serval_tcp_retransmit_timer
      <3> QED
        BY <2>0, <2>a, <3>1, <3>2, <3>3, <3>4 DEF WInv, WaitAboveMin, Unacked
    <2>7. ASSUME NEW rest \in {"none", "sent", "resent"}, TcpAck(rest) PROVE WInv'
      <3>1. /\ queue' \in [Layers -> {"none", "sent", "resent", "done"}]
            /\ queue'.sal = queue.sal /\ wait' = wait /\ retransmits' = retransmits
        BY <2>0, <2>7 DEF TcpAck
      <3>2. est'.sal \in Est /\ Floor < est'.sal.rto
        BY <2>0, <2>1, <2>7
           DEF TcpAck, serval_tcp_ack_update_rtt, serval_tcp_valid_rtt_meas
      <3>3. \/ backoff' = 0 /\ pkts' = IF Unacked THEN pkts ELSE 0
            \/ backoff' = backoff /\ pkts' = pkts
        BY <2>7 DEF TcpAck, serval_tcp_ack_update_rtt, serval_tcp_valid_rtt_meas
      <3>4. /\ backoff' \in Nat /\ pkts' \in 0..Packets
            /\ pkts' < Packets => backoff' <= pkts' * MaxRetransmits + retransmits
        BY <2>0, <2>a, <2>b, <2>c, <3>3
      <3>5. Unacked => pkts' = pkts
        BY <3>3
      <3> QED
        BY <2>0, <3>1, <3>2, <3>4, <3>5 DEF WInv, WaitAboveMin, Unacked
    <2>8. CASE UNCHANGED vars
      BY <2>0, <2>a, <2>8 DEF vars, WInv, WaitAboveMin, Unacked
    <2> QED
      BY <2>2, <2>3, <2>4, <2>5, <2>6, <2>7, <2>8 DEF Next
  <1>3. WInv => WaitAboveMin
    BY DEF WInv
  <1> QED
    BY <1>1, <1>2, <1>3, Inductive, PTL DEF Spec
============================================================================
