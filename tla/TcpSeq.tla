------------------------------- MODULE TcpSeq -------------------------------
(***************************************************************************)
(* Sequence numbers and sequence-space buffers shared by the two halves of *)
(* the stream transport in src/stack/serval_tcp*.c.  A number counts units *)
(* of data; the FIN takes one unit.  Numbers wrap at SeqSpace, which is 2^32 *)
(* in the code, and before() is the sign of the wrapped difference.        *)
(***************************************************************************)
EXTENDS Integers, Sequences

CONSTANTS
    SeqSpace,     \* size of the sequence space; 2^32 in the code, even here
    Mss         \* units in a full segment (mss_cache and rcv_mss)

ASSUME SeqAssumption ==
    /\ SeqSpace \in Nat /\ SeqSpace >= 4 /\ SeqSpace % 2 = 0
    /\ Mss \in Nat \ {0}

SeqNo == 0..SeqSpace - 1

Add(a, n) == (a + n) % SeqSpace

\* a - b as the code computes it in an unsigned word
Sub(a, b) == (a - b) % SeqSpace

before(a, b) == Sub(a, b) >= SeqSpace \div 2

after(a, b) == before(b, a)

between(a, lo, hi) == Sub(hi, lo) >= Sub(a, lo)

min(a, b) == IF a < b THEN a ELSE b

max(a, b) == IF a > b THEN a ELSE b

\* The units of data a buffer carries: skb->len, the FIN not included
DataLen(skb) == Sub(skb.end, skb.seq) - (IF skb.fin THEN 1 ELSE 0)
=============================================================================
