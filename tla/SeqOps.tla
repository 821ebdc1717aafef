------------------------------- MODULE SeqOps -------------------------------
(***************************************************************************)
(* The operators on sequences that the models with proofs need.  They are  *)
(* those of SequencesExt; that module is not extended where something is   *)
(* proved because all it defines, and all the modules below it define,     *)
(* would be part of every proof obligation.                                *)
(***************************************************************************)
EXTENDS Integers, Sequences

\* e is an entry of s.
Contains(s, e) == \E n \in 1..Len(s) : s[n] = e

\* s without its entry at place n, and s with e at place n.
RemoveAt(s, n) == SubSeq(s, 1, n - 1) \o SubSeq(s, n + 1, Len(s))
InsertAt(s, n, e) == SubSeq(s, 1, n - 1) \o <<e>> \o SubSeq(s, n, Len(s))

\* s is the beginning of t, and all the beginnings of s.
IsPrefix(s, t) == Len(s) <= Len(t) /\ SubSeq(s, 1, Len(s)) = SubSeq(t, 1, Len(s))
Prefixes(s) == {SubSeq(s, 1, n) : n \in 0..Len(s)}

=============================================================================
