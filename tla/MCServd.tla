------------------------------- MODULE MCServd -------------------------------
(***************************************************************************)
(* Instances of Servd for TLC: clients that bind the same service, of      *)
(* which the first one can move.                                           *)
(***************************************************************************)
EXTENDS Servd

const_Binds == [c \in Clients |-> {"s"}]
const_Addrs == [c \in Clients |-> IF c = "c1" THEN {"a1", "a2"} ELSE {"b1"}]

=============================================================================
