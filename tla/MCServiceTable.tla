--------------------------- MODULE MCServiceTable ---------------------------
(***************************************************************************)
(* Instances of ServiceTable for TLC: serviceIDs of two bits, sockets of   *)
(* both protocols, and forwarding rules above and below the priority of    *)
(* local sockets.                                                          *)
(***************************************************************************)
EXTENDS ServiceTable, TLC

CONSTANTS s1, s2, a1, a2, d1, d2

MCRuleIds == {<<0, 0>>, <<1, 1>>}
MCBindIds == {<<1, 0>>}
MCIdsTwo == {<<0, 0>>, <<0, 1>>}
MCProtocol == s1 :> "udp" @@ s2 :> "tcp"
MCSameProtocol == s1 :> "udp" @@ s2 :> "udp"

\* The addresses are interchangeable.
AddrSymmetry == Permutations(Addrs)

=============================================================================
