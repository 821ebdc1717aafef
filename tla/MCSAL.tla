------------------------------- MODULE MCSAL -------------------------------
(***************************************************************************)
(* Instances of SAL for TLC.  The verno space is small and the initial     *)
(* vernos sit at its end, so every run crosses the wrap-around.            *)
(***************************************************************************)
EXTENDS SAL

CONSTANTS c1, c2, s1, s2

MCSeqMod == 16

\* The openers start just before the wrap, the listener's flows across it.
MCISS == [f \in Flows |-> IF f \in Clients THEN MCSeqMod - 1 - f
                          ELSE (MCSeqMod - 2 + 3 * (f - NumClients)) % MCSeqMod]

OneClientAddr == {c1}
TwoClientAddrs == {c1, c2}
OneServerAddr == {s1}
TwoServerAddrs == {s1, s2}

Everyone == Flows
Nobody == {}
ClientsOnly == Clients
OnePair == {0, NumClients}
OneClient == {0}

NoMigrations == [f \in Flows |-> 0]
ClientMigrates == [f \in Flows |-> IF f \in Clients THEN 1 ELSE 0]
EachMigrates == [f \in Flows |-> 1]
\* Once an application has closed, the listener's end has not moved: with both
\* there are too many states.
MoveOrClose == (\A f \in Flows : ~sock[f].dead) \/ (\A f \in Servers : migrations[f] = 0)

=============================================================================
