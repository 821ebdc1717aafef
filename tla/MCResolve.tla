----------------------------- MODULE MCResolve -----------------------------
(***************************************************************************)
(* Instances of Resolve for TLC: a client and a router that is also the    *)
(* server; their rules may form loops.                                     *)
(***************************************************************************)
EXTENDS Resolve, TLC

CONSTANTS cl, rt, s1, s2, X, Y

Table(atClient, atRouter) ==
    [h \in Hosts |-> [v \in Svcs |-> IF h = cl THEN atClient ELSE atRouter]]
MCConfigs ==
    {[build |-> "kernel", mode |-> "ANYCAST", forwards |-> {cl, rt},
      rules |-> Table(<<Delay, Forward(rt)>>, <<Forward(cl), Demux>>)],
     [build |-> "user", mode |-> "ALL", forwards |-> {},
      rules |-> Table(<<Delay>>, <<Demux>>)],
     [build |-> "user", mode |-> "ANYCAST", forwards |-> {rt},
      rules |-> Table(<<Forward(rt)>>, <<Drop, Demux>>)]}
MCRuleLists ==
    "kernel" :> Table({<<Forward(rt), Forward(cl)>>}, {})
    @@ "user" :> Table({<<Drop, Forward(rt)>>, NoEntry}, {NoEntry})
MCQueueMax == "kernel" :> 1 @@ "user" :> 2
MCMaxStarts == "kernel" :> 1 @@ "user" :> 2

=============================================================================
