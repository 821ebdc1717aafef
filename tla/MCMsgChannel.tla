---------------------------- MODULE MCMsgChannel ----------------------------
(***************************************************************************)
(* servd's two handles, the one to its stack created first.                *)
(***************************************************************************)
EXTENDS MsgChannel

const_Order == <<"lhc", "rhc">>
const_Uses == [h \in {"lhc", "rhc"} |-> {"lhc", "rhc"}]

=============================================================================
