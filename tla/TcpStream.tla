----------------------------- MODULE TcpStream -----------------------------
(***************************************************************************)
(* What a connected stream socket promises its two users: the reader gets  *)
(* the units the writer wrote, each once, in order and from the first on,  *)
(* and is told the end only after the writer closed and all was delivered. *)
(***************************************************************************)
EXTENDS Integers, Sequences

VARIABLES
    written,     \* number of units the writer has written
    closed,      \* the writer has shut its side down
    delivered,   \* the units handed to the reader, in order
    eof          \* recvmsg has returned 0

vars == <<written, closed, delivered, eof>>

Init == written = 0 /\ ~closed /\ delivered = <<>> /\ ~eof

Write ==
    /\ ~closed
    /\ written' \in Nat /\ written' >= written
    /\ UNCHANGED <<closed, delivered, eof>>

Close ==
    /\ closed' = TRUE
    /\ UNCHANGED <<written, delivered, eof>>

Deliver ==
    /\ ~eof
    /\ Len(delivered') \in Len(delivered)..written
    /\ delivered' = [i \in 1..Len(delivered') |->
                        IF i <= Len(delivered) THEN delivered[i] ELSE i - 1]
    /\ UNCHANGED <<written, closed, eof>>

End ==
    /\ closed /\ Len(delivered) = written
    /\ eof' = TRUE
    /\ UNCHANGED <<written, closed, delivered>>

Next == Write \/ Close \/ Deliver \/ End

Spec == Init /\ [][Next]_vars
=============================================================================
