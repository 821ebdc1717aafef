------------------------------ MODULE ClientMsg ------------------------------
(***************************************************************************)
(* The messages between an application that is linked with libserval and   *)
(* the user-level stack, and the two ends' reading and writing of them.    *)
(* Each end has its own table of message lengths: the classes of libserval *)
(* and client_msg_lengths of the stack.  A message is its header (type and *)
(* payload length) with the few payload fields the protocol looks at; id   *)
(* is a history field, the call that a request or its answer belongs to.   *)
(***************************************************************************)
EXTENDS Integers, Sequences, FiniteSets, SequencesExt

\* sizeof(struct client_msg), and of a serviceID and a flowID.
HDR == 4
SRVID == 32
FLOWID == 4

Msg(type, len) == [type |-> type, len |-> len, id |-> 0, err |-> FALSE, n |-> 0]

----------------------------------------------------------------------------
(* libserval: the message classes, with serial_pld_len as the length.       *)

BindReq == Msg("BIND_REQ", SRVID + 2)
BindRsp == Msg("BIND_RSP", SRVID + 1)
ConnectReq == Msg("CONNECT_REQ", SRVID + 1 + 2)
ConnectRsp == Msg("CONNECT_RSP", SRVID + 1)
ListenReq == Msg("LISTEN_REQ", 1 + SRVID + 2)
ListenRsp == Msg("LISTEN_RSP", 1)
AcceptReq == Msg("ACCEPT_REQ", 1)
AcceptRsp == Msg("ACCEPT_RSP", SRVID + SRVID + FLOWID + 1)
AcceptReq2 == Msg("ACCEPT2_REQ", SRVID + FLOWID + 1)
AcceptRsp2 == Msg("ACCEPT2_RSP", 1)
\* n is the number of payload bytes behind the fixed part.
SendReq(n) == [Msg("SEND_REQ", 1 + SRVID + 4 + 2 + 4 + n) EXCEPT !.n = n]
SendRsp == Msg("SEND_RSP", 1)
RecvReq == Msg("RECV_REQ", 2 + 4)
RecvRsp == Msg("RECV_RSP", SRVID + 4 + 2 + 4 + 1)
CloseReq == Msg("CLOSE_REQ", 0)
CloseRsp == Msg("CLOSE_RSP", 1)
HaveData == Msg("HAVE_DATA", 0)
ClearData == Msg("CLEAR_DATA", 0)

\* The bytes in a stream.
Bytes(stream) == FoldSeq(LAMBDA m, b : b + HDR + m.len, 0, stream)

\* Cli::has_unread_data: peeks at the stream. The comparison with atleast is
\* the code's: what is complete is reported as not enough.
has_unread_data(stream, closed, atleast) ==
    LET n == IF Bytes(stream) < atleast THEN Bytes(stream) ELSE atleast IN
    IF n = 0 THEN IF closed THEN "DATA_CLOSED" ELSE "DATA_WOULD_BLOCK"
    ELSE IF n >= atleast THEN "DATA_NOT_ENOUGH"
    ELSE "DATA_READY"

\* Message::read_from_stream_soc and read_pld_from_stream_soc take the
\* payload length of the class that reads, whatever the header says: the
\* types are compared but check_hdr ignores the outcome.  What is read is the
\* message when the lengths agree, and otherwise bytes of another message.
ReadsWhole(class, m) == m.len = class.len + m.n

----------------------------------------------------------------------------
(* The stack: client_msg.h and client_msg.c.                                 *)

client_msg_lengths ==
    [BIND_REQ |-> HDR + 1 + 1 + SRVID, BIND_RSP |-> HDR + SRVID + 1,
     CONNECT_REQ |-> HDR + SRVID + 1 + 2, CONNECT_RSP |-> HDR + SRVID + 1,
     LISTEN_REQ |-> HDR + 1 + SRVID + 2, LISTEN_RSP |-> HDR + 1,
     ACCEPT_REQ |-> HDR + 1, ACCEPT_RSP |-> HDR + SRVID + SRVID + FLOWID + 1,
     ACCEPT2_REQ |-> HDR + SRVID + FLOWID + 1, ACCEPT2_RSP |-> HDR + 1,
     SEND_REQ |-> HDR + 1 + SRVID + 4 + 2 + 4, SEND_RSP |-> HDR + 1,
     RECV_REQ |-> HDR + 2 + 4, RECV_RSP |-> HDR + SRVID + 4 + 2 + 4 + 1,
     CLOSE_REQ |-> HDR, CLOSE_RSP |-> HDR + 1,
     CLEAR_DATA |-> HDR, HAVE_DATA |-> HDR]

\* client_msg_read: a message shorter than its type wants is refused after
\* its header has been taken from the stream.
client_msg_read(m) == m.len + HDR >= client_msg_lengths[m.type]

\* client_msg_hdr_init, and the fields a handler fills in.
client_msg_hdr_init(type) == Msg(type, client_msg_lengths[type] - HDR)
Rsp(type, id, failed) ==
    [client_msg_hdr_init(type) EXCEPT !.id = id, !.err = failed]
\* client_handle_recv_req_msg adds the data it received.
DataRsp(id, n) ==
    [client_msg_hdr_init("RECV_RSP") EXCEPT !.id = id, !.n = n, !.len = @ + n]

\* client_msg_write: nothing is written to a stream whose reader is gone.
client_msg_write(stream, reader, m) ==
    IF reader THEN Append(stream, m) ELSE stream
=============================================================================
