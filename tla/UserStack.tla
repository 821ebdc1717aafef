----------------------------- MODULE UserStack -----------------------------
(***************************************************************************)
(* The user-level build: an application linked with libserval, the stack's *)
(* client threads that serve its sockets, the network side that fills the  *)
(* sockets, and the main thread that accepts clients, collects the ones    *)
(* that ended and joins them all when the daemon is told to stop.          *)
(*                                                                         *)
(* The application is one thread (libserval does not support full duplex   *)
(* use of a socket) that makes calls in any order the library lets it.     *)
(* A socket is a pair of streams of messages, up to the stack and down to  *)
(* the application; a client thread serves it from a select loop, and a    *)
(* handler that must wait does so on the socket's wait queue.              *)
(***************************************************************************)
EXTENDS ClientMsg

CONSTANTS
    Fds,         \* the descriptors an application may use, 1..n
    Datagram,    \* TRUE for UDP sockets, FALSE for TCP
    MaxCalls,    \* bound on the calls an application makes
    MaxNet,      \* bound on the events the network causes
    MaxIntr,     \* bound on the signals that interrupt a call
    NonBlocking, \* the file flags an application may choose: a set of BOOLEAN
    Starts       \* where the application is at first: with no socket, or with
                 \* one that listens or is connected

ASSUME UserStackConstants ==
    /\ Fds \subseteq Nat \ {0}
    /\ Datagram \in BOOLEAN
    /\ MaxCalls \in Nat /\ MaxNet \in Nat /\ MaxIntr \in Nat
    /\ NonBlocking \subseteq BOOLEAN
    /\ 1 \in Fds /\ Starts \subseteq {"fresh", "listening", "connected"}

VARIABLES
    cli,     \* libserval: class Cli of every descriptor
    up,      \* messages from the application to the stack
    down,    \* messages from the stack to the application
    app,     \* the application thread, and the call it is in
    clt,     \* the stack: struct client and its thread, by descriptor
    sk,      \* the stack: struct socket and struct sock of the client
    main,    \* the main thread: run, stop, done; or crashed
    calls, net, intr,   \* how much of the bounds is used
    lost     \* history: descriptors whose streams are out of step, and why

vars == <<cli, up, down, app, clt, sk, main, calls, net, intr, lost>>

NoCli == [st |-> "none", nb |-> FALSE, interrupted |-> FALSE, connecting |-> FALSE]
NoClt == [st |-> "none", pc |-> "loop", rdy |-> {}, msg |-> HaveData,
          has_data |-> FALSE, should_exit |-> FALSE, sig |-> 0,
          exitsig |-> FALSE, queued |-> FALSE, woken |-> FALSE]
NoSk == [st |-> "none", bound |-> FALSE, rcv |-> 0, fin |-> "no", acceptq |-> 0]
Idle == [pc |-> "idle", op |-> "none", fd |-> 0, id |-> 0, got |-> FALSE]

Init ==
    /\ \E start \in Starts, nb \in NonBlocking :
         /\ start = "fresh" => nb = (CHOOSE b \in NonBlocking : TRUE)
         /\ cli = [f \in Fds |-> IF f # 1 \/ start = "fresh" THEN NoCli
                                 ELSE [NoCli EXCEPT !.nb = nb,
                                         !.st = IF start = "listening" THEN "LISTEN" ELSE "BOUND"]]
         /\ clt = [f \in Fds |-> IF f # 1 \/ start = "fresh" THEN NoClt
                                 ELSE [NoClt EXCEPT !.st = "RUNNING"]]
         /\ sk = [f \in Fds |-> IF f # 1 \/ start = "fresh" THEN NoSk
                                ELSE [NoSk EXCEPT !.bound = TRUE,
                                        !.st = IF start = "listening" THEN "listen" ELSE "connected"]]
    /\ up = [f \in Fds |-> <<>>]
    /\ down = [f \in Fds |-> <<>>]
    /\ app = Idle
    /\ main = "run"
    /\ calls = 0 /\ net = 0 /\ intr = 0
    /\ lost = [f \in Fds |-> {}]

\* The ends of a descriptor's streams that are still open.
AppEnd(f) == cli[f].st \notin {"none", "deleted"}
StackEnd(f) == clt[f].st \in {"backlog", "NOT_RUNNING", "RUNNING"}

----------------------------------------------------------------------------
(* libserval: starting a call.                                              *)

\* The answer a call waits for, and the class that reads it.
Expected == [bind |-> BindRsp, connect |-> ConnectRsp, listen |-> ListenRsp,
             accept |-> AcceptRsp, accept2 |-> AcceptRsp2, send |-> SendRsp,
             recv |-> RecvRsp, close |-> CloseRsp, soerror |-> ConnectRsp]

CanCall(f) == /\ app.pc = "idle"
              /\ AppEnd(f)
              /\ lost[f] \subseteq {"abandoned"}
              /\ calls < MaxCalls

\* Message::write_to_stream_soc.  On a stream whose reader is gone the write
\* raises SIGPIPE, which ends an application that does not ignore it (AppExit);
\* otherwise the write counts as done and the call goes on to read.
write_to_stream_soc(f, m) == [up EXCEPT ![f] = IF StackEnd(f) THEN Append(@, m) ELSE @]

\* A call's request, after which the call waits for the answer.
Ask(f, op, m) ==
    /\ calls' = calls + 1
    /\ app' = [pc |-> "wait", op |-> op, fd |-> f, id |-> calls + 1, got |-> FALSE]
    /\ up' = write_to_stream_soc(f, [m EXCEPT !.id = calls + 1])

\* socket_sv and create_cli: a new descriptor, connected to the daemon.
create_cli(f, nb) ==
    /\ main \in {"run", "stop"}
    /\ cli[f].st = "none"
    /\ \A g \in Fds : g < f => cli[g].st # "none"
    /\ cli' = [cli EXCEPT ![f] = [@ EXCEPT !.st = "CLOSED", !.nb = nb]]
    /\ clt' = [clt EXCEPT ![f].st = "backlog"]

\* The application opens one socket itself; others come from accept_sv.
socket_sv ==
    /\ app.pc = "idle" /\ calls < MaxCalls
    /\ \A f \in Fds : cli[f].st = "none"
    /\ \E f \in Fds, nb \in NonBlocking : create_cli(f, nb)
    /\ UNCHANGED <<up, down, app, sk, main, calls, net, intr, lost>>

check_state_for_bind(f) == cli[f].st = "CLOSED"
check_state_for_connect(f) == cli[f].st \in {"UNBOUND", "CLOSED"}
check_state_for_listen(f) == cli[f].st \in {"UNBOUND", "LISTEN"}
check_state_for_accept(f) == cli[f].st = "LISTEN"
check_state_for_send(f) == cli[f].st = "BOUND"
check_state_for_sendto(f) == cli[f].st \in {"CLOSED", "BOUND", "UNBOUND"}

bind_sv(f) ==
    /\ CanCall(f) /\ check_state_for_bind(f)
    /\ Ask(f, "bind", BindReq)
    /\ UNCHANGED <<cli, down, clt, sk, main, net, intr, lost>>

\* A non-blocking connect returns EINPROGRESS with the answer still to come.
connect_sv(f) ==
    /\ CanCall(f) /\ check_state_for_connect(f)
    /\ IF cli[f].nb
       THEN /\ up' = write_to_stream_soc(f, [ConnectReq EXCEPT !.id = calls + 1])
            /\ cli' = [cli EXCEPT ![f].st = "REQUEST", ![f].connecting = TRUE]
            /\ lost' = [lost EXCEPT ![f] = @ \cup {"abandoned"}]
            /\ calls' = calls + 1
            /\ app' = app
       ELSE /\ Ask(f, "connect", ConnectReq)
            /\ UNCHANGED <<cli, lost>>
    /\ UNCHANGED <<down, clt, sk, main, net, intr>>

\* getsockopt_sv(SO_ERROR): how a non-blocking connect is to be finished.
getsockopt_sv(f) ==
    /\ CanCall(f) /\ cli[f].connecting
    /\ calls' = calls + 1
    /\ app' = IF has_unread_data(down[f], ~StackEnd(f), HDR + ConnectRsp.len) = "DATA_READY"
              THEN [pc |-> "wait", op |-> "soerror", fd |-> f, id |-> calls + 1, got |-> FALSE]
              ELSE app
    /\ UNCHANGED <<cli, up, down, clt, sk, main, net, intr, lost>>

listen_sv(f) ==
    /\ CanCall(f) /\ check_state_for_listen(f)
    /\ Ask(f, "listen", ListenReq)
    /\ UNCHANGED <<cli, down, clt, sk, main, net, intr, lost>>

\* A non-blocking accept looks for the answer right behind its request.
accept_sv(f) ==
    /\ CanCall(f) /\ check_state_for_accept(f)
    /\ \E g \in Fds : cli[g].st = "none"
    /\ LET found == has_unread_data(down[f], ~StackEnd(f), HDR + AcceptRsp.len)
       IN IF cli[f].nb /\ found \in {"DATA_WOULD_BLOCK", "DATA_NOT_ENOUGH"}
          THEN /\ up' = write_to_stream_soc(f, [AcceptReq EXCEPT !.id = calls + 1])
               /\ lost' = [lost EXCEPT ![f] = @ \cup {"abandoned"}]
               /\ calls' = calls + 1
               /\ app' = app
          ELSE /\ Ask(f, "accept", AcceptReq)
               /\ UNCHANGED lost
    /\ UNCHANGED <<cli, down, clt, sk, main, net, intr>>

\* send_sv and sendto_sv; the two differ in the states they allow and in the
\* destination they name.
send_sv(f) ==
    /\ CanCall(f) /\ check_state_for_send(f)
    /\ Ask(f, "send", SendReq(1))
    /\ UNCHANGED <<cli, down, clt, sk, main, net, intr, lost>>

sendto_sv(f) ==
    /\ CanCall(f) /\ check_state_for_sendto(f)
    /\ Datagram
    /\ Ask(f, "send", SendReq(1))
    /\ UNCHANGED <<cli, down, clt, sk, main, net, intr, lost>>

\* recv_sv, up to the request.  It looks for a notice first; a non-blocking
\* socket asks only when it finds one.
recv_sv(f) ==
    /\ CanCall(f)
    /\ LET nb == cli[f].nb
           found == has_unread_data(down[f], ~StackEnd(f), IF nb THEN HDR ELSE 1)
       IN IF \/ found = "DATA_CLOSED"
             \/ nb /\ found \in {"DATA_WOULD_BLOCK", "DATA_NOT_ENOUGH"}
          THEN calls' = calls + 1 /\ UNCHANGED <<app, up, down>>
          ELSE /\ calls' = calls + 1
               /\ app' = [pc |-> "wait", op |-> "recv", fd |-> f, id |-> calls + 1,
                          got |-> nb \/ found = "DATA_READY"]
               /\ up' = write_to_stream_soc(f, [RecvReq EXCEPT !.id = calls + 1])
               /\ down' = IF found = "DATA_READY"
                          THEN [down EXCEPT ![f] = Tail(@)] ELSE down
    /\ UNCHANGED <<cli, clt, sk, main, net, intr, lost>>

\* delete_cli: the descriptor is closed, the Cli forgotten.
delete_cli(c) == [c EXCEPT !.st = "deleted"]

\* close_sv: a socket whose connect was interrupted is dropped unasked.
close_sv(f) ==
    /\ CanCall(f)
    /\ IF cli[f].interrupted
       THEN /\ cli' = [cli EXCEPT ![f] = delete_cli(@)]
            /\ down' = [down EXCEPT ![f] = <<>>]
            /\ calls' = calls + 1
            /\ UNCHANGED <<app, up>>
       ELSE Ask(f, "close", CloseReq) /\ UNCHANGED <<cli, down>>
    /\ UNCHANGED <<clt, sk, main, net, intr, lost>>

----------------------------------------------------------------------------
(* libserval: the answer.                                                   *)

\* The state a call that got its answer leaves its Cli in.
StateAfter(op, ok, st) ==
    CASE op = "bind" /\ ok -> "UNBOUND"
      [] op \in {"connect", "soerror", "accept2"} /\ ok -> "BOUND"
      [] op = "listen" /\ ok -> "LISTEN"
      [] OTHER -> st

\* The calls after which the Cli is deleted: close_sv whatever came, and
\* accept_sv the new one that could not be hooked up.
Deletes(ok) == app.op = "close" \/ (app.op = "accept2" /\ ~ok)

\* The end of a call: accept_sv goes on to make the socket of the connection.
Return(f, ok) ==
    /\ cli' = [cli EXCEPT ![f] =
                 IF Deletes(ok) THEN delete_cli(@)
                 ELSE [@ EXCEPT !.st = StateAfter(app.op, ok, @),
                                !.connecting = @ /\ ~(app.op = "soerror" /\ ok)]]
    /\ app' = IF app.op = "accept" /\ ok THEN [app EXCEPT !.pc = "create"] ELSE Idle

Waiting == app.pc \in {"wait", "wait2"}

\* Mutant: query_serval_send expects its answer first.
TakesNoticeNotSend == app.pc = "wait" /\ app.op \in {"recv", "close"}

\* A notice in front of the answer: the calls that expect one.
TakesNotice == app.pc = "wait" /\ app.op \in {"send", "recv", "close"}

read_notice(f) ==
    /\ Waiting /\ f = app.fd /\ down[f] # <<>>
    /\ Head(down[f]).type = "HAVE_DATA"
    /\ TakesNotice
    /\ down' = [down EXCEPT ![f] = Tail(@)]
    /\ app' = [app EXCEPT !.pc = "wait2", !.got = TRUE]
    /\ UNCHANGED <<cli, up, clt, sk, main, calls, net, intr, lost>>

\* A ClearData is due for a notice that was taken: recv writes it when it has
\* the header of the answer, send only after an answer without error.
Clears(m) == app.got /\ \/ app.op = "recv"
                        \/ app.op = "send" /\ ~m.err

read_answer(f) ==
    /\ Waiting /\ f = app.fd /\ down[f] # <<>>
    /\ Head(down[f]).type = Expected[app.op].type
    /\ LET m == Head(down[f]) IN
       /\ Return(f, ~m.err)
       /\ down' = [down EXCEPT ![f] = IF Deletes(~m.err) THEN <<>> ELSE Tail(@)]
       /\ up' = IF Clears(m) THEN write_to_stream_soc(f, ClearData) ELSE up
       /\ lost' = [lost EXCEPT ![f] =
                      IF ReadsWhole(Expected[app.op], m) /\ (app.op # "soerror" => m.id = app.id)
                      THEN @ ELSE @ \cup {"misread"}]
    /\ UNCHANGED <<clt, sk, main, calls, net, intr>>

\* Any other message: bytes of it are taken for the answer, and what follows
\* in the stream is out of step with the library.  bind, connect, listen and
\* accept read a notice this way.
read_other(f) ==
    /\ Waiting /\ f = app.fd /\ down[f] # <<>>
    /\ Head(down[f]).type # Expected[app.op].type
    /\ LET notice == Head(down[f]).type = "HAVE_DATA" IN
       /\ ~(notice /\ TakesNotice)
       /\ lost' = [lost EXCEPT ![f] = @ \cup
                     {IF notice /\ app.op \in {"bind", "connect", "listen", "accept"}
                      THEN "early" ELSE "misread"}]
    /\ \E ok \in BOOLEAN : Return(f, ok)
    /\ down' = [down EXCEPT ![f] = <<>>]
    /\ UNCHANGED <<up, clt, sk, main, calls, net, intr>>

\* The stack closed its end.  With requests unread there it is a reset, and
\* the call fails; an end of file passes for an answer without error in the
\* calls that only look for a negative result.
read_eof(f) ==
    /\ Waiting /\ f = app.fd /\ down[f] = <<>> /\ ~StackEnd(f)
    /\ Return(f, up[f] = <<>> /\ app.op # "close" /\ app.pc = "wait")
    /\ UNCHANGED <<up, down, clt, sk, main, calls, net, intr, lost>>

\* A signal handler ran while the call was blocked: it returns EINTR and
\* leaves the answer to be written behind its back.
Interrupt(f) ==
    /\ Waiting /\ f = app.fd /\ down[f] = <<>> /\ StackEnd(f)
    /\ intr < MaxIntr
    /\ intr' = intr + 1
    /\ cli' = [cli EXCEPT ![f] =
                 IF Deletes(FALSE) THEN delete_cli(@)
                 ELSE [@ EXCEPT !.interrupted = @ \/ app.op = "connect"]]
    /\ app' = Idle
    /\ lost' = [lost EXCEPT ![f] = @ \cup {"abandoned"}]
    /\ UNCHANGED <<up, down, clt, sk, main, calls, net>>

\* accept_sv, after the first answer: a new socket, and the request on it
\* that hooks it up with the connection.
accept_create ==
    /\ app.pc = "create"
    /\ IF main \in {"run", "stop"}
       THEN \E g \in Fds :
              /\ create_cli(g, FALSE)
              /\ up' = [up EXCEPT ![g] = <<[AcceptReq2 EXCEPT !.id = app.id]>>]
              /\ app' = [app EXCEPT !.pc = "wait", !.op = "accept2", !.fd = g]
              /\ lost' = [lost EXCEPT ![g] = lost[app.fd]]
       ELSE app' = Idle /\ UNCHANGED <<cli, clt, up, lost>>
    /\ UNCHANGED <<down, sk, main, calls, net, intr>>

\* The application ends, and its descriptors with it.
AppExit ==
    /\ app.pc # "dead"
    /\ app' = [Idle EXCEPT !.pc = "dead"]
    /\ cli' = [f \in Fds |-> IF AppEnd(f) THEN delete_cli(cli[f]) ELSE cli[f]]
    /\ down' = [f \in Fds |-> <<>>]
    /\ UNCHANGED <<up, clt, sk, main, calls, net, intr, lost>>

----------------------------------------------------------------------------
(* The stack: a client thread.                                              *)

Tell(f, m) == [down EXCEPT ![f] = client_msg_write(@, AppEnd(f), m)]

\* Mutant: only a hangup ends a wait.
signal_pendingHup(f) == ~AppEnd(f)

\* signal_pending: the exit pipe, or the application hung up.
signal_pending(f) == clt[f].exitsig \/ ~AppEnd(f)

\* serval_release and client_close: the socket goes, with what it had queued.
Released(f) == [sk EXCEPT ![f] = NoSk]

client_start(f) ==
    /\ clt[f].st = "NOT_RUNNING"
    /\ clt' = [clt EXCEPT ![f].st = "RUNNING"]
    /\ UNCHANGED <<cli, up, down, app, sk, main, calls, net, intr, lost>>

\* client_thread: select, then the pipes that were ready, then one message.
Ready(f) == { r \in {"exit", "data", "fd"} :
                \/ r = "exit" /\ clt[f].exitsig
                \/ r = "data" /\ clt[f].sig > 0
                \/ r = "fd" /\ (up[f] # <<>> \/ ~AppEnd(f)) }

\* The loop's test of should_exit; the thread then enters select.
client_loop(f) ==
    /\ clt[f].st = "RUNNING" /\ clt[f].pc = "loop" /\ ~clt[f].should_exit
    /\ clt' = [clt EXCEPT ![f].pc = "select"]
    /\ UNCHANGED <<cli, up, down, app, sk, main, calls, net, intr, lost>>

\* select returns with what is ready, whatever should_exit is by then.
client_select(f) ==
    /\ clt[f].st = "RUNNING" /\ clt[f].pc = "select"
    /\ Ready(f) # {}
    /\ clt' = [clt EXCEPT ![f].rdy = Ready(f),
                          ![f].pc = "pipes"]
    /\ UNCHANGED <<cli, up, down, app, sk, main, calls, net, intr, lost>>

\* client_send_have_data_msg, for one byte of the data pipe.
Notifies(f) == "data" \in clt[f].rdy /\ ~clt[f].has_data

client_pipes(f) ==
    /\ clt[f].st = "RUNNING" /\ clt[f].pc = "pipes"
    /\ LET c == clt[f] IN
       clt' = [clt EXCEPT ![f] =
                 [c EXCEPT !.should_exit = @ \/ "exit" \in c.rdy,
                           !.exitsig = @ /\ "exit" \notin c.rdy,
                           !.sig = IF "data" \in c.rdy THEN @ - 1 ELSE @,
                           !.has_data = @ \/ "data" \in c.rdy,
                           !.rdy = {},
                           !.pc = IF "fd" \in c.rdy THEN "msg" ELSE "loop"]]
    /\ down' = IF Notifies(f) THEN Tell(f, HaveData) ELSE down
    /\ UNCHANGED <<cli, up, app, sk, main, calls, net, intr, lost>>

\* The end of the thread: client_close, and the main thread collects it.
client_exit(f) ==
    /\ clt[f].st = "RUNNING" /\ clt[f].pc = "loop" /\ clt[f].should_exit
    /\ clt' = [clt EXCEPT ![f] = [NoClt EXCEPT !.st = "GARBAGE"]]
    /\ sk' = Released(f)
    /\ UNCHANGED <<cli, up, down, app, main, calls, net, intr, lost>>

\* client_handle_msg, on a stream at its end.
client_eof(f) ==
    /\ clt[f].st = "RUNNING" /\ clt[f].pc = "msg" /\ up[f] = <<>>
    /\ clt' = [clt EXCEPT ![f].pc = "loop", ![f].should_exit = TRUE]
    /\ UNCHANGED <<cli, up, down, app, sk, main, calls, net, intr, lost>>

\* The listening socket that accept2 finds by its serviceID.
Parents == {p \in Fds : sk[p].st = "listen"}

\* The handlers that answer at once: the answer and the socket afterwards.
HandleBind(f, m, failed) ==
    [rsp |-> Rsp("BIND_RSP", m.id, failed), sk |-> [sk[f] EXCEPT !.bound = TRUE]]
HandleListen(f, m) ==
    LET ok == sk[f].st \in {"init", "listen", "closed"} IN
    [rsp |-> Rsp("LISTEN_RSP", m.id, ~ok),
     sk |-> IF ok THEN [sk[f] EXCEPT !.st = "listen", !.bound = TRUE] ELSE sk[f]]
HandleSend(f, m) ==
    [rsp |-> Rsp("SEND_RSP", m.id, sk[f].st \notin {"connected"} \cup (IF Datagram THEN {"init"} ELSE {})),
     sk |-> [sk[f] EXCEPT !.bound = TRUE]]
HandleClose(f, m) == [rsp |-> Rsp("CLOSE_RSP", m.id, FALSE), sk |-> NoSk]

Answers(f, m) ==
    CASE m.type = "BIND_REQ" -> {HandleBind(f, m, e) : e \in BOOLEAN}
      [] m.type = "LISTEN_REQ" -> {HandleListen(f, m)}
      [] m.type = "SEND_REQ" -> {HandleSend(f, m)}
      [] m.type = "CLOSE_REQ" -> {HandleClose(f, m)}
      [] OTHER -> {}

AtMessage(f, types) ==
    /\ clt[f].st = "RUNNING" /\ clt[f].pc = "msg" /\ up[f] # <<>>
    /\ Head(up[f]).type \in types
    /\ client_msg_read(Head(up[f]))
    /\ up' = [up EXCEPT ![f] = Tail(@)]

client_handle_now(f) ==
    /\ AtMessage(f, {"BIND_REQ", "LISTEN_REQ", "SEND_REQ", "CLOSE_REQ"})
    /\ \E a \in Answers(f, Head(up[f])) :
         down' = Tell(f, a.rsp) /\ sk' = [sk EXCEPT ![f] = a.sk]
    /\ clt' = [clt EXCEPT ![f].pc = "loop"]
    /\ UNCHANGED <<cli, app, main, calls, net, intr, lost>>

client_handle_clear_data_msg(f) ==
    /\ AtMessage(f, {"CLEAR_DATA"})
    /\ clt' = [clt EXCEPT ![f].has_data = FALSE, ![f].pc = "loop"]
    /\ UNCHANGED <<cli, down, app, sk, main, calls, net, intr, lost>>

\* The handlers that may wait.  What they wait for is looked at before the
\* thread is put on the wait queue, and again before it sleeps.
Satisfied(f, m) ==
    CASE m.type = "CONNECT_REQ" -> sk[f].st # "request"
      [] m.type = "RECV_REQ" -> \/ sk[f].rcv > 0
                                \/ sk[f].fin # "no"
                                \/ sk[f].st = "closed"
                                \/ ~Datagram /\ sk[f].st # "connected"
      [] m.type = "ACCEPT_REQ" -> sk[f].acceptq > 0
      [] m.type = "ACCEPT2_REQ" -> \A p \in Parents : sk[p].acceptq > 0

\* The answer of such a handler, and the sockets afterwards, once it is
\* satisfied (ok) or was woken by a signal.
Outcome(f, m, ok) ==
    CASE m.type = "CONNECT_REQ" ->
           [rsp |-> Rsp("CONNECT_RSP", m.id, ~(ok /\ sk[f].st = "connected")), sk |-> sk]
      [] m.type = "RECV_REQ" ->
           IF ok /\ sk[f].rcv > 0 /\ (sk[f].st # "closed")
           THEN [rsp |-> DataRsp(m.id, 1), sk |-> [sk EXCEPT ![f].rcv = @ - 1]]
           ELSE IF ok /\ sk[f].fin # "no"
           THEN [rsp |-> DataRsp(m.id, 0), sk |-> [sk EXCEPT ![f].fin = "read"]]
           ELSE [rsp |-> Rsp("RECV_RSP", m.id, TRUE), sk |-> sk]
      [] m.type = "ACCEPT_REQ" -> [rsp |-> Rsp("ACCEPT_RSP", m.id, ~ok), sk |-> sk]
      [] m.type = "ACCEPT2_REQ" ->
           IF ok /\ Parents # {}
           THEN LET p == CHOOSE q \in Parents : TRUE IN
                [rsp |-> Rsp("ACCEPT2_RSP", m.id, FALSE),
                 sk |-> [sk EXCEPT ![p].acceptq = @ - 1,
                                   ![f] = [NoSk EXCEPT !.st = "connected"]]]
           ELSE [rsp |-> Rsp("ACCEPT2_RSP", m.id, TRUE), sk |-> sk]

Answer(f, m, ok) ==
    LET o == Outcome(f, m, ok) IN
    /\ down' = Tell(f, o.rsp)
    /\ sk' = o.sk
    /\ clt' = [clt EXCEPT ![f].pc = "loop", ![f].msg = HaveData,
                          ![f].queued = FALSE, ![f].woken = FALSE]

\* client_handle_connect_req_msg: serval_connect sends the request, and waits.
client_handle_connect_req_msg(f) ==
    /\ AtMessage(f, {"CONNECT_REQ"})
    /\ LET m == Head(up[f]) IN
       IF sk[f].st \in {"connected", "listen"}
       THEN /\ down' = Tell(f, Rsp("CONNECT_RSP", m.id, TRUE))
            /\ clt' = [clt EXCEPT ![f].pc = "loop"]
            /\ sk' = sk
       ELSE /\ sk' = [sk EXCEPT ![f].st = "request"]
            /\ clt' = [clt EXCEPT ![f].pc = "prepare", ![f].msg = m]
            /\ down' = down
    /\ UNCHANGED <<cli, app, main, calls, net, intr, lost>>

\* client_handle_recv_req_msg and client_handle_accept_req_msg.
client_handle_wait(f) ==
    /\ AtMessage(f, {"RECV_REQ", "ACCEPT_REQ"})
    /\ LET m == Head(up[f]) IN
       IF Satisfied(f, m) THEN Answer(f, m, TRUE)
       ELSE /\ clt' = [clt EXCEPT ![f].pc = "prepare", ![f].msg = m]
            /\ UNCHANGED <<down, sk>>
    /\ UNCHANGED <<cli, app, main, calls, net, intr, lost>>

\* client_handle_accept2_req_msg: the parent is looked up, the client's own
\* sock is dropped for the one of the connection ...
client_handle_accept2_req_msg(f) ==
    /\ AtMessage(f, {"ACCEPT2_REQ"})
    /\ LET m == Head(up[f]) IN
       IF Parents = {} THEN Answer(f, m, FALSE)
       ELSE /\ sk' = Released(f)
            /\ clt' = [clt EXCEPT ![f].pc = "graft", ![f].msg = m]
            /\ down' = down
    /\ UNCHANGED <<cli, app, main, calls, net, intr, lost>>

\* The daemon is gone, and the stack's end of every stream with it.
Gone == [f \in Fds |-> IF clt[f].st = "none" THEN clt[f] ELSE [NoClt EXCEPT !.st = "freed"]]
Crash == /\ main' = "crashed"
         /\ clt' = Gone
         /\ sk' = [f \in Fds |-> NoSk]

\* ... and serval_accept reads psk->sk_socket, which is NULL when the
\* parent's own thread released it in between.
client_graft(f) ==
    /\ clt[f].st = "RUNNING" /\ clt[f].pc = "graft"
    /\ IF Parents = {} THEN Crash /\ UNCHANGED down
       ELSE /\ main' = main
            /\ IF Satisfied(f, clt[f].msg) THEN Answer(f, clt[f].msg, TRUE)
               ELSE /\ clt' = [clt EXCEPT ![f].pc = "prepare"]
                    /\ UNCHANGED <<down, sk>>
    /\ UNCHANGED <<cli, up, app, calls, net, intr, lost>>


\* prepare_to_wait
prepare_to_wait(f) ==
    /\ clt[f].st = "RUNNING" /\ clt[f].pc = "prepare"
    /\ clt' = [clt EXCEPT ![f].pc = "check", ![f].queued = TRUE]
    /\ UNCHANGED <<cli, up, down, app, sk, main, calls, net, intr, lost>>

\* The condition of the wait, on the queue.
wait_check(f) ==
    /\ clt[f].st = "RUNNING" /\ clt[f].pc = "check"
    /\ LET ok == Satisfied(f, clt[f].msg) IN
       IF ok \/ signal_pending(f) THEN Answer(f, clt[f].msg, ok)
       ELSE clt' = [clt EXCEPT ![f].pc = "sleep"] /\ UNCHANGED <<down, sk>>
    /\ UNCHANGED <<cli, up, app, main, calls, net, intr, lost>>

\* Mutant: schedule_timeout polls the wait's pipe alone.
WakesPipeOnly(f) == clt[f].woken

\* schedule_timeout returns for a byte in the wait's pipe, the exit pipe or a
\* hangup.  accept waits on with the pipe it has, the others with a new one.
Wakes(f) == clt[f].woken \/ signal_pending(f)
schedule_timeout(f) ==
    /\ clt[f].st = "RUNNING" /\ clt[f].pc = "sleep" /\ Wakes(f)
    /\ clt' = [clt EXCEPT ![f].pc = "prepare",
                          ![f].woken = @ /\ clt[f].msg.type \in {"ACCEPT_REQ", "ACCEPT2_REQ"}]
    /\ UNCHANGED <<cli, up, down, app, sk, main, calls, net, intr, lost>>

----------------------------------------------------------------------------
(* The network side: protocol processing that changes a socket.             *)

Up == main \in {"run", "stop"}
NetEvent == Up /\ net < MaxNet /\ net' = net + 1

\* __wake_up_common, with autoremove_wake_function: the threads on the wait queue of
\* socket f get a byte in their pipe and leave the queue.
OnQueueOf(f) == {g \in Fds : clt[g].queued /\ \/ g = f
                                              \/ clt[g].msg.type = "ACCEPT2_REQ"}
wake_up(c, f) ==
    [g \in Fds |-> IF g \in OnQueueOf(f)
                   THEN [c[g] EXCEPT !.woken = TRUE, !.queued = FALSE] ELSE c[g]]

\* sock_def_readable: wakes the sleepers, and raises CLIENT_SIG_READ unless
\* the application has been told already.
sock_def_readable(f) ==
    [wake_up(clt, f) EXCEPT ![f].sig = IF clt[f].has_data THEN @ ELSE @ + 1]

NetConnect(f) ==
    /\ Up /\ sk[f].st = "request"
    /\ \E st \in {"connected", "closed"} : sk' = [sk EXCEPT ![f].st = st]
    /\ clt' = wake_up(clt, f)
    /\ UNCHANGED <<cli, up, down, app, main, calls, net, intr, lost>>

NetData(f) ==
    /\ NetEvent
    /\ \/ sk[f].st = "connected" /\ sk[f].fin = "no"
       \/ Datagram /\ sk[f].st = "init" /\ sk[f].bound
    /\ sk' = [sk EXCEPT ![f].rcv = @ + 1]
    /\ clt' = sock_def_readable(f)
    /\ UNCHANGED <<cli, up, down, app, main, calls, intr, lost>>

NetFin(f) ==
    /\ NetEvent
    /\ sk[f].st = "connected" /\ sk[f].fin = "no"
    /\ sk' = [sk EXCEPT ![f].fin = "queued"]
    /\ clt' = sock_def_readable(f)
    /\ UNCHANGED <<cli, up, down, app, main, calls, intr, lost>>

NetAccept(f) ==
    /\ NetEvent
    /\ sk[f].st = "listen"
    /\ sk' = [sk EXCEPT ![f].acceptq = @ + 1]
    /\ clt' = wake_up(clt, f)
    /\ UNCHANGED <<cli, up, down, app, main, calls, intr, lost>>

\* Data for a connection that is not accepted yet: its sock has no socket,
\* and sock_def_readable reads sk->sk_socket->client.
NetEarlyData(f) ==
    /\ NetEvent
    /\ sk[f].acceptq > 0
    /\ Crash
    /\ UNCHANGED <<cli, up, down, app, calls, intr, lost>>

----------------------------------------------------------------------------
(* The main thread: server_run and garbage_collect_clients.                 *)

accept_client(f) ==
    /\ main = "run" /\ clt[f].st = "backlog"
    /\ clt' = [clt EXCEPT ![f].st = "NOT_RUNNING"]
    /\ sk' = [sk EXCEPT ![f].st = "init"]
    /\ UNCHANGED <<cli, up, down, app, main, calls, net, intr, lost>>

Listed == {f \in Fds : clt[f].st \in {"NOT_RUNNING", "RUNNING", "GARBAGE"}}
Garbage == {f \in Fds : clt[f].st = "GARBAGE"}

garbage_collect_clients ==
    /\ main = "run" /\ Garbage # {}
    /\ clt' = [f \in Fds |-> IF f \in Garbage THEN [NoClt EXCEPT !.st = "freed"] ELSE clt[f]]
    /\ UNCHANGED <<cli, up, down, app, sk, main, calls, net, intr, lost>>

SigTerm ==
    /\ main = "run"
    /\ main' = "stop"
    /\ UNCHANGED <<cli, up, down, app, clt, sk, calls, net, intr, lost>>

\* One client of the list after the other is told to exit and joined.
FirstListed(f) == f \in Listed /\ \A g \in Listed : f <= g

client_signal_exit(f) ==
    /\ main = "stop" /\ FirstListed(f) /\ ~clt[f].should_exit
    /\ clt' = [clt EXCEPT ![f].should_exit = TRUE, ![f].exitsig = TRUE]
    /\ UNCHANGED <<cli, up, down, app, sk, main, calls, net, intr, lost>>

join_client(f) ==
    /\ main = "stop" /\ FirstListed(f) /\ clt[f].st = "GARBAGE"
    /\ clt' = [clt EXCEPT ![f] = [NoClt EXCEPT !.st = "freed"]]
    /\ UNCHANGED <<cli, up, down, app, sk, main, calls, net, intr, lost>>

server_end ==
    /\ main = "stop" /\ Listed = {}
    /\ main' = "done"
    /\ clt' = Gone
    /\ UNCHANGED <<cli, up, down, app, sk, calls, net, intr, lost>>

----------------------------------------------------------------------------
ClientStep(f) ==
    \/ client_start(f) \/ client_loop(f) \/ client_select(f) \/ client_pipes(f) \/ client_exit(f)
    \/ client_eof(f) \/ client_handle_now(f) \/ client_handle_clear_data_msg(f)
    \/ client_handle_connect_req_msg(f) \/ client_handle_wait(f)
    \/ client_handle_accept2_req_msg(f) \/ client_graft(f)
    \/ prepare_to_wait(f) \/ wait_check(f) \/ schedule_timeout(f)

ReadStep(f) == read_notice(f) \/ read_answer(f) \/ read_other(f) \/ read_eof(f)

CallStep(f) ==
    \/ bind_sv(f) \/ connect_sv(f) \/ getsockopt_sv(f) \/ listen_sv(f)
    \/ accept_sv(f) \/ send_sv(f) \/ sendto_sv(f) \/ recv_sv(f) \/ close_sv(f)

MainStep ==
    \/ garbage_collect_clients \/ server_end
    \/ \E f \in Fds : accept_client(f) \/ client_signal_exit(f) \/ join_client(f)

Next ==
    \/ socket_sv \/ accept_create \/ AppExit \/ SigTerm \/ MainStep
    \/ \E f \in Fds : \/ CallStep(f) \/ ReadStep(f) \/ Interrupt(f) \/ ClientStep(f)
                      \/ NetConnect(f) \/ NetData(f) \/ NetFin(f)
                      \/ NetAccept(f) \/ NetEarlyData(f)

Spec == Init /\ [][Next]_vars

\* The threads of the daemon are scheduled; a call that is under way reads
\* what is there for it; the SAL ends every connection request.  Nothing
\* obliges an application to call, to end, or the network to send.
ClientCanStep(f) ==
    \/ clt[f].st = "NOT_RUNNING"
    \/ /\ clt[f].st = "RUNNING"
       /\ \/ clt[f].pc \in {"loop", "pipes", "msg", "graft", "prepare", "check"}
          \/ clt[f].pc = "select" /\ Ready(f) # {}
          \/ clt[f].pc = "sleep" /\ Wakes(f)
AppCanStep ==
    \/ app.pc = "create"
    \/ Waiting /\ (down[app.fd] # <<>> \/ ~StackEnd(app.fd))
MainCanStep ==
    \/ main = "run" /\ (Garbage # {} \/ \E f \in Fds : clt[f].st = "backlog")
    \/ main = "stop" /\ \A f \in Listed :
                           FirstListed(f) => ~clt[f].should_exit \/ clt[f].st = "GARBAGE"

Fairness ==
    /\ \A f \in Fds : []<>~ClientCanStep(f) \/ []<><<ClientStep(f)>>_vars
    /\ []<>~AppCanStep \/ []<><<accept_create \/ \E f \in Fds : ReadStep(f)>>_vars
    /\ []<>~MainCanStep \/ []<><<MainStep>>_vars
    /\ \A f \in Fds : []<>~(Up /\ sk[f].st = "request") \/ []<><<NetConnect(f)>>_vars

FairSpec == Spec /\ Fairness

----------------------------------------------------------------------------
(* Properties                                                               *)

\* A call is answered by the answer to its own request, unless an earlier call
\* on the socket was abandoned (a signal, a non-blocking connect or accept).
\* A bind, connect, listen or accept that comes upon a notice is set apart
\* ("early"): it reads the notice as its answer, and its own answer is left.
ReplyMatches == \A f \in Fds : "misread" \in lost[f] => "abandoned" \in lost[f]

\* Data that waits in a socket is announced: when the client thread has
\* nothing left to do and the application is not in a call, there is a notice
\* in the stream for a select() on it.
NoticeForData ==
    \A f \in Fds :
        /\ sk[f].rcv > 0 /\ clt[f].st = "RUNNING" /\ clt[f].pc = "select"
        /\ Ready(f) = {} /\ app.pc = "idle" /\ AppEnd(f) /\ lost[f] = {}
        => down[f] # <<>>

\* A thread that waits in a handler and has no exit byte to end the wait: the
\* select that found the request found the byte too, the thread took the byte
\* from its pipe first, and then began to serve the request.
Deaf(f) ==
    /\ clt[f].st = "RUNNING" /\ clt[f].pc \in {"prepare", "check", "sleep"}
    /\ clt[f].should_exit /\ ~clt[f].exitsig
    /\ AppEnd(f) /\ ~Satisfied(f, clt[f].msg)
DeafForEver == \E f \in Fds : <>[]Deaf(f)

\* A call that is asked of the stack returns, also when the daemon crashes or
\* is told to stop: at once for the calls that do not wait for the network,
\* and for recv and accept when there is something to hand out.  A recv or
\* accept that finds nothing returns when the daemon stops, unless its thread
\* is deaf and stays so.
Returns ==
    /\ Waiting /\ lost[app.fd] = {}
    /\ \/ app.op \notin {"recv", "accept"}
       \/ app.op = "recv" /\ (sk[app.fd].rcv > 0 \/ sk[app.fd].fin # "no")
       \/ app.op = "accept" /\ sk[app.fd].acceptq > 0
Abandons == Waiting /\ lost[app.fd] = {} /\ main # "run"

\* A daemon that is told to stop ends: every client thread leaves the handler
\* it waits in, and is joined.  The one thing that keeps it from ending is a
\* deaf thread whose application neither hangs up nor gets what it waits for.
Stopped == main \in {"done", "crashed"}
ShutdownEnds == DeafForEver \/ ((main = "stop") ~> Stopped)

\* What the application closed, by a call or by ending, is collected, unless
\* the main thread waits to join a deaf thread.
ClientsCollected ==
    \/ DeafForEver
    \/ \A f \in Fds : (cli[f].st = "deleted") ~> (clt[f].st = "freed")

\* Stopping without exception, as client_signal_exit and the join behind it in
\* server_run intend; false of the code.
StopAlwaysEnds == (main = "stop") ~> Stopped
=============================================================================
