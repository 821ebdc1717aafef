----------------------------- MODULE UserTimer -----------------------------
(***************************************************************************)
(* The user-level stack's emulation of kernel timers: the timer list of    *)
(* stack/userlevel/timer.c, the main loop of userlevel/serval.c that       *)
(* sleeps until the first timer is due, and the threads that arm and stop  *)
(* socket timers with sk_reset_timer and sk_stop_timer (userlevel/sock.c). *)
(*                                                                         *)
(* Each timer belongs to one socket.  A thread holds the socket lock from  *)
(* the call of sk_reset_timer or sk_stop_timer to its return, and so does  *)
(* the timer's callback.  What runs under the mutex of the list is one     *)
(* step here: the mutex is seen held between two steps only if somebody    *)
(* returned without releasing it.                                          *)
(***************************************************************************)
EXTENDS Integers, Sequences, SeqOps

CONSTANTS
    Timers,    \* the timers, one per socket
    Threads,   \* the threads that serve clients and packets
    Delays,    \* the delays, in jiffies, that timers are armed with (bound)
    MaxTime,   \* the last jiffy (bound)
    MaxOps,    \* calls of sk_reset_timer and sk_stop_timer per thread (bound)
    NoTimer    \* no timer

ASSUME UserTimerAssumption ==
    /\ Delays \subseteq Nat \ {0}
    /\ MaxTime \in Nat
    /\ MaxOps \in Nat
    /\ NoTimer \notin Timers

VARIABLES
    now,       \* jiffies
    list,      \* timer_list.head: the pending timers, next to fire first
    expires,   \* expires[t]: the jiffy that t was last armed for
    due,       \* due[t]: expires_abs, when t is to fire
    refs,      \* refs[t]: references on the socket taken for t
    mutex,     \* the mutex of the list is held, by somebody who is gone
    signal,    \* a byte waits in the signal pipe
    loop,      \* the main loop
    thr,       \* thr[h]: the call thread h is in
    ops        \* ops[h]: calls thread h has made

vars == <<now, list, expires, due, refs, mutex, signal, loop, thr, ops>>

\* A time that is never reached: the deadline of an empty list, and the
\* result of expires - jiffies when expires is past (the difference is
\* unsigned and wraps around to centuries).
Never == 1000000

Horizon == {n + d : n \in 0..MaxTime, d \in Delays \cup {0}}

LoopStates == [pc : {"top", "select", "timeout", "call"},
               deadline : Horizon \cup {Never},
               timer : Timers \cup {NoTimer}]

Calls == [pc : {"idle", "mod", "del", "signal"},
          timer : Timers \cup {NoTimer},
          expires : Horizon]

Idle == [pc |-> "idle", timer |-> NoTimer, expires |-> 0]

-----------------------------------------------------------------------------
\* The timer list.

timer_pending(t) == Contains(list, t)

IsFirst(t) == timer_pending(t) /\ Head(list) = t

\* A thread is inside a timer call on t, with the socket of t locked.
SockLocked(t) == \E h \in Threads : thr[h].timer = t

\* expires_abs as mod_timer computes it.
ExpiresAbs(e) == IF e >= now THEN e ELSE Never

\* list_del: t is taken out of the list, if it is there.
Unlink(t) ==
    IF timer_pending(t) THEN RemoveAt(list, CHOOSE i \in 1..Len(list) : list[i] = t) ELSE list

\* t goes before the first entry of l that is due later than d.
InsertTimer(l, t, d) ==
    LET later == {i \in 1..Len(l) : d < due[l[i]]}
        at == IF later = {} THEN Len(l) + 1
              ELSE CHOOSE i \in later : \A j \in later : i <= j
    IN  InsertAt(l, at, t)

\* Mutant: the loop is told only when the list was empty.
MutModTimer(t, e) ==
    IF timer_pending(t) /\ expires[t] = e
    THEN UNCHANGED <<list, expires, due, signal>>
    ELSE LET d == ExpiresAbs(e)
         IN  /\ expires' = [expires EXCEPT ![t] = e]
             /\ due' = [due EXCEPT ![t] = d]
             /\ list' = InsertTimer(Unlink(t), t, d)
             /\ signal' = (signal \/ Len(list') = 1)

mod_timer(t, e) ==
    IF timer_pending(t) /\ expires[t] = e
    THEN UNCHANGED <<list, expires, due, signal>>
    ELSE LET d == ExpiresAbs(e)
         IN  /\ expires' = [expires EXCEPT ![t] = e]
             /\ due' = [due EXCEPT ![t] = d]
             /\ list' = InsertTimer(Unlink(t), t, d)
             /\ signal' = (signal \/ Head(list') = t)

-----------------------------------------------------------------------------
\* The threads.

Enter(h, t, pc, e) ==
    /\ thr[h] = Idle
    /\ ~SockLocked(t)
    /\ ops[h] < MaxOps
    /\ ops' = [ops EXCEPT ![h] = @ + 1]
    /\ thr' = [thr EXCEPT ![h] = [pc |-> pc, timer |-> t, expires |-> e]]

Leave(h) == thr' = [thr EXCEPT ![h] = Idle]

\* A thread reads jiffies and adds the delay, on its way to mod_timer.
sk_reset_timer(h, t, d) ==
    /\ Enter(h, t, "mod", now + d)
    /\ UNCHANGED <<now, list, expires, due, refs, mutex, signal, loop>>

\* mod_timer, and the reference for a timer that was not pending.
ResetMod(h) ==
    LET t == thr[h].timer
    IN  /\ thr[h].pc = "mod"
        /\ ~mutex
        /\ mod_timer(t, thr[h].expires)
        /\ refs' = [refs EXCEPT ![t] = IF timer_pending(t) THEN @ ELSE @ + 1]
        /\ Leave(h)
        /\ UNCHANGED <<now, mutex, loop, ops>>

\* timer_pending is read without the mutex; a timer that is not pending is
\* left alone.
sk_stop_timer(h, t) ==
    /\ timer_pending(t)
    /\ Enter(h, t, "del", 0)
    /\ UNCHANGED <<now, list, expires, due, refs, mutex, signal, loop>>

\* del_timer of a timer that has fired since returns with the mutex held;
\* of a pending one, unlinks it, and tells the loop if it was the first.
DelTimer(h) ==
    LET t == thr[h].timer
    IN  /\ thr[h].pc = "del"
        /\ ~mutex
        /\ IF timer_pending(t)
           THEN /\ list' = Unlink(t)
                /\ refs' = [refs EXCEPT ![t] = @ - 1]
                /\ IF IsFirst(t)
                   THEN thr' = [thr EXCEPT ![h].pc = "signal"]
                   ELSE Leave(h)
                /\ UNCHANGED mutex
           ELSE /\ mutex' = TRUE
                /\ Leave(h)
                /\ UNCHANGED <<list, refs>>
        /\ UNCHANGED <<now, expires, due, signal, loop, ops>>

\* timer_list_signal_timer_change, after del_timer has unlocked.
SignalChange(h) ==
    /\ thr[h].pc = "signal"
    /\ signal' = TRUE
    /\ Leave(h)
    /\ UNCHANGED <<now, list, expires, due, refs, mutex, loop, ops>>

-----------------------------------------------------------------------------
\* The main loop.

\* timer_list_get_next_timeout, and the jump to handle_timeout when the
\* first timer is overdue.
GetNextTimeout ==
    /\ loop.pc = "top"
    /\ ~mutex
    /\ signal' = FALSE
    /\ LET d == IF list = << >> THEN Never ELSE due[Head(list)]
       IN  loop' = [loop EXCEPT !.pc = IF d < now THEN "timeout" ELSE "select",
                                !.deadline = d]
    /\ UNCHANGED <<now, list, expires, due, refs, mutex, thr, ops>>

\* select returns because of the pipe, which is drained.
SelectSignal ==
    /\ loop.pc = "select"
    /\ signal
    /\ signal' = FALSE
    /\ loop' = [loop EXCEPT !.pc = "top"]
    /\ UNCHANGED <<now, list, expires, due, refs, mutex, thr, ops>>

\* select returns because of a control message or a client.
SelectOther ==
    /\ loop.pc = "select"
    /\ ~signal
    /\ loop' = [loop EXCEPT !.pc = "top"]
    /\ UNCHANGED <<now, list, expires, due, refs, mutex, signal, thr, ops>>

\* select times out.
SelectTimeout ==
    /\ loop.pc = "select"
    /\ ~signal
    /\ loop.deadline <= now
    /\ loop' = [loop EXCEPT !.pc = "timeout"]
    /\ UNCHANGED <<now, list, expires, due, refs, mutex, signal, thr, ops>>

\* timer_list_handle_timeout up to the call of the timer's function: the
\* first entry is unlinked, whether it is due or not.
HandleTimeout ==
    /\ loop.pc = "timeout"
    /\ ~mutex
    /\ IF list = << >>
       THEN /\ loop' = [loop EXCEPT !.pc = "top"]
            /\ UNCHANGED list
       ELSE /\ loop' = [loop EXCEPT !.pc = "call", !.timer = Head(list)]
            /\ list' = Tail(list)
    /\ UNCHANGED <<now, expires, due, refs, mutex, signal, thr, ops>>

\* The callback has the socket lock and arms its timer again (a
\* retransmission); it ends with the put for the timer that fired.
CallbackRearm(d) ==
    LET t == loop.timer
    IN  /\ loop.pc = "call"
        /\ ~SockLocked(t)
        /\ ~mutex
        /\ mod_timer(t, now + d)
        /\ refs' = [refs EXCEPT ![t] = IF timer_pending(t) THEN @ - 1 ELSE @]
        /\ loop' = [loop EXCEPT !.pc = "top", !.timer = NoTimer]
        /\ UNCHANGED <<now, mutex, thr, ops>>

\* Mutant: no reference is given back for a timer stopped here.
MutCallbackDone ==
    LET t == loop.timer
    IN  /\ loop.pc = "call"
        /\ ~SockLocked(t)
        /\ timer_pending(t) => ~mutex
        /\ list' = Unlink(t)
        /\ signal' = (signal \/ IsFirst(t))
        /\ refs' = [refs EXCEPT ![t] = @ - 1]
        /\ loop' = [loop EXCEPT !.pc = "top", !.timer = NoTimer]
        /\ UNCHANGED <<now, expires, due, mutex, thr, ops>>

\* The callback is done with the socket and stops the timer, which another
\* thread may have armed again meanwhile.
CallbackDone ==
    LET t == loop.timer
    IN  /\ loop.pc = "call"
        /\ ~SockLocked(t)
        /\ timer_pending(t) => ~mutex
        /\ list' = Unlink(t)
        /\ signal' = (signal \/ IsFirst(t))
        /\ refs' = [refs EXCEPT ![t] = IF timer_pending(t) THEN @ - 2 ELSE @ - 1]
        /\ loop' = [loop EXCEPT !.pc = "top", !.timer = NoTimer]
        /\ UNCHANGED <<now, expires, due, mutex, thr, ops>>

Tick ==
    /\ now < MaxTime
    /\ now' = now + 1
    /\ UNCHANGED <<list, expires, due, refs, mutex, signal, loop, thr, ops>>

-----------------------------------------------------------------------------
Init ==
    /\ now = 0
    /\ list = << >>
    /\ expires = [t \in Timers |-> 0]
    /\ due = [t \in Timers |-> 0]
    /\ refs = [t \in Timers |-> 0]
    /\ mutex = FALSE
    /\ signal = FALSE
    /\ loop = [pc |-> "top", deadline |-> Never, timer |-> NoTimer]
    /\ thr = [h \in Threads |-> Idle]
    /\ ops = [h \in Threads |-> 0]

ThreadNext(h) ==
    \/ \E t \in Timers, d \in Delays : sk_reset_timer(h, t, d)
    \/ ResetMod(h)
    \/ \E t \in Timers : sk_stop_timer(h, t)
    \/ DelTimer(h)
    \/ SignalChange(h)

LoopNext ==
    \/ GetNextTimeout
    \/ SelectSignal
    \/ SelectOther
    \/ SelectTimeout
    \/ HandleTimeout
    \/ \E d \in Delays : CallbackRearm(d)
    \/ CallbackDone

Next ==
    \/ \E h \in Threads : ThreadNext(h)
    \/ LoopNext
    \/ Tick

Spec == Init /\ [][Next]_vars

-----------------------------------------------------------------------------
\* Properties.

\* The state of timer.c, of the loop and of the threads has its type.
TypeOK ==
    /\ now \in 0..MaxTime
    /\ list \in Seq(Timers)
    /\ expires \in [Timers -> Horizon]
    /\ due \in [Timers -> Horizon \cup {Never}]
    /\ refs \in [Timers -> 0..2]
    /\ mutex \in BOOLEAN
    /\ signal \in BOOLEAN
    /\ loop \in LoopStates
    /\ thr \in [Threads -> Calls]
    /\ ops \in [Threads -> 0..MaxOps]

\* Whatever the threads and the loop do to it, the list that mod_timer keeps
\* holds each timer at most once, in the order they are due.
ListOrdered ==
    \A i, j \in 1..Len(list) :
        i < j => list[i] # list[j] /\ due[list[i]] <= due[list[j]]

\* The loop never oversleeps: while it is in select and the first timer is due
\* before the time select was given, a byte is in the pipe.
NoLostWakeup ==
    loop.pc = "select" /\ list # << >> /\ due[Head(list)] < loop.deadline => signal

\* A timer holds exactly one reference on its socket while it is pending, and
\* one more while its callback is on its way: a race of sk_stop_timer with the
\* loop neither frees a socket early nor leaks it.
RefsBalanced ==
    \A t \in Timers :
        refs[t] = (IF timer_pending(t) THEN 1 ELSE 0)
                  + (IF loop.timer = t THEN 1 ELSE 0)

\* The list of timer.c is sorted and without repetition and the references of
\* socket timers balance, whatever mod_timer, del_timer and the loop do to it.
TimersConsistent == TypeOK /\ ListOrdered /\ RefsBalanced

\* Every call of the timer API returns with the mutex of the list released.
MutexReleased == ~mutex

=============================================================================
