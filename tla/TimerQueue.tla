----------------------------- MODULE TimerQueue -----------------------------
(***************************************************************************)
(* The timer queue of servd: the binary heap of common/heap.c and the      *)
(* operations of common/timer.c on it.                                     *)
(*                                                                         *)
(* A queue has the array of the heap (h->map, from 1), which holds the ids *)
(* of timers, and the timers themselves (tm), which are part of the        *)
(* registrations and not of the heap.  A timer has the index and the       *)
(* active flag of its heap item (an index counts from 1 here, and is 1 for *)
(* a timer that was taken out), how long it runs (exp), the thread that    *)
(* set it (thr) and the place of its timeout among those of the heap (at). *)
(* The index is what heap.c makes of it: heap_remove does not write it for *)
(* the item it moves, so an item need not be at its index.                 *)
(*                                                                         *)
(* Timeouts are read off the CPU clock of the thread that sets the timer   *)
(* (CLOCK_THREAD_CPUTIME_ID), and CPU times are short beside the timeouts: *)
(* a timer that runs longer is later, one that the same thread set before  *)
(* is earlier, and between threads either order is possible.               *)
(***************************************************************************)
EXTENDS Integers, Sequences, FiniteSets

\* strays is history: how often timer_del did not take out the timer it was called for.
NewQueue == [map |-> << >>, tm |-> << >>, sig |-> FALSE, strays |-> 0]

NoTimer == [index |-> 1, active |-> FALSE, exp |-> 0, thr |-> "none", at |-> 0]

timer_init(q, id) ==
    [q EXCEPT !.tm = [i \in DOMAIN @ \cup {id} |-> IF i = id THEN NoTimer ELSE @[i]]]

\* free, of the registration that the timer is part of.
timer_free(q, id) == [q EXCEPT !.tm = [i \in DOMAIN @ \ {id} |-> @[i]]]

Mapped(q) == {q.map[i] : i \in DOMAIN q.map}

heap_cmp(q, x, y) == q.tm[x].at < q.tm[y].at

\* h->map[i] = x; x->index = i
Put(q, i, x) == [q EXCEPT !.map[i] = x, !.tm[x].index = i]

\* The loop of heap_insert, and the item at the place it finds.
RECURSIVE SiftUp(_, _, _)
SiftUp(q, i, x) ==
    IF i > 1 /\ heap_cmp(q, x, q.map[i \div 2])
    THEN SiftUp(Put(q, i, q.map[i \div 2]), i \div 2, x)
    ELSE Put(q, i, x)

heap_insert(q, x) ==
    [SiftUp([q EXCEPT !.map = Append(@, x)], Len(q.map) + 1, x) EXCEPT !.tm[x].active = TRUE]

RECURSIVE heap_heapify(_, _)
heap_heapify(q, i) ==
    LET n == Len(q.map)
        l == 2 * i
        r == l + 1
        s == IF l <= n /\ heap_cmp(q, q.map[l], q.map[i]) THEN l ELSE i
        smallest == IF r <= n /\ heap_cmp(q, q.map[r], q.map[s]) THEN r ELSE s
    IN  IF smallest = i THEN q
        ELSE heap_heapify(Put(Put(q, smallest, q.map[i]), i, q.map[smallest]), smallest)

\* The last item goes to the place of the one that is removed; its index is
\* written only if heap_heapify moves it on.
heap_remove(q, i) ==
    LET n == Len(q.map)
        moved == [q EXCEPT !.map = SubSeq([@ EXCEPT ![i] = q.map[n]], 1, n - 1)]
    IN  IF i > n THEN q
        ELSE [heap_heapify(moved, i) EXCEPT !.tm[q.map[i]].index = 1,
                                            !.tm[q.map[i]].active = FALSE]

-----------------------------------------------------------------------------
\* The places numbered from 1 again; a timer that is in no place has none.
Ranked(q) ==
    LET In == Mapped(q)
        Rank(x) == Cardinality({y \in In : q.tm[y].at <= q.tm[x].at})
    IN  [q EXCEPT !.tm = [x \in DOMAIN @ |->
            IF x \in In THEN [@[x] EXCEPT !.at = Rank(x)]
            ELSE [NoTimer EXCEPT !.index = q.tm[x].index, !.active = q.tm[x].active]]]

\* The places that a timeout of exp can have when thread thr reads its clock
\* (gettime, timespec_add_nsec, timespec_lt).
Places(q, id, exp, thr) ==
    {p \in 1..Cardinality(Mapped(q)) + 1 :
        \A x \in Mapped(q) \ {id} :
            LET t == q.tm[x] IN
            /\ t.exp < exp \/ (t.exp = exp /\ t.thr = thr) => t.at < p
            /\ t.exp > exp => t.at >= p}

\* The timer with its timeout at place p; if it is in the heap after all, the
\* heap is no longer in order.
SetAt(q, id, exp, thr, p) ==
    [q EXCEPT !.tm = [x \in DOMAIN @ |->
        IF x = id THEN [@[x] EXCEPT !.exp = exp, !.thr = thr, !.at = p]
        ELSE IF @[x].at >= p THEN [@[x] EXCEPT !.at = @ + 1] ELSE @[x]]]

timer_scheduled(q, id) == q.tm[id].active
IsFirst(q, id) == q.tm[id].index = 1

\* timer_del, by thread thr: what goes is whatever is at the timer's index.
timer_del(q, id, thr) ==
    LET i == q.tm[id].index
        own == IF i <= Len(q.map) THEN q.map[i] = id ELSE id \notin Mapped(q)
    IN  [Ranked(heap_remove(q, i)) EXCEPT !.sig = @ \/ (i = 1 /\ thr # "main"),
                                          !.strays = IF own THEN @ ELSE @ + 1]

\* Mutant: no signal when the timer becomes the first.
InsertSilent(q, id, exp, thr, first) ==
    {Ranked(heap_insert(SetAt(q, id, exp, thr, p), id)) : p \in Places(q, id, exp, thr)}

\* timer_mod from gettime on, by thread thr: the queues that can come of it.
\* Another thread than main raises the signal if the timer is now the first, or
\* was (first) by the index it had.
Insert(q, id, exp, thr, first) ==
    LET Set(p) == Ranked(heap_insert(SetAt(q, id, exp, thr, p), id))
    IN  {[Set(p) EXCEPT !.sig = @ \/ (thr # "main" /\ (IsFirst(Set(p), id) \/ first))] :
            p \in Places(q, id, exp, thr)}

\* timer_add.
timer_add(q, id, exp, thr) ==
    IF timer_scheduled(q, id) THEN {q} ELSE Insert(q, id, exp, thr, FALSE)

\* timer_handle_timeout: the first timer goes, and its callback is called.
heap_remove_first(q) == Ranked(heap_remove(q, 1))

\* timer_next_timeout_timeval, in ticks: CPU clocks hardly move while main
\* sleeps, so the wait for the first timer is all of its time, whenever it was
\* set.  -1 is no timeout.
timer_next_timeout(q) == IF q.map = << >> THEN -1 ELSE q.tm[q.map[1]].exp

=============================================================================
