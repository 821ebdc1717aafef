---------------------------- MODULE MCUserTimer ----------------------------
(***************************************************************************)
(* Instances of UserTimer for TLC: the timers of three sockets, and client *)
(* and packet threads that arm and stop them while the main loop runs.     *)
(***************************************************************************)
EXTENDS UserTimer, TLC

CONSTANTS t1, t2, t3, h1, h2

TwoTimers == {t1, t2}
ThreeTimers == {t1, t2, t3}
OneThread == {h1}
TwoThreads == {h1, h2}
TwoDelays == {1, 3}

\* The timers are interchangeable, and so are the threads.
TimerSymmetry == Permutations(Timers) \cup Permutations(Threads)

=============================================================================
