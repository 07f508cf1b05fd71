----------------------------- MODULE MCHardFork -----------------------------
(* Schedules for TLC: the shipped shape (no voting) and a voted one. *)
EXTENDS HardFork

\* Three forks on a fixed date, as in hardforks.cpp (threshold 0).
ScheduledForks == << [version |-> 1, height |-> 1, threshold |-> 0],
                     [version |-> 2, height |-> 3, threshold |-> 0],
                     [version |-> 4, height |-> 4, threshold |-> 0] >>

\* The second and third forks also need votes in the window.
VotedOnForks == << [version |-> 1, height |-> 1, threshold |-> 0],
                   [version |-> 2, height |-> 2, threshold |-> 60],
                   [version |-> 4, height |-> 3, threshold |-> 90] >>
=============================================================================
