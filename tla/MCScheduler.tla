----------------------------- MODULE MCScheduler -----------------------------
(***************************************************************************)
(* Schedules for checking Scheduler: a one-time task, an hourly-like one   *)
(* that is due every second, and one that is due at times and whose last   *)
(* occurrence is beyond the bound of the clock.                            *)
(***************************************************************************)
EXTENDS Scheduler

Once   == [occ |-> {2}, repeat |-> FALSE]
Often  == [occ |-> 1..(MaxClock + 1), repeat |-> TRUE]
Rarely == [occ |-> {1, 3, MaxClock + 2}, repeat |-> TRUE]

\* A repeating schedule whose search for the next occurrence comes up empty.
Ending == [occ |-> {1, 2}, repeat |-> TRUE]

AllSchedules == {Once, Often, Rarely, Ending}
=============================================================================
