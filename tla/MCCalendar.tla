------------------------------ MODULE MCCalendar ------------------------------
(***************************************************************************)
(* Instances of Calendar: the shapes of schedules around the ends of       *)
(* months and the leap day, asked for on every day of a winter, a minute   *)
(* before, at and after the time of day they name; delays before and after *)
(* the durations that 64 bits of nanoseconds can hold.                     *)
(***************************************************************************)
EXTENDS Calendar

CONSTANTS FirstDay, LastDay  \* the days on which schedules are asked for

Noon == 720
NoonOrSo == {d * MinutesPerDay + m : d \in FirstDay..LastDay, m \in {Noon - 1, Noon, Noon + 1}}
OnTimeOrLate == {0, 1, 3 * MinutesPerDay}

Weekly  == {[kind |-> "weekly", on |-> w, time |-> Noon] : w \in {0, 3}}
Monthly == {[kind |-> "monthly", on |-> d, time |-> Noon] : d \in {0, 1, 29, 31, 32}}
Yearly  == {[kind |-> "yearly", on |-> md, time |-> Noon] : md \in {101, 229, 230, 1231}}
Others  == {[kind |-> "daily", on |-> 0, time |-> Noon],
            [kind |-> "relative", on |-> 0, time |-> 0],
            [kind |-> "relative", on |-> 0, time |-> 10],
            [kind |-> "relative", on |-> 106750, time |-> 1439],
            [kind |-> "relative", on |-> 106752, time |-> 0],
            [kind |-> "relative", on |-> 213504, time |-> 0],
            [kind |-> "once", on |-> 0, time |-> (FirstDay + 7) * MinutesPerDay]}

AllRequests == Weekly \cup Monthly \cup Yearly \cup Others
=============================================================================
