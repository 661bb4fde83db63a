------------------------------- MODULE Calendar -------------------------------
(***************************************************************************)
(* When a scheduled task fires: the schedules that the schedule_task tool  *)
(* accepts (internal/tool/schedule/tool.go, internal/scheduler/builder.go) *)
(* and the search of Schedule.Next for the next firing time                *)
(* (internal/scheduler/schedule.go), followed over the life of one task.   *)
(*                                                                         *)
(* Instants are minutes since 1970-01-01 00:00 in the task store's zone,   *)
(* which is Asia/Shanghai and has no daylight saving; days are numbered    *)
(* from that date.                                                         *)
(***************************************************************************)
EXTENDS Integers

CONSTANTS
    Requests,   \* the schedules asked for
    Starts,     \* the instants at which they are asked for
    Delays,     \* how late a firing may be handled, in minutes
    DurationRange, \* minutes at which a time.Duration wraps around
    MaxFires    \* bound: firings followed

Kinds == {"once", "relative", "daily", "weekly", "monthly", "yearly"}

\* on is the weekday (Sunday is 0), the day of the month, or 100 * month + day;
\* time is the minute of the day, the instant of a "once", or the minutes of a
\* "relative", whose days are on.
ASSUME RequestsAssumption ==
    \A s \in Requests : s.kind \in Kinds /\ s.on \in Nat /\ s.time \in Nat
ASSUME InstantsAssumption ==
    Starts \subseteq Nat /\ Delays \subseteq Nat /\ MaxFires \in Nat
ASSUME DurationAssumption == DurationRange \in Nat \ {0} /\ DurationRange % 2 = 0

VARIABLES
    pc,         \* "asked", "built", "waiting", "refused" or "gone"
    rule,       \* the schedule
    now,        \* the instant of the last call of Next
    nextRun,    \* Task.NextRunAt
    fired       \* number of firings so far

vars == <<pc, rule, now, nextRun, fired>>

Init ==
    /\ pc = "asked" /\ rule \in Requests /\ now \in Starts
    /\ nextRun = 0 /\ fired = 0

-----------------------------------------------------------------------------
(* The civil calendar, from the standard library's time package.           *)

MinutesPerDay == 24 * 60
DayOf(i)    == i \div MinutesPerDay
Weekday(d)  == (d + 4) % 7

\* Years are counted from a March 1st, so that a leap day is a year's last.
Era(d)      == (d + 719468) % 146097
YearOfEra(d) ==
    LET e == Era(d) IN (e - e \div 1460 + e \div 36524 - e \div 146096) \div 365
DayOfYear(d) ==
    LET y == YearOfEra(d) IN Era(d) - (365 * y + y \div 4 - y \div 100)
MonthFromMarch(d) == (5 * DayOfYear(d) + 2) \div 153
MonthOf(d)  == IF MonthFromMarch(d) < 10 THEN MonthFromMarch(d) + 3
               ELSE MonthFromMarch(d) - 9
DayOfMonth(d) == DayOfYear(d) - (153 * MonthFromMarch(d) + 2) \div 5 + 1

-----------------------------------------------------------------------------
(* The schedules that are accepted.                                        *)

Repeats(s) == s.kind \in {"daily", "weekly", "monthly", "yearly"}

\* validDate in the leap year 2000, whose days are numbered from 10957.
ValidDate(on) ==
    \E d \in 10957..(10957 + 365) : on = 100 * MonthOf(d) + DayOfMonth(d)

\* Minutes, hours and days are multiplied and added in 64 bits, signed.
Asked(s) == s.on * MinutesPerDay + s.time
Wrap(x) == ((x + DurationRange \div 2) % DurationRange) - DurationRange \div 2
Delay(s) == Wrap(Asked(s))

\* Mutant of NewRelative: only a delay of zero is refused.
NewRelativeNonZero(s) == Delay(s) # 0

NewRelative(s) == Delay(s) > 0

Accepts(s) ==
    /\ s.kind = "weekly" => s.on \in 0..6
    /\ s.kind = "monthly" => s.on \in 1..31
    /\ s.kind = "yearly" => ValidDate(s.on)
    /\ s.kind = "relative" => NewRelative(s)
    /\ Repeats(s) => s.time < MinutesPerDay

-----------------------------------------------------------------------------
(* Schedule.Next.                                                          *)

FiresOn(s, d) ==
    \/ s.kind = "daily"
    \/ s.kind = "weekly" /\ s.on = Weekday(d)
    \/ s.kind = "monthly" /\ s.on = DayOfMonth(d)
    \/ s.kind = "yearly" /\ s.on % 100 = DayOfMonth(d) /\ s.on \div 100 = MonthOf(d)

At(s, d) == d * MinutesPerDay + s.time

\* Mutant of Horizon: a week is searched for seven days only.
HorizonOfAWeek(s) ==
    CASE s.kind \in {"daily", "weekly"} -> 7
      [] s.kind = "monthly" -> 370
      [] s.kind = "yearly"  -> 1500

\* The number of days searched.
Horizon(s) ==
    CASE s.kind \in {"daily", "weekly"} -> 8
      [] s.kind = "monthly" -> 370
      [] s.kind = "yearly"  -> 1500

\* Mutant of Hits: a firing time that is now counts.
HitsFromNow(s, i) ==
    {d \in DayOf(i)..(DayOf(i) + Horizon(s) - 1) : FiresOn(s, d) /\ At(s, d) >= i}

\* The days searched on which s fires after i.
Hits(s, i) ==
    {d \in DayOf(i)..(DayOf(i) + Horizon(s) - 1) : FiresOn(s, d) /\ At(s, d) > i}

\* The result of Next(i), as a set of at most one instant.
NextFiring(s, i) ==
    CASE s.kind = "once"     -> {t \in {s.time} : i < t}
      [] s.kind = "relative" -> {i + Delay(s)}
      [] OTHER -> LET hits == Hits(s, i)
                  IN  {At(s, d) : d \in {h \in hits : \A g \in hits : h <= g}}

-----------------------------------------------------------------------------
(* The life of a task.                                                     *)

BuildSchedule ==
    /\ pc = "asked"
    /\ pc' = IF Accepts(rule) THEN "built" ELSE "refused"
    /\ UNCHANGED <<rule, now, nextRun, fired>>

\* Store.AddAt; without a next firing time the task is refused.
AddAt ==
    /\ pc = "built"
    /\ IF NextFiring(rule, now) = {} THEN pc' = "gone" /\ UNCHANGED nextRun
       ELSE /\ nextRun' \in NextFiring(rule, now)
            /\ pc' = "waiting"
    /\ UNCHANGED <<rule, now, fired>>

\* Scheduler.dispatch, at the firing time or later: the task moves on to its
\* next firing time or is deleted.
Dispatch ==
    /\ pc = "waiting" /\ fired < MaxFires
    /\ \E late \in Delays : now' = nextRun + late
    /\ fired' = fired + 1
    /\ IF ~ Repeats(rule) \/ NextFiring(rule, now') = {}
       THEN pc' = "gone" /\ UNCHANGED nextRun
       ELSE /\ nextRun' \in NextFiring(rule, now')
            /\ UNCHANGED pc
    /\ UNCHANGED rule

Next == BuildSchedule \/ AddAt \/ Dispatch

Spec == Init /\ [][Next]_vars

-----------------------------------------------------------------------------
(* Properties.                                                             *)

\* "Next returns the next firing time strictly after now" (schedule.go:59): a
\* waiting task will fire on a day and at the minute of its rule, after now,
\* and no such moment lies between.
NextIsFirst ==
    pc = "waiting" =>
        /\ nextRun > now
        /\ Repeats(rule) =>
               /\ nextRun = At(rule, DayOf(nextRun))
               /\ FiresOn(rule, DayOf(nextRun))
               /\ \A d \in DayOf(now)..(DayOf(nextRun) - 1) :
                      FiresOn(rule, d) => At(rule, d) <= now

\* "ok is false if it will never fire again" (schedule.go:59-60): a repeating
\* schedule that was accepted has dates for ever, so its task is neither
\* refused for want of a next time nor deleted by the dispatcher.  It needs two
\* leap days at most four years apart: the horizon of 1500 days (schedule.go:96)
\* does not reach over the year 2100, which has none.
RepeatsForEver == pc = "gone" => ~ Repeats(rule)

\* An accepted delay runs for as long as was asked, up to the 292 years below
\* which nothing overflows; beyond them the task fires too early, but never in
\* the past (tool.go:117-120, "relative delay must be positive").
DelayAsAsked ==
    pc = "waiting" /\ rule.kind = "relative" =>
        /\ nextRun - now \in 1..Asked(rule)
        /\ Asked(rule) < DurationRange \div 2 => nextRun - now = Asked(rule)
=============================================================================
