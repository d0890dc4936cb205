--------------------------- MODULE MCFeedScheduler ---------------------------
(***************************************************************************)
(* Instances of FeedScheduler for TLC: days of two hours of two minutes,   *)
(* and rules chosen so that they fall due within the horizon.              *)
(***************************************************************************)
EXTENDS FeedScheduler

Weekly(days, hour, minute) ==
    [period |-> "WEEKLY", days |-> days, month |-> 0, day |-> 0,
     hour |-> hour, minute |-> minute]
Specific(month, day, hour, minute) ==
    [period |-> "SPECIF", days |-> {}, month |-> month, day |-> day,
     hour |-> hour, minute |-> minute]

\* Due at 0:01 of every day, at 1:00 of day 0, and one that is refused.
WeeklyRules == {Weekly({0, 1}, 0, 1), Weekly({0}, 1, 0), Weekly({}, 1, 0)}

\* Due on the hour: a check that crosses an hour may mix the two.
HourlyRules == {Weekly({0, 1}, 0, 0)}

\* The rule of a date is due on the first day of what the clock calls month
\* 1, at 0:01: minute 5 when a month has one day.
MixedRules == {Weekly({0, 1}, 0, 1), Specific(1, 1, 0, 1)}

\* The rule of a date is executed and removed a minute before the other is due.
SuccessiveRules == {Weekly({0, 1}, 1, 0), Specific(1, 1, 0, 1)}

DateRules == {Specific(1, 1, 0, 1)}
=============================================================================
