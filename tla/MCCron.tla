------------------------------- MODULE MCCron -------------------------------
(***************************************************************************)
(* A small calendar: 2 ticks a second, 2 seconds a minute, 2 minutes an    *)
(* hour, 2 hours a day, weeks of 7 days, two months of 5 and 4 days, the   *)
(* second one of 5 days in the second year.  The clock goes back an hour   *)
(* on the third day, so one hour of it is shown twice.                     *)
(***************************************************************************)
EXTENDS Cron

TicksPerDay == 16
DaysOfYear == 9

MCClock(i) ==
    LET local == IF i >= 3 * TicksPerDay - 8 /\ i < 5 * TicksPerDay THEN i - 8 ELSE i
        day == local \div TicksPerDay
        year == IF day < DaysOfYear THEN 0 ELSE 1
        dayOfYear == day - year * DaysOfYear
    IN [second |-> (local \div 2) % 2, minute |-> (local \div 4) % 2,
        hour |-> (local \div 8) % 2,
        dom |-> 1 + (IF dayOfYear < 5 THEN dayOfYear ELSE dayOfYear - 5),
        month |-> IF dayOfYear < 5 THEN 1 ELSE 2,
        dow |-> day % 7]

MCNextYear(i) == i + DaysOfYear * TicksPerDay

MCBounds == [second |-> [min |-> 0, max |-> 1], minute |-> [min |-> 0, max |-> 1],
             hour |-> [min |-> 0, max |-> 1], dom |-> [min |-> 1, max |-> 5],
             month |-> [min |-> 1, max |-> 2], dow |-> [min |-> 0, max |-> 7]]

Step(n) == [op |-> "step", a |-> n, b |-> 0]
Span(m, n) == [op |-> "range", a |-> m, b |-> n]
Value(n) == [op |-> "value", a |-> n, b |-> 0]

Minutes == {Star, {Value(1)}, {Step(2)}, {Step(0)}}
Hours == {Star, {Value(1)}}
Days == {Star, {Value(5)}, {Step(2)}, {Span(2, 3), Value(5)}, {Span(0, 2)}}
Months == {Star, {Value(2)}}
Weekdays == {Star, {Value(7)}, {Span(6, 7), Value(3)}, {Step(3)}, {Value(8)}}
Seconds == {Star, {Value(1)}}

Text(s, m, h, d, mo, w) ==
    [second |-> s, minute |-> m, hour |-> h, dom |-> d, month |-> mo, dow |-> w]

MCExpressions ==
    {[hasSeconds |-> FALSE, text |-> Text(Star, m, h, d, mo, w)] :
        m \in Minutes, h \in Hours, d \in Days, mo \in Months, w \in Weekdays}
    \cup
    {[hasSeconds |-> TRUE, text |-> Text(s, m, Star, d, Star, w)] :
        s \in Seconds, m \in Minutes, d \in Days, w \in Weekdays}

MCInstants == {0, 3, 41, 90}
=============================================================================
