-------------------------------- MODULE Cron --------------------------------
(***************************************************************************)
(* Cron schedules (internal/scheduler/cron.go): parsing the fields of an   *)
(* expression, and CronSchedule.Next, which walks forward from an instant  *)
(* a unit at a time until the clock matches or a year has gone by.         *)
(*                                                                         *)
(* An instant is a number of ticks, finer than a second.  What a clock in  *)
(* the schedule's time zone shows at an instant is package time's affair:  *)
(* Clock and NextYear are parameters.                                      *)
(***************************************************************************)
EXTENDS Integers, FiniteSets

CONSTANTS
    Clock(_),     \* [second, minute, hour, dom, month, dow] at an instant
    NextYear(_),  \* the instant one calendar year later (AddDate(1, 0, 0))
    Second, Minute,  \* their lengths in ticks
    Bounds,       \* [field -> [min, max]]
    Expressions,  \* cron expressions to consider
    Instants,     \* instants to ask Next about
    Never         \* the zero time

FieldName == {"second", "minute", "hour", "dom", "month", "dow"}

ASSUME LengthAssumption == Second \in Nat \ {0} /\ Minute \in Nat \ {0}
ASSUME BoundsAssumption ==
    /\ Bounds \in [FieldName -> [min : Nat, max : Nat]]
    /\ Bounds["dow"] = [min |-> 0, max |-> 7]
ASSUME InstantsAssumption == Instants \subseteq Nat
ASSUME NeverAssumption == Never \notin Int

(***************************************************************************)
(* The text of a field: "*", or a comma-separated list, kept as a set, of  *)
(*   "step":  */a        "range":  a-b                                     *)
(*   "value": a          "bad":    anything that is none of these.         *)
(* An expression gives the text of its fields, and whether it has six.     *)
(***************************************************************************)
Star == {}

Part == [op : {"step", "range", "value", "bad"}, a : Int, b : Int]
Expression == [hasSeconds : BOOLEAN, text : [FieldName -> SUBSET Part]]

ASSUME ExpressionsAssumption == Expressions \subseteq Expression

Numbers(part, b) ==
    CASE part.op = "step"  -> {i \in b.min..b.max : (i - b.min) % part.a = 0}
      [] part.op = "range" -> part.a..part.b
      [] part.op = "value" -> {part.a}
      [] OTHER             -> {}

WellFormed(part) ==
    CASE part.op = "step"  -> part.a > 0
      [] part.op = "range" -> part.a <= part.b
      [] OTHER             -> part.op = "value"

\* cronField.add: with allowSundaySeven a 7 is stored as 0.
Stored(v, allowSundaySeven) == IF allowSundaySeven /\ v = 7 THEN 0 ELSE v

Accepted(v, b, allowSundaySeven) == Stored(v, allowSundaySeven) \in b.min..b.max

FieldOK(text, b, allowSundaySeven) ==
    \A part \in text :
        /\ WellFormed(part)
        /\ \A v \in Numbers(part, b) : Accepted(v, b, allowSundaySeven)

parseCronField(text, b, allowSundaySeven) ==
    [any |-> text = Star,
     values |-> {Stored(v, allowSundaySeven) : v \in UNION {Numbers(part, b) : part \in text}}]

UsedFields(e) == IF e.hasSeconds THEN FieldName ELSE FieldName \ {"second"}

ScheduleOK(e) == \A f \in UsedFields(e) : FieldOK(e.text[f], Bounds[f], f = "dow")

ParseSchedule(e) ==
    [hasSeconds |-> e.hasSeconds,
     field |-> [f \in UsedFields(e) |-> parseCronField(e.text[f], Bounds[f], f = "dow")]]

----------------------------------------------------------------------------
contains(field, v) == field.any \/ v \in field.values

\* Fault: of two restricted day fields both have to match.
matchesBothDays(dom, dow, c) ==
    /\ contains(dom, c.dom)
    /\ contains(dow, c.dow) \/ (c.dow = 0 /\ contains(dow, 7))

matchesDay(dom, dow, c) ==
    LET domMatch == contains(dom, c.dom)
        dowMatch == contains(dow, c.dow) \/ (c.dow = 0 /\ contains(dow, 7))
    IN CASE dom.any /\ dow.any -> TRUE
         [] dom.any            -> dowMatch
         [] dow.any            -> domMatch
         [] OTHER              -> domMatch \/ dowMatch

\* matchesMinute, and matchesSecond when the schedule has seconds.
Matches(s, c) ==
    /\ \A f \in (DOMAIN s.field) \ {"dom", "dow"} : contains(s.field[f], c[f])
    /\ matchesDay(s.field["dom"], s.field["dow"], c)

Unit(s) == IF s.hasSeconds THEN Second ELSE Minute

\* Add(unit).Truncate(unit)
Start(s, i) == (i + Unit(s)) - (i % Unit(s))

VARIABLES
    expression, after,   \* the arguments
    pc,                  \* "parse", "scan", "done"
    schedule,            \* the parsed expression
    steps,               \* iterations of the loop: t is steps units after start
    result               \* what Next returned

vars == <<expression, after, pc, schedule, steps, result>>

NoSchedule == [hasSeconds |-> FALSE, field |-> [f \in {} |-> {}]]

At(n) == Start(schedule, after) + n * Unit(schedule)
t == At(steps)
limit == NextYear(Start(schedule, after))

Init ==
    /\ expression \in Expressions /\ after \in Instants
    /\ pc = "parse" /\ schedule = NoSchedule
    /\ steps = 0 /\ result = Never

\* An expression that does not parse never gets as far as Next.
Parse ==
    /\ pc = "parse"
    /\ IF ScheduleOK(expression)
       THEN pc' = "scan" /\ schedule' = ParseSchedule(expression)
       ELSE pc' = "done" /\ UNCHANGED schedule
    /\ UNCHANGED <<expression, after, steps, result>>

Found ==
    /\ pc = "scan" /\ t < limit /\ Matches(schedule, Clock(t))
    /\ pc' = "done" /\ result' = t
    /\ UNCHANGED <<expression, after, schedule, steps>>

\* Fault: the walk goes the wrong way.
AdvanceBackwards ==
    /\ pc = "scan" /\ t < limit /\ ~Matches(schedule, Clock(t))
    /\ steps' = steps - 1
    /\ UNCHANGED <<expression, after, pc, schedule, result>>

Advance ==
    /\ pc = "scan" /\ t < limit /\ ~Matches(schedule, Clock(t))
    /\ steps' = steps + 1
    /\ UNCHANGED <<expression, after, pc, schedule, result>>

\* Fault: the walk ends before its last unit.
ExhaustedEarly ==
    /\ pc = "scan" /\ ~(t + Unit(schedule) < limit)
    /\ pc' = "done"
    /\ UNCHANGED <<expression, after, schedule, steps, result>>

Exhausted ==
    /\ pc = "scan" /\ ~(t < limit)
    /\ pc' = "done"
    /\ UNCHANGED <<expression, after, schedule, steps, result>>

Next == Parse \/ Found \/ Advance \/ Exhausted

Spec == Init /\ [][Next]_vars

----------------------------------------------------------------------------
(* Properties *)

TypeOK ==
    /\ expression \in Expressions /\ after \in Instants
    /\ pc \in {"parse", "scan", "done"}
    /\ steps \in Nat
    /\ result = Never \/ result \in Int

Parsed == schedule # NoSchedule

\* The loop skips nothing: no instant it has passed matches, and what it
\* returns does, so Next returns the first match and the zero time only when
\* there is none before the limit (nextByMinute, nextBySecond).
FirstMatch ==
    /\ Parsed => \A n \in 0..(steps - 1) : ~Matches(schedule, Clock(At(n)))
    /\ result # Never => result = t /\ t < limit /\ Matches(schedule, Clock(t))
    /\ Parsed /\ pc = "done" /\ result = Never => ~(t < limit)

(***************************************************************************)
(* What a crontab reader expects, said of the text itself: a field names a *)
(* number if it is "*" or one of its parts covers it, a Sunday is 0 or 7,  *)
(* and of two restricted day fields one is enough.                         *)
(***************************************************************************)
Covers(part, b, v) ==
    \/ part.op = "step" /\ v \in b.min..b.max /\ \E k \in 0..b.max : v = b.min + k * part.a
    \/ part.op = "range" /\ part.a <= v /\ v <= part.b
    \/ part.op = "value" /\ v = part.a

Names(e, f, v) == e.text[f] = Star \/ \E part \in e.text[f] : Covers(part, Bounds[f], v)

Fires(e, c) ==
    LET day == Names(e, "dom", c.dom)
        weekday == Names(e, "dow", c.dow) \/ (c.dow = 0 /\ Names(e, "dow", 7))
    IN /\ \A f \in UsedFields(e) \ {"dom", "dow"} : Names(e, f, c[f])
       /\ IF e.text["dom"] # Star /\ e.text["dow"] # Star THEN day \/ weekday
                                                         ELSE day /\ weekday

\* Next returns the first whole minute (or second) after the given instant at
\* which the text of the expression fires: neither the given instant itself,
\* nor one in between is missed, whatever the ticks within the unit.
NextAsWritten ==
    Parsed /\ pc = "done" =>
        LET fires == {u \in (after + 1)..(limit - 1) :
                        u % Unit(schedule) = 0 /\ Fires(expression, Clock(u))}
        IN IF result = Never THEN fires = {}
           ELSE result \in fires /\ \A u \in fires : result <= u
=============================================================================
