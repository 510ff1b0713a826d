----------------------------- MODULE CronProofs -----------------------------
(***************************************************************************)
(* Proofs about Cron, for any clock, calendar, expression and instant.     *)
(***************************************************************************)
EXTENDS Cron, TLAPS

\* Division with remainder.
LEMMA Division ==
    ASSUME NEW d \in Nat \ {0}, NEW x \in Int
    PROVE  /\ x \div d \in Int
           /\ x % d \in 0..(d - 1)
           /\ x = d * (x \div d) + (x % d)
<1>1. x \div d \in Int
  OBVIOUS
<1>2. x % d \in 0..(d - 1)
  OBVIOUS
<1>3. x = d * (x \div d) + (x % d)
  OBVIOUS
<1> QED
  BY <1>1, <1>2, <1>3

\* What leaves no remainder is a multiple.
LEMMA Multiple ==
    ASSUME NEW d \in Nat \ {0}, NEW x \in Int, x % d = 0
    PROVE  \E q \in Int : x = d * q
<1> DEFINE q == x \div d
<1>1. q \in Int
  OBVIOUS
<1>2. x = d * q + (x % d)
  OBVIOUS
<1> HIDE DEF q
<1>3. x = d * q
  BY <1>1, <1>2
<1> QED
  BY <1>1, <1>3

\* The remainder is the only one.
LEMMA Remainder ==
    ASSUME NEW d \in Nat \ {0}, NEW q \in Int, NEW r \in 0..(d - 1)
    PROVE  (d * q + r) % d = r
<1> DEFINE x == d * q + r
<1>1. x \in Int
  OBVIOUS
<1>2. PICK p \in Int, s \in 0..(d - 1) : x = d * p + s /\ s = x % d
  BY <1>1, Division
<1>3. d * (q - p) = s - r
  BY <1>2
<1>4. ~ (q - p > 0)
  <2> SUFFICES ASSUME q - p >= 1 PROVE FALSE
    OBVIOUS
  <2>1. d * (q - p) >= d
    OBVIOUS
  <2> QED
    BY <1>3, <2>1
<1>5. ~ (q - p < 0)
  <2> SUFFICES ASSUME p - q >= 1 PROVE FALSE
    OBVIOUS
  <2>1. d * (p - q) >= d
    OBVIOUS
  <2>2. d * (p - q) = r - s
    BY <1>3
  <2> QED
    BY <2>1, <2>2
<1>6. q - p = 0
  BY <1>4, <1>5
<1> QED
  BY <1>2, <1>3, <1>6

\* Multiplication keeps the order.
LEMMA Order ==
    ASSUME NEW d \in Nat \ {0}, NEW p \in Int, NEW q \in Int
    PROVE  p < q <=> d * p < d * q
OBVIOUS

\* An instant of the walk is an integer, and so is never the zero time.
LEMMA InstantIsInt ==
    ASSUME NEW s, NEW i \in Nat, NEW n \in Nat
    PROVE  Start(s, i) + n * Unit(s) \in Int
  <1>1. Unit(s) \in Nat \ {0}
    BY LengthAssumption DEF Unit
  <1>2. Start(s, i) \in Int
    BY <1>1 DEF Start
  <1> QED
    BY <1>1, <1>2

\* What the proofs need of types: the arguments stay, the walk counts upwards.
TypeInv ==
    /\ TypeOK
    /\ pc \in {"parse", "scan"} => result = Never
    /\ pc = "parse" => steps = 0 /\ schedule = NoSchedule

\* TypeInv, which is inductive, holds in every reachable state.
LEMMA TypeInvariant == Spec => []TypeInv
  <1>1. Init => TypeInv
    BY DEF Init, TypeInv, TypeOK
  <1>2. TypeInv /\ [Next]_vars => TypeInv'
    <2> SUFFICES ASSUME TypeInv, [Next]_vars PROVE TypeInv'
      OBVIOUS
    <2> USE DEF TypeInv, TypeOK
    <2>1. CASE Parse
      BY <2>1 DEF Parse
    <2>2. CASE Found
      <3>1. t \in Int
        BY InstantIsInt, InstantsAssumption DEF t, At
      <3> QED
        BY <2>2, <3>1 DEF Found
    <2>3. CASE Advance
      BY <2>3 DEF Advance
    <2>4. CASE Exhausted
      BY <2>4 DEF Exhausted
    <2>5. CASE UNCHANGED vars
      BY <2>5 DEF vars
    <2> QED
      BY <2>1, <2>2, <2>3, <2>4, <2>5 DEF Next
  <1> QED
    BY <1>1, <1>2, PTL DEF Spec

\* TypeOK holds in every reachable state (CronSchedule.Next): the walk counts
\* upwards, and what it returns is an instant or the zero time.
THEOREM TypeCorrect == Spec => []TypeOK
  <1>1. TypeInv => TypeOK
    BY DEF TypeInv
  <1> QED
    BY <1>1, TypeInvariant, PTL

\* Next returns the first match, and the zero time only when the walk met none
\* before the limit: whatever the clock shows, in whatever time zone.
THEOREM NextReturnsFirstMatch == Spec => []FirstMatch
  <1>1. Init => FirstMatch
    BY DEF Init, FirstMatch, Parsed
  <1>2. TypeInv /\ FirstMatch /\ [Next]_vars => FirstMatch'
    <2> SUFFICES ASSUME TypeInv, FirstMatch, [Next]_vars PROVE FirstMatch'
      OBVIOUS
    <2> USE DEF TypeInv, TypeOK
    <2>1. CASE Parse
      <3>1. steps' = 0 /\ result' = Never /\ (pc' = "done" => ~Parsed')
        BY <2>1 DEF Parse, Parsed
      <3>2. 0..(steps' - 1) = {}
        BY <3>1
      <3> QED
        BY <3>1, <3>2 DEF FirstMatch
    <2>2. CASE Found
      <3>1. t \in Int
        BY InstantIsInt, InstantsAssumption DEF t, At
      <3>2. t' = t /\ limit' = limit /\ Parsed' = Parsed
        BY <2>2 DEF Found, t, At, limit, Parsed
      <3>3. \A n : At(n)' = At(n)
        BY <2>2 DEF Found, At
      <3>4. result' = t /\ result' # Never
        BY <2>2, <3>1, NeverAssumption DEF Found
      <3> QED
        BY <2>2, <3>2, <3>3, <3>4 DEF Found, FirstMatch
    <2>3. CASE Advance
      <3>1. \A n : At(n)' = At(n)
        BY <2>3 DEF Advance, At
      <3>2. 0..(steps' - 1) = (0..(steps - 1)) \cup {steps}
        BY <2>3 DEF Advance
      <3>3. ~Matches(schedule, Clock(At(steps)))
        BY <2>3 DEF Advance, t
      <3> QED
        BY <2>3, <3>1, <3>2, <3>3 DEF Advance, FirstMatch, Parsed
    <2>4. CASE Exhausted
      <3>1. t' = t /\ limit' = limit /\ Parsed' = Parsed
        BY <2>4 DEF Exhausted, t, At, limit, Parsed
      <3>2. \A n : At(n)' = At(n)
        BY <2>4 DEF Exhausted, At
      <3> QED
        BY <2>4, <3>1, <3>2 DEF Exhausted, FirstMatch
    <2>5. CASE UNCHANGED vars
      BY <2>5 DEF vars, FirstMatch, Parsed, t, At, limit
    <2> QED
      BY <2>1, <2>2, <2>3, <2>4, <2>5 DEF Next
  <1> QED
    BY <1>1, <1>2, TypeInvariant, PTL DEF Spec

----------------------------------------------------------------------------
(* NextAsWritten *)

\* What is walked through is the parsed text, of an expression that is in order.
ParsedInv ==
    /\ pc = "scan" => Parsed
    /\ Parsed => ScheduleOK(expression) /\ schedule = ParseSchedule(expression)

\* ParsedInv holds in every reachable state: Next is asked of what
\* ParseSchedule returned, which it did only without an error.
LEMMA ParsedInvariant == Spec => []ParsedInv
  <1>1. Init => ParsedInv
    BY DEF Init, ParsedInv, Parsed
  <1>2. ParsedInv /\ [Next]_vars => ParsedInv'
    <2> SUFFICES ASSUME ParsedInv, [Next]_vars PROVE ParsedInv'
      OBVIOUS
    <2>1. CASE Parse
      <3>1. ParseSchedule(expression).field # NoSchedule.field
        <4>1. /\ DOMAIN ParseSchedule(expression).field = UsedFields(expression)
              /\ DOMAIN NoSchedule.field = {}
          BY DEF ParseSchedule, NoSchedule
        <4>2. "dow" \in UsedFields(expression)
          BY DEF UsedFields, FieldName
        <4> QED
          BY <4>1, <4>2
      <3> QED
        BY <2>1, <3>1 DEF Parse, ParsedInv, Parsed
    <2>2. CASE Found \/ Advance \/ Exhausted \/ UNCHANGED vars
      BY <2>2 DEF Found, Advance, Exhausted, vars, ParsedInv, Parsed
    <2> QED
      BY <2>1, <2>2 DEF Next
  <1> QED
    BY <1>1, <1>2, PTL DEF Spec

\* A part of a list covers the numbers that parsing it adds to the field.
LEMMA NumbersAreCovered ==
    ASSUME NEW part \in Part, WellFormed(part), NEW f \in FieldName, NEW v \in Int
    PROVE  v \in Numbers(part, Bounds[f]) <=> Covers(part, Bounds[f], v)
  <1> DEFINE b == Bounds[f]
  <1>1. b.min \in Nat /\ b.max \in Nat
    BY BoundsAssumption
  <1> HIDE DEF b
  <1>2. CASE part.op = "step"
    <2> PICK a \in Nat \ {0} : a = part.a
      BY <1>2 DEF WellFormed, Part
    <2>1. ASSUME v \in b.min..b.max, (v - b.min) % a = 0
          PROVE  \E k \in 0..b.max : v = b.min + k * a
      <3>1. PICK x \in Int : x = v - b.min /\ x >= 0
        BY <1>1, <2>1
      <3>2. PICK k \in Int : x = a * k
        <4>1. x % a = 0
          BY <2>1, <3>1
        <4> QED
          BY <4>1, Multiple
      <3>3. 0 <= k
        <4> SUFFICES ASSUME k < 0 PROVE FALSE
          BY <3>2
        <4>1. a * k < a * 0
          BY <3>2, Order
        <4> QED
          BY <3>1, <3>2, <4>1
      <3>4. k <= x
        BY <3>2, <3>3
      <3>5. k \in 0..b.max
        BY <1>1, <2>1, <3>1, <3>3, <3>4
      <3> QED
        BY <1>1, <3>1, <3>2, <3>5
    <2>2. ASSUME v \in b.min..b.max, NEW k \in 0..b.max, v = b.min + k * a
          PROVE  (v - b.min) % a = 0
      <3>1. k \in Int /\ v - b.min = a * k + 0
        BY <1>1, <2>2
      <3>2. (a * k + 0) % a = 0
        BY <3>1, Remainder
      <3> QED
        BY <3>1, <3>2
    <2> QED
      BY <1>1, <1>2, <2>1, <2>2 DEF Numbers, Covers, b
  <1>3. CASE part.op = "range"
    BY <1>3 DEF Numbers, Covers, Part
  <1>4. CASE part.op = "value"
    BY <1>4 DEF Numbers, Covers
  <1> QED
    BY <1>2, <1>3, <1>4 DEF WellFormed

\* The fields of a calendar's clock are numbers, a weekday one of 0..6, and a
\* year later is an instant again: what package time shows.
CalendarOK ==
    \A n \in Nat : /\ Clock(n) \in [second : Int, minute : Int, hour : Int,
                                    dom : Int, month : Int, dow : 0..6]
                   /\ NextYear(n) \in Int

\* A parsed field contains what its text names, in a field without a Sunday.
LEMMA FieldContains ==
    ASSUME NEW e \in Expression, ScheduleOK(e), NEW f \in UsedFields(e) \ {"dow"},
           NEW v \in Int
    PROVE  contains(ParseSchedule(e).field[f], v) <=> Names(e, f, v)
  <1>1. /\ f \in FieldName /\ e.text[f] \subseteq Part
        /\ \A part \in e.text[f] : WellFormed(part)
    BY DEF Expression, UsedFields, ScheduleOK, FieldOK
  <1>2. ParseSchedule(e).field[f] = parseCronField(e.text[f], Bounds[f], FALSE)
    BY DEF ParseSchedule
  <1>3. \A w : Stored(w, FALSE) = w
    BY DEF Stored
  <1>4. v \in parseCronField(e.text[f], Bounds[f], FALSE).values
          <=> \E part \in e.text[f] : v \in Numbers(part, Bounds[f])
    BY <1>3 DEF parseCronField
  <1>5. \A part \in e.text[f] : v \in Numbers(part, Bounds[f]) <=> Covers(part, Bounds[f], v)
    BY <1>1, NumbersAreCovered
  <1>6. parseCronField(e.text[f], Bounds[f], FALSE).any <=> e.text[f] = Star
    BY DEF parseCronField
  <1>7. contains(ParseSchedule(e).field[f], v)
          <=> e.text[f] = Star \/ \E part \in e.text[f] : v \in Numbers(part, Bounds[f])
    BY <1>2, <1>4, <1>6 DEF contains
  <1> QED
    BY <1>5, <1>7 DEF Names

\* The weekday field contains a Sunday, stored as 0, when its text names 0 or 7.
LEMMA WeekdayContains ==
    ASSUME NEW e \in Expression, ScheduleOK(e), NEW d \in 0..6
    PROVE  contains(ParseSchedule(e).field["dow"], d)
             \/ (d = 0 /\ contains(ParseSchedule(e).field["dow"], 7))
           <=> Names(e, "dow", d) \/ (d = 0 /\ Names(e, "dow", 7))
  <1> DEFINE text == e.text["dow"]  b == Bounds["dow"]  field == parseCronField(text, b, TRUE)
  <1>1. /\ "dow" \in UsedFields(e) /\ "dow" \in FieldName /\ text \subseteq Part
        /\ \A part \in text : WellFormed(part)
    BY DEF Expression, UsedFields, FieldName, ScheduleOK, FieldOK
  <1>2. ParseSchedule(e).field["dow"] = field
    BY <1>1 DEF ParseSchedule
  <1>3. \A v \in 0..7, part \in text : v \in Numbers(part, b) <=> Covers(part, b, v)
    BY <1>1, NumbersAreCovered
  <1>4. /\ field.any <=> text = Star
        /\ field.values = {Stored(v, TRUE) : v \in UNION {Numbers(part, b) : part \in text}}
    BY DEF parseCronField
  <1>5. UNION {Numbers(part, b) : part \in text} \subseteq Int
    <2> SUFFICES ASSUME NEW part \in text PROVE Numbers(part, b) \subseteq Int
      OBVIOUS
    <2>1. /\ part.a \in Int /\ part.b \in Int /\ part.op \in {"step", "range", "value"}
          /\ b.min \in Int /\ b.max \in Int
      BY <1>1, BoundsAssumption DEF Part, WellFormed
    <2> HIDE DEF b, text
    <2> QED
      BY <2>1 DEF Numbers
  <1> DEFINE numbers == UNION {Numbers(part, b) : part \in text}
  <1>6. field.values = {Stored(v, TRUE) : v \in numbers}
    BY <1>4
  <1>7. \A v : v \in numbers <=> \E part \in text : v \in Numbers(part, b)
    OBVIOUS
  <1> HIDE DEF field, b, text, numbers
  <1>8. \A v \in Int : Stored(v, TRUE) # 7 /\ (Stored(v, TRUE) = d <=> v = d \/ (d = 0 /\ v = 7))
    BY DEF Stored
  <1>9. numbers \subseteq Int
    BY <1>5 DEF numbers
  <1>10. 7 \notin field.values
    BY <1>6, <1>8, <1>9
  <1>11. d \in field.values <=> d \in numbers \/ (d = 0 /\ 7 \in numbers)
    BY <1>6, <1>8, <1>9
  <1>12. d \in field.values
          <=> \E part \in text : d \in Numbers(part, b) \/ (d = 0 /\ 7 \in Numbers(part, b))
    BY <1>7, <1>11
  <1>13. d \in field.values
          <=> \E part \in text : Covers(part, b, d) \/ (d = 0 /\ Covers(part, b, 7))
    BY <1>3, <1>12
  <1>14. \A v : Names(e, "dow", v) <=> text = Star \/ \E part \in text : Covers(part, b, v)
    BY DEF Names, text, b
  <1> QED
    BY <1>2, <1>4, <1>10, <1>13, <1>14 DEF contains

\* On every clock, an expression matches when it fires by its text: parsing and
\* matching lose nothing and add nothing (matchesMinute, matchesSecond, matchesDay).
THEOREM MatchesIsFires ==
    ASSUME NEW e \in Expression, ScheduleOK(e),
           NEW c \in [second : Int, minute : Int, hour : Int,
                      dom : Int, month : Int, dow : 0..6]
    PROVE  Matches(ParseSchedule(e), c) <=> Fires(e, c)
  <1> DEFINE s == ParseSchedule(e)
  <1>1. DOMAIN s.field = UsedFields(e) /\ {"dom", "dow"} \subseteq UsedFields(e)
    BY DEF ParseSchedule, UsedFields, FieldName
  <1>2. ASSUME NEW f \in UsedFields(e) \ {"dow"}
        PROVE  contains(s.field[f], c[f]) <=> Names(e, f, c[f])
    <2>1. c[f] \in Int
      BY DEF UsedFields, FieldName
    <2> QED
      BY <2>1, FieldContains
  <1>3. (\A f \in (DOMAIN s.field) \ {"dom", "dow"} : contains(s.field[f], c[f]))
          <=> \A f \in UsedFields(e) \ {"dom", "dow"} : Names(e, f, c[f])
    BY <1>1, <1>2
  <1>4. contains(s.field["dom"], c.dom) <=> Names(e, "dom", c.dom)
    BY <1>1, <1>2
  <1>5. contains(s.field["dow"], c.dow) \/ (c.dow = 0 /\ contains(s.field["dow"], 7))
          <=> Names(e, "dow", c.dow) \/ (c.dow = 0 /\ Names(e, "dow", 7))
    BY WeekdayContains
  <1>6. /\ s.field["dom"].any <=> e.text["dom"] = Star
        /\ s.field["dow"].any <=> e.text["dow"] = Star
    BY <1>1 DEF ParseSchedule, parseCronField
  <1> HIDE DEF s
  <1>7. matchesDay(s.field["dom"], s.field["dow"], c)
          <=> LET day == Names(e, "dom", c.dom)
                  weekday == Names(e, "dow", c.dow) \/ (c.dow = 0 /\ Names(e, "dow", 7))
              IN  IF e.text["dom"] # Star /\ e.text["dow"] # Star THEN day \/ weekday
                                                                ELSE day /\ weekday
    BY <1>4, <1>5, <1>6 DEF matchesDay, Names
  <1> QED
    BY <1>3, <1>7 DEF Matches, Fires, s

\* Every unit after an instant is one the walk of Next comes to, and the walk
\* comes to whole units after that instant only, in their order.
LEMMA WalkIsWhole ==
    ASSUME NEW d \in Nat \ {0}, NEW i \in Nat
    PROVE  LET at(n) == ((i + d) - (i % d)) + n * d
           IN  /\ \A n \in Nat : at(n) \in Nat /\ at(n) > i /\ at(n) % d = 0
               /\ \A n, m \in Nat : n < m <=> at(n) < at(m)
               /\ \A u \in Nat : u > i /\ u % d = 0 => \E n \in Nat : u = at(n)
  <1>1. PICK r \in 0..(d - 1) : r = i % d
    BY Division
  <1>2. i - r \in Int /\ (i - r) % d = 0
    <2>1. i \div d \in Int /\ i = d * (i \div d) + (i % d)
      BY Division
    <2>2. PICK p \in Int : i = d * p + r
      BY <1>1, <2>1
    <2>3. i - r = d * p + 0
      BY <2>2
    <2>4. (d * p + 0) % d = 0
      BY Remainder
    <2> QED
      BY <2>3, <2>4
  <1>3. PICK p \in Int : i - r = d * p
    BY <1>2, Multiple
  <1> DEFINE at(n) == ((i + d) - r) + n * d
  <1>4. ASSUME NEW n \in Nat PROVE n + 1 + p \in Int /\ at(n) = d * (n + 1 + p)
    <2>1. d * (n + 1 + p) = d * n + d + d * p
      OBVIOUS
    <2>2. at(n) = (i - r) + d + n * d
      OBVIOUS
    <2> QED
      BY <1>3, <2>1, <2>2
  <1>5. ASSUME NEW n \in Nat PROVE at(n) \in Nat /\ at(n) > i /\ at(n) % d = 0
    <2>1. n * d \in Nat
      OBVIOUS
    <2>2. (d * (n + 1 + p) + 0) % d = 0
      BY Remainder
    <2>3. at(n) % d = 0
      BY <1>4, <2>2
    <2> QED
      BY <2>1, <2>3
  <1>6. ASSUME NEW n \in Nat, NEW m \in Nat PROVE n < m <=> at(n) < at(m)
    <2>1. n < m <=> d * n < d * m
      BY Order
    <2> QED
      BY <2>1
  <1>7. ASSUME NEW u \in Nat, u > i, u % d = 0 PROVE \E n \in Nat : u = at(n)
    <2>1. PICK q \in Int : u = d * q
      BY <1>7, Multiple
    <2>2. d * p < d * q
      BY <1>3, <1>7, <2>1
    <2>3. p < q
      BY <2>2, Order
    <2>4. q - p - 1 \in Nat
      BY <2>3
    <2>5. PICK n \in Nat : n = q - p - 1
      BY <2>4
    <2>6. at(n) = d * (n + 1 + p) /\ n + 1 + p = q
      BY <1>4, <2>5
    <2> HIDE DEF at
    <2> QED
      BY <2>1, <2>6
  <1> QED
    BY <1>1, <1>5, <1>6, <1>7

\* For every calendar, expression and instant: Next returns the first whole
\* minute (or second) after it at which the text of the expression fires, and
\* the zero time only when it fires at none before the limit.
THEOREM NextIsAsWritten ==
    ASSUME CalendarOK PROVE Spec => []NextAsWritten
  <1>1. TypeInv /\ ParsedInv /\ FirstMatch => NextAsWritten
    <2> SUFFICES ASSUME TypeInv, ParsedInv, FirstMatch, Parsed, pc = "done"
                 PROVE  NextAsWritten
      BY DEF NextAsWritten
    <2>1. PICK d \in Nat \ {0} : d = Unit(schedule)
      BY LengthAssumption DEF Unit
    <2>2. after \in Nat /\ steps \in Nat /\ expression \in Expression
      BY InstantsAssumption, ExpressionsAssumption DEF TypeInv, TypeOK
    <2>3. /\ \A n \in Nat : At(n) \in Nat /\ At(n) > after /\ At(n) % d = 0
          /\ \A n, m \in Nat : n < m <=> At(n) < At(m)
          /\ \A u \in Nat : u > after /\ u % d = 0 => \E n \in Nat : u = At(n)
      BY <2>1, <2>2, WalkIsWhole DEF At, Start
    <2>4. limit \in Int
      <3>1. Start(schedule, after) \in Nat
        <4>1. At(0) \in Nat
          BY <2>3
        <4>2. Start(schedule, after) \in Int
          <5>1. after % d \in 0..(d - 1)
            BY <2>2, Division
          <5> QED
            BY <2>1, <2>2, <5>1 DEF Start
        <4> QED
          BY <2>1, <4>1, <4>2 DEF At
      <3> QED
        BY <3>1 DEF limit, CalendarOK
    <2>5. ASSUME NEW u \in Nat PROVE Matches(schedule, Clock(u)) <=> Fires(expression, Clock(u))
      <3>1. Clock(u) \in [second : Int, minute : Int, hour : Int,
                          dom : Int, month : Int, dow : 0..6]
        BY DEF CalendarOK
      <3>2. ScheduleOK(expression) /\ schedule = ParseSchedule(expression)
        BY DEF ParsedInv
      <3> QED
        BY <2>2, <3>1, <3>2, MatchesIsFires
    <2> DEFINE fires == {u \in (after + 1)..(limit - 1) :
                           u % Unit(schedule) = 0 /\ Fires(expression, Clock(u))}
    <2>6. ASSUME NEW u \in fires
          PROVE  /\ u \in Nat /\ u < limit
                 /\ \E n \in Nat : n >= steps /\ u = At(n)
      <3>1. u \in Nat /\ u > after /\ u < limit /\ u % d = 0 /\ Fires(expression, Clock(u))
        BY <2>1, <2>2, <2>4
      <3>2. PICK n \in Nat : u = At(n)
        BY <2>3, <3>1
      <3>3. Matches(schedule, Clock(At(n)))
        BY <2>5, <3>1, <3>2
      <3>4. ~ (n < steps)
        BY <2>2, <3>3 DEF FirstMatch
      <3> QED
        BY <2>2, <3>1, <3>2, <3>4
    <2>7. \A n \in Nat : n >= steps => At(n) >= t
      BY <2>2, <2>3 DEF t
    <2>8. CASE result = Never
      <3>1. ~ (t < limit)
        BY <2>8 DEF FirstMatch
      <3>2. t \in Nat
        BY <2>2, <2>3 DEF t
      <3>3. fires = {}
        BY <2>3, <2>4, <2>6, <2>7, <3>1, <3>2
      <3> QED
        BY <2>8, <3>3 DEF NextAsWritten
    <2>9. CASE result # Never
      <3>1. result = t /\ t < limit /\ Matches(schedule, Clock(t))
        BY <2>9 DEF FirstMatch
      <3>2. t \in Nat /\ t > after /\ t % d = 0
        BY <2>2, <2>3 DEF t
      <3>3. result \in fires
        BY <2>1, <2>2, <2>4, <2>5, <3>1, <3>2
      <3>4. \A u \in fires : result <= u
        BY <2>3, <2>6, <2>7, <3>1, <3>2
      <3> QED
        BY <2>9, <3>3, <3>4 DEF NextAsWritten
    <2> QED
      BY <2>8, <2>9
  <1> QED
    BY <1>1, TypeInvariant, ParsedInvariant, NextReturnsFirstMatch, PTL

=============================================================================
