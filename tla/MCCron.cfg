SPECIFICATION Spec
CONSTANTS
    Clock <- MCClock
    NextYear <- MCNextYear
    Second = 2
    Minute = 4
    Bounds <- MCBounds
    Expressions <- MCExpressions
    Instants <- MCInstants
    Never = Never
INVARIANTS
    TypeOK
    FirstMatch
    NextAsWritten
CHECK_DEADLOCK FALSE
