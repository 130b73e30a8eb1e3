\* One caller on an RTU port whose device may answer late.
SPECIFICATION Spec
CONSTANTS
    c1 = c1
    c2 = c2
    c3 = c3
    c4 = c4
    Callers = {c1}
    Requests = {r1, r2, w1}
    Writes = {w1}
    Config <- MCSerial
    Enabled = TRUE
    MaxAttempts = 1
    RetryWrites = FALSE
    MaxSockets = 2
    MaxBreaks = 0
    MaxStops = 0
    None = None
    Truncated = Truncated
INVARIANT AnswerMatches
\* Callers need not call: a behaviour may end.
CHECK_DEADLOCK FALSE
