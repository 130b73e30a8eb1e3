\* Clones of one driver share a session: retries, cancellation, closing peers, stop.
SPECIFICATION FairSpec
CONSTANTS
    c1 = c1
    c2 = c2
    c3 = c3
    c4 = c4
    Callers = {c1, c2, c3, c4}
    Requests = {r1, w1}
    Writes = {w1}
    Config <- MCShared
    Enabled = TRUE
    MaxAttempts = 1
    RetryWrites = FALSE
    MaxSockets = 2
    MaxBreaks = 1
    MaxStops = 1
    None = None
    Truncated = Truncated
INVARIANT TypeOK
INVARIANT NetworkAnswersMatch
INVARIANT SocketFits
INVARIANT SendsWithinBudget
PROPERTY CallsReturn
\* Callers need not call: a behaviour may end.
CHECK_DEADLOCK FALSE
