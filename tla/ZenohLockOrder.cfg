\* One caller starts a listener while another one stops it.
SPECIFICATION FairSpec
CONSTANTS
    c1 = c1
    c2 = c2
    Clients = {c1, c2}
    Keys = {k1}
    CallOps <- MCLifecycleTwice
    MaxTasks = 3
    MaxStarts = 3
    None = None

PROPERTY StopReturns

\* The deadlock is reported as a stop that never returns.
CHECK_DEADLOCK FALSE
