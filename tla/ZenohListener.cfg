\* One caller starts, stops and restarts listeners, and earlier ones may still be
\* ending; another one keeps the session busy.
SPECIFICATION FairSpec
CONSTANTS
    c1 = c1
    c2 = c2
    Clients = {c1, c2}
    Keys = {k1}
    CallOps <- MCLifecycleAndCalls
    MaxTasks = 2
    MaxStarts = 2
    None = None
INVARIANT TypeOK
INVARIANT RunningStoppable
PROPERTY StopReturns
PROPERTY SignalledTaskEnds
