\* One caller, a reachable broker that keeps its sessions, no command slower than
\* its deadline.
SPECIFICATION ReachableSpec
CONSTANTS
    Clients = {c1}
    Publishes = {}
    Subscribes = {s1, s2}
    Unsubscribes = {u1}
    Topics = {t1}
    LifecycleOps = {"start_listening"}
    MaxCalls = 1
    MaxListeners = 1
    MaxConns = 3
    MaxDrops = 1
    ChanCap = 1
    QueueEnabled = TRUE
    MaxQueued = 3
    ReplaySubs = TRUE
    ReconnectEnabled = TRUE
    MaxAttempts = Unlimited
    AttemptCap = 1
    CleanStart = FALSE
    MayTimeOut = FALSE
    SlowBroker = FALSE
    SinkMayFail = FALSE
    TopicOf <- MCTopicOf
    Unlimited = Unlimited
    NoCall = NoCall
 
PROPERTY RunningPolls
PROPERTY RequestReturns
\* Callers need not call: a behaviour may end.
CHECK_DEADLOCK FALSE
