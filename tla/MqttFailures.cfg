\* Listeners that give up or whose sink fails, a broker that may answer late; a
\* restart waits until the previous task has been joined.
SPECIFICATION FairSpec

CONSTANTS
    Clients = {c1}
    Publishes = {}
    Subscribes = {s1}
    Unsubscribes = {}
    Topics = {t1}
    LifecycleOps = {"start_listening", "stop_listening", "stop"}
    MaxCalls = 3
    MaxListeners = 1
    MaxConns = 3
    MaxDrops = 1
    ChanCap = 2
    QueueEnabled = TRUE
    MaxQueued = 1
    ReplaySubs = TRUE
    ReconnectEnabled = TRUE
    MaxAttempts = 1
    AttemptCap = 2
    CleanStart = TRUE
    MayTimeOut = TRUE
    SlowBroker = TRUE
    SinkMayFail = TRUE
    TopicOf <- MCTopicOf
    Unlimited = Unlimited
    NoCall = NoCall

INVARIANT AnnouncedStatus
INVARIANT StopStops
INVARIANT RunningServed
PROPERTY StopReturns

\* Callers need not call: a behaviour may end.
CHECK_DEADLOCK FALSE
