\* A direct publish fails while another caller starts the listener.
SPECIFICATION ReachableSpec

CONSTANTS
    Clients = {c1, c2}
    Publishes = {p1}
    Subscribes = {}
    Unsubscribes = {}
    Topics = {t1}
    LifecycleOps = {"start_listening"}
    MaxCalls = 1
    MaxListeners = 1
    MaxConns = 3
    MaxDrops = 1
    ChanCap = 2
    QueueEnabled = TRUE
    MaxQueued = 1
    ReplaySubs = TRUE
    ReconnectEnabled = TRUE
    MaxAttempts = Unlimited
    AttemptCap = 1
    CleanStart = TRUE
    MayTimeOut = TRUE
    SlowBroker = FALSE
    SinkMayFail = FALSE
    TopicOf <- MCTopicOf
    Unlimited = Unlimited
    NoCall = NoCall

PROPERTY RunningPolls

\* Callers need not call: a behaviour may end.
CHECK_DEADLOCK FALSE
