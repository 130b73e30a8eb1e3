\* A listener is started while another caller's stop waits for the first one.
SPECIFICATION Spec

CONSTANTS
    Clients = {c1, c2}
    Publishes = {}
    Subscribes = {}
    Unsubscribes = {}
    Topics = {t1}
    LifecycleOps = {"start_listening", "stop_listening"}
    MaxCalls = 3
    MaxListeners = 2
    MaxConns = 3
    MaxDrops = 0
    ChanCap = 2
    QueueEnabled = TRUE
    MaxQueued = 1
    ReplaySubs = TRUE
    ReconnectEnabled = TRUE
    MaxAttempts = Unlimited
    AttemptCap = 1
    CleanStart = TRUE
    MayTimeOut = TRUE
    SlowBroker = FALSE
    SinkMayFail = FALSE
    TopicOf <- MCTopicOf
    Unlimited = Unlimited
    NoCall = NoCall

INVARIANT OneListener

\* Callers need not call: a behaviour may end.
CHECK_DEADLOCK FALSE
