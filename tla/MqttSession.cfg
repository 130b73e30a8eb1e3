\* Two commands over one packet id, which the broker uses as well; two sessions, one
\* message of the broker.
SPECIFICATION Spec

CONSTANTS
    ask = ask
    sub = sub
    k1 = k1
    Commands = {ask, sub}
    Kind <- MCKind
    CorrelationOf <- MCCorrelationOf
    PacketIds = {i1}
    BrokerIds = {i1}
    Versions = {"v3", "v5"}
    Methods = {scram, token}
    Configured = scram
    HasWill = TRUE
    Keepalive = 2
    ReadTimeout = 1
    MaxSessions = 2
    MaxPublishes = 1
    MaxChallenges = 1
    MaxQueue = 1
    None = None

INVARIANT TypeOK
INVARIANT ResultsNameSender
INVARIANT RepliesReachAsker
INVARIANT IdsTrackCommands
INVARIANT HungBrokerNoticed
INVARIANT WillOnlyOnLoss
PROPERTY FailsForCause
PROPERTY DeliveryAdvances

\* A session may end and no other be made.
CHECK_DEADLOCK FALSE
