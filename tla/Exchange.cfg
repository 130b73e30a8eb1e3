\* Every driver: the commands and captures its planners tell apart, answers cut or
\* followed by other bytes at any place, in pieces of up to BufferSize bytes; every
\* configuration of a three-bit reconnect policy.
SPECIFICATION Spec

CONSTANTS
    None = None
    U8Max = 3
    U16Max = 500
    U32Max = 9
    HttpResource <- MCHttpResource
    TextTypes = {"text"}
    Formats = {"utf8"}
    Wildcards = {"t/#", "t#"}
    Unbuildable <- MCUnbuildable
    Base = 2
    ModbusResource <- MCModbusResource
    FrameLimit <- MCFrameLimit
    AsF32 <- MCAsF32
    AsF64 <- MCAsF64
    HttpJobs <- MCHttpJobs
    MqttJobs <- MCMqttJobs
    ZenohJobs <- MCZenohJobs
    ModbusJobs <- MCModbusJobs
    Outages <- MCOutages
    Limit = 7
    Ticks = 2
    MillisMax = 2
    MaxAttempt = 5
    BufferSize = 4

INVARIANT PathsAgree
INVARIANT FirstOccurrenceWins
INVARIANT HeadersSurvive
INVARIANT V3LosesNothing
INVARIANT WholeAnswer
INVARIANT ReadsBackWrites
INVARIANT ResultsSurviveBridge
INVARIANT DelaysAreExponential
PROPERTY BrokerRises

\* An exchange ends, an outage has a last attempt, and an HTTP peer may fall silent.
CHECK_DEADLOCK FALSE
