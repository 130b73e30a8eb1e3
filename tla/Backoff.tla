------------------------------- MODULE Backoff -------------------------------
(***************************************************************************)
(* The delays between reconnect attempts: delay_ms_for_attempt of the      *)
(* broker policy (crates/ferredge-core/src/device.rs), which the MQTT      *)
(* listener sleeps for, and delay_for_attempt of the Modbus policy         *)
(* (crates/ferredge-proto-modbus/src/endpoint.rs).  Only operators;        *)
(* Exchange makes the attempts.                                            *)
(***************************************************************************)
EXTENDS Options, Naturals

CONSTANTS
    Limit,   \* largest value of the integer type (u64::MAX, u128::MAX)
    Ticks,   \* of a Duration in a millisecond
    MillisMax \* the most milliseconds a Duration is made from (u64::MAX)

ASSUME BackoffAssumptions ==
    Limit \in Nat \ {0} /\ Ticks \in Nat \ {0} /\ MillisMax \in Nat /\ None \notin Nat

Millis  == 0..Limit
Configs == [initial : Millis, max : Millis \cup {None}, multiplier : Millis,
            strategy : {"Fixed", "Exponential"}]

Least(a, b)    == IF a <= b THEN a ELSE b
Greatest(a, b) == IF a >= b THEN a ELSE b

\* Faulty variant: the product wraps around.
WrappingMul(a, b) == (a * b) % (Limit + 1)

SaturatingMul(a, b) == Least(a * b, Limit)

\* The loop `for _ in 1..attempt`: each round multiplies and leaves with the cap
\* once it is reached (multiplying the cap again would not change it).
Grow(initial, multiplier, cap, n) ==
    LET m == Greatest(multiplier, 1)
        delay[i \in 1..n] == IF i = 1 THEN Greatest(initial, 1)
                             ELSE Least(SaturatingMul(delay[i - 1], m), cap)
    IN  delay[n]

\* Faulty variant: the first delay is not capped.
BrokerDelayFirstUncapped(c, n) ==
    IF n <= 1 THEN c.initial
    ELSE IF c.strategy = "Fixed" THEN Least(c.initial, c.max)
    ELSE Least(Grow(c.initial, c.multiplier, c.max, n), c.max)

\* BrokerReconnectConfig::delay_ms_for_attempt (max_delay_ms is not optional).
BrokerDelay(c, n) ==
    IF n <= 1 \/ c.strategy = "Fixed" THEN Least(c.initial, c.max)
    ELSE Least(Grow(c.initial, c.multiplier, c.max, n), c.max)

\* Duration::as_millis
AsMillis(delay) == delay \div Ticks

\* ModbusReconnectConfig::delay_for_attempt with an initial delay (delays in ticks):
\* the first delay is taken as it is, the cap defaults to it and is at least 1 ms.
ModbusDelay(c, n) ==
    LET cap == Or(c.max, c.initial) IN
    IF n <= 1 THEN c.initial
    ELSE IF c.strategy = "Fixed" THEN Least(c.initial, cap)
    ELSE Ticks * Least(Grow(AsMillis(c.initial), c.multiplier, Greatest(AsMillis(cap), 1), n), MillisMax)
=============================================================================
