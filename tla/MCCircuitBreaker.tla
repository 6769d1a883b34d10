-------------------------- MODULE MCCircuitBreaker --------------------------
(* Small instances of CircuitBreaker for TLC. *)
EXTENDS CircuitBreaker

Config(samples, rate, failures, initial, max) ==
    [minSamples |-> samples, openFailureRate |-> rate, openMinFailures |-> failures,
     initialCooling |-> initial, maxCooling |-> max]

\* One tick is about the initial cooling; the table doubles and is capped.
MCBackoff == <<1, 2, 3>>
MCShortBackoff == <<1, 3>>
MCTwoSamples == Config(2, 40, 2, 1, 2)
MCOneSample == Config(1, 50, 1, 1, 3)
MCNoOverride == [g \in Groups |-> Config(0, 0, 0, 0, 0)]
\* A group that opens on a single failure and cools for two ticks.
MCStrictGroup == [g \in Groups |-> Config(1, 0, 1, 2, 0)]
=============================================================================
