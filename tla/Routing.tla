------------------------------- MODULE Routing -------------------------------
\* The routing decision (router/router.go, filter.go, policy.go, strategy.go)
\* as operators of a snapshot, a policy and a request.
\* Every channel is described for the one model of the request. Prices are
\* integers per million tokens; the million is left out of every cost alike.
EXTENDS Integers, Sequences, FiniteSets, SequencesExt

CONSTANTS NoData,         \* 9999 in the code: what a missing TTFT counts as
          BaselinePrice,  \* 10: the price a baseline or declared ratio multiplies
          UnknownOutput   \* 30: the output price assumed when none is known

NoGroup == 0
None == [none |-> TRUE]
Null == ""     \* SQL NULL, and the empty name

Levels == [primary |-> 3, backup |-> 2, emergency |-> 1]
RoleLevel(role) == IF role \in DOMAIN Levels THEN Levels[role] ELSE 0

-----------------------------------------------------------------------------
\* Policies. A configuration holds only the keys somebody stored.

Get(policy, key, default) ==
    IF key \in DOMAIN policy.config THEN policy.config[key] ELSE default

\* The defaults of configuration file and code, merged key by key.
SystemPolicy(fallback, injected) ==
    [strategy |-> IF "strategy" \in DOMAIN injected THEN injected.strategy ELSE fallback.strategy,
     config |-> [key \in DOMAIN fallback.config |->
                   IF key \in DOMAIN injected /\ injected[key] > 0
                   THEN injected[key] ELSE fallback.config[key]]]

\* The rows of routing_policies a query finds: NULL matches only NULL.
PolicyRows(table, token, model) ==
    {row \in table : row.token = token /\ row.model = model}

\* As a bug: the group's strategy comes before the token's policies.
GroupFirst(table, token, model, group, failed) ==
    LET Found(level, rows) == IF level \in failed THEN {} ELSE rows
    IN <<IF group # None /\ group.strategy # Null
           THEN {[token |-> Null, model |-> Null, strategy |-> group.strategy, config |-> group.config]}
           ELSE {},
         Found(1, PolicyRows(table, token, model)),
         Found(2, PolicyRows(table, token, Null)),
         Found(4, PolicyRows(table, Null, Null))>>

\* The levels of the lookup, the most specific first. A query that fails looks
\* like a query that finds nothing.
Lookup(table, token, model, group, failed) ==
    LET Found(level, rows) == IF level \in failed THEN {} ELSE rows
    IN <<Found(1, PolicyRows(table, token, model)),
         Found(2, PolicyRows(table, token, Null)),
         IF group # None /\ group.strategy # Null
           THEN {[token |-> Null, model |-> Null, strategy |-> group.strategy, config |-> group.config]}
           ELSE {},
         Found(4, PolicyRows(table, Null, Null))>>

LoadPolicy(table, token, model, group, failed, system) ==
    LET levels == Lookup(table, token, model, group, failed)
        hits == {i \in DOMAIN levels : levels[i] # {}}
    IN IF hits = {} THEN system
       ELSE LET row == CHOOSE r \in levels[CHOOSE i \in hits : \A j \in hits : i <= j] : TRUE
            IN [strategy |-> row.strategy, config |-> row.config]

-----------------------------------------------------------------------------
\* Costs

Tokens(req, policy) ==
    [input |-> req.input,
     output |-> IF req.maxOutput = 0 THEN req.input * Get(policy, "expected_output_ratio", 2)
                ELSE req.maxOutput]

\* A measured ratio multiplies the official price noted with it, the one of the
\* price library when none was noted, and the baseline when there is none either.
MeasuredPrice(ch, official) ==
    LET list == IF ch.ratio.official.in > 0 /\ ch.ratio.official.out > 0
                THEN ch.ratio.official ELSE official
    IN IF ch.ratio.basis = "official" /\ list.in > 0 /\ list.out > 0
       THEN [in |-> ch.ratio.value * list.in, out |-> ch.ratio.value * list.out]
       ELSE [in |-> ch.ratio.value * BaselinePrice, out |-> ch.ratio.value * BaselinePrice]

UnknownPrice == [in |-> BaselinePrice, out |-> UnknownOutput]

\* As a bug: half a declared price is taken for a whole one.
PriceOfAny(ch, official) ==
    IF ch.ratio.value > 0 THEN MeasuredPrice(ch, official)
    ELSE [in |-> ch.declared.in * BaselinePrice, out |-> ch.declared.out * BaselinePrice]

Price(ch, official) ==
    IF ch.ratio.value > 0 THEN MeasuredPrice(ch, official)
    ELSE IF ch.declared.in > 0 /\ ch.declared.out > 0
         THEN [in |-> ch.declared.in * BaselinePrice, out |-> ch.declared.out * BaselinePrice]
         ELSE UnknownPrice

EstimateCost(ch, req, policy, official) ==
    LET price == Price(ch, official)
        tokens == Tokens(req, policy)
    IN tokens.input * price.in + tokens.output * price.out

-----------------------------------------------------------------------------
\* The hard filter. Group filter first, then the checks of Filter in order.

CircuitOf(ch, group) ==
    IF group \in DOMAIN ch.circuits THEN ch.circuits[group]
    ELSE IF NoGroup \in DOMAIN ch.circuits THEN ch.circuits[NoGroup] ELSE "closed"

Exclusion(ch, req, policy, official) ==
    CASE req.groups # {} /\ ch.groups \cap req.groups = {} -> "group_not_allowed"
      [] ~ch.enabled -> "user_disabled"
      [] ~ch.mapped -> "model_not_supported"
      [] ~(req.capabilities \subseteq ch.capabilities) -> "capability_missing"
      [] EstimateCost(ch, req, policy, official) > Get(policy, "max_price_cap", 100) -> "over_price_cap"
      [] CircuitOf(ch, req.group) = "open" -> "circuit_open"
      [] /\ policy.strategy = "latency_first"
         /\ ch.ttft50 # NoData /\ ch.ttft50 > Get(policy, "max_ttft_ms", 5000) -> "latency_cap_exceeded"
      [] OTHER -> "none"

Candidates(channels, req, policy, official) ==
    {id \in DOMAIN channels : Exclusion(channels[id], req, policy, official) = "none"}

-----------------------------------------------------------------------------
\* Strategies: criteria compared one after the other, the identifier last.

Criteria ==
    [custom_priority   |-> <<"role", "priority", "reliability", "ttft50", "id">>,
     price_first       |-> <<"cost", "reliability", "ttft50", "id">>,
     latency_first     |-> <<"ttft50", "ttft95", "reliability", "id">>,
     reliability_first |-> <<"reliability", "ttft50", "cost", "id">>,
     balanced          |-> <<"composite", "reliability", "id">>]

CriteriaOf(strategy) ==
    IF strategy \in DOMAIN Criteria THEN Criteria[strategy] ELSE Criteria.custom_priority

\* Fractions, so that comparisons are exact.
Frac(num, den) == [num |-> num, den |-> den]
Above(f, g) == f.num * g.den > g.num * f.den

\* Success rate with a prior of five successes in ten attempts.
Reliability(ch) == Frac(ch.successes + 5, ch.attempts + 10)

\* The largest number found, beginning with zero.
Biggest(S) == CHOOSE x \in S \cup {0} : \A y \in S \cup {0} : y <= x
OrOne(n) == IF n = 0 THEN 1 ELSE n

\* Weighted sum of cost, reliability, latency and load, each relative to the
\* largest of the candidates. Load counts as idle when nobody has any.
Composite(ch, channels, ids, req, policy, official) ==
    LET Cost(c) == EstimateCost(c, req, policy, official)
        maxCost == OrOne(Biggest({Cost(channels[i]) : i \in ids}))
        maxTTFT == OrOne(Biggest({channels[i].ttft50 : i \in ids}))
        maxLoad == OrOne(Biggest({channels[i].attempts : i \in ids}))
        rel == Reliability(ch)
    IN Frac(rel.den * maxTTFT * maxLoad * Get(policy, "cost", 7) * (maxCost - Cost(ch))
              + maxCost * maxTTFT * maxLoad * Get(policy, "reliability", 6) * rel.num
              + rel.den * maxCost * maxLoad * Get(policy, "latency", 5) * (maxTTFT - ch.ttft50)
              + rel.den * maxCost * maxTTFT * Get(policy, "load", 2) * (maxLoad - ch.attempts),
            rel.den * maxCost * maxTTFT * maxLoad)

\* What a criterion measures; larger is better.
Measure(criterion, id, channels, ids, req, policy, official) ==
    LET ch == channels[id]
    IN CASE criterion = "role"        -> Frac(RoleLevel(ch.role), 1)
         [] criterion = "priority"    -> Frac(ch.priority, 1)
         [] criterion = "reliability" -> Reliability(ch)
         [] criterion = "ttft50"      -> Frac(-ch.ttft50, 1)
         [] criterion = "ttft95"      -> Frac(-ch.ttft95, 1)
         [] criterion = "cost"        -> Frac(-EstimateCost(ch, req, policy, official), 1)
         [] criterion = "composite"   -> Composite(ch, channels, ids, req, policy, official)
         [] criterion = "id"          -> Frac(-id, 1)

Precedes(a, b, channels, ids, req, policy, official) ==
    LET criteria == CriteriaOf(policy.strategy)
        M(i, id) == Measure(criteria[i], id, channels, ids, req, policy, official)
    IN \E i \in DOMAIN criteria :
          /\ Above(M(i, a), M(i, b))
          /\ \A j \in 1..(i - 1) : ~Above(M(j, a), M(j, b)) /\ ~Above(M(j, b), M(j, a))

Sorted(order, channels, ids, req, policy, official) ==
    \A i, j \in DOMAIN order :
        i < j => Precedes(order[i], order[j], channels, ids, req, policy, official)

SortCandidates(channels, req, policy, official) ==
    LET ids == Candidates(channels, req, policy, official)
    IN CHOOSE order \in SetToSeqs(ids) : Sorted(order, channels, ids, req, policy, official)

\* The decision: the candidates in the order they will be tried, empty when
\* nobody is left.
Route(snapshot, req, policy) == SortCandidates(snapshot.channels, req, policy, snapshot.prices)
=============================================================================
