------------------------------ MODULE MCRouting ------------------------------
(* Rounds, snapshots and logged decisions in one state space with the routing *)
(* decision over many snapshots: a behaviour is one of DecisionLog or of     *)
(* RoutingCases, as "live" says; the other stays where it is.                *)
EXTENDS DecisionLog

CONSTANTS CaseProfile, CaseChannel, CaseOfficial, Strategy, Table, Injected, Fallback,
          Query   \* of RoutingCases, given the definitions below

VARIABLES live, snapshot, query, decision

caseVars == <<snapshot, query, decision>>
allVars == <<live, vars, caseVars>>

-----------------------------------------------------------------------------
(* Two channels in a group; one is checked, the other one priced. Request 1  *)
(* names the group, request 2 none.                                          *)
Upstream0 == [role |-> "primary", priority |-> 0, mapped |-> TRUE, capabilities |-> {}, groups |-> {1}]
MCSetting == {Upstream0 @@ [enabled |-> on] : on \in BOOLEAN}
MCPolicy == {[strategy |-> s, config |-> <<>>] : s \in {"price_first", "custom_priority"}}
Both(n) == [in |-> n, out |-> n]
MCOfficial == {Both(3)}
MCAsk == [r \in Request |-> [input |-> 1, maxOutput |-> 1, capabilities |-> {},
                             groups |-> IF r = 1 THEN {1} ELSE {}, group |-> IF r = 1 THEN 1 ELSE NoGroup]]
MCDue == {<<"alive", 1>>, <<"pricing", 2>>}
MCOffer == [alive |-> {TRUE}, pricing |-> {Both(1)}]
MCMeasured == {<< <<[epoch |-> 0, ratio |-> [value |-> 1, basis |-> "official", official |-> NoPrice], ttft |-> 2]>>, <<>> >>}
MCHistory == {[attempts |-> 2, successes |-> 0]}

(* Rounds and faults beside a request; a change and a fault beside two       *)
(* requests at two gateways; a change beside two requests at one; two changes *)
(* beside a request for the group.                                           *)
Asking(g1, g2) == [r \in Request |-> [at |-> "new", gateway |-> IF r = 1 THEN g1 ELSE g2]]
Left(r, c, f) == rounds = MaxRounds - r /\ changes = MaxChanges - c /\ faults = MaxFaults - f
LogCases ==
    LET g1 == CHOOSE g \in Gateway : TRUE
        g2 == CHOOSE g \in Gateway : g # g1
    IN \/ Left(MaxRounds, 0, MaxFaults) /\ request = [Asking(g1, g1) EXCEPT ![2] = [at |-> "done"]]
       \/ Left(0, 1, 1) /\ request = Asking(g1, g2)
       \/ Left(0, 1, 0) /\ request = Asking(g1, g1)
       \/ Left(0, 2, 0) /\ request = [Asking(g1, g1) EXCEPT ![2] = [at |-> "done"]]

NoLog == Left(0, 0, 0) /\ request = [r \in Request |-> [at |-> "done"]]

-----------------------------------------------------------------------------
(* Three channels, each of one of six profiles: nothing known; declared with *)
(* half a price; declared; measured without and with an official price;      *)
(* measured before ratios were official, and open in the group.              *)
MCCaseChannel == {1, 2, 3}
Measure0(value, basis, official) == [value |-> value, basis |-> basis, official |-> official]
Profile0(role, priority, ratio, declared, ttft, attempts, successes, circuits) ==
    [enabled |-> TRUE, mapped |-> TRUE, capabilities |-> {}, groups |-> {1}, role |-> role, priority |-> priority,
     ratio |-> ratio, declared |-> declared, ttft50 |-> ttft, ttft95 |-> ttft,
     attempts |-> attempts, successes |-> successes, circuits |-> circuits]
MCCaseProfile == {
    Profile0("primary", 0, NoRatio, NoPrice, NoData, 0, 0, <<>>),
    Profile0("backup", 3, NoRatio, [in |-> 0, out |-> 2], 2, 2, 1, <<>>),
    Profile0("primary", 1, NoRatio, Both(1), 2, 0, 0, <<>>),
    Profile0("emergency", 0, Measure0(1, "official", NoPrice), NoPrice, 3, 4, 4, [b \in {NoGroup} |-> "half_open"]),
    Profile0("backup", 0, Measure0(2, "official", Both(1)), NoPrice, 3, 2, 2, <<>>),
    Profile0("primary", 0, Measure0(1, "baseline", NoPrice), NoPrice, NoData, 0, 0, [b \in {1} |-> "open"])}
MCCaseOfficial == {NoPrice, Both(3)}
MCStrategy == DOMAIN Criteria
MCTable == {[token |-> "t", model |-> "m", strategy |-> "price_first", config |-> [max_price_cap |-> 6]],
            [token |-> Null, model |-> Null, strategy |-> "balanced", config |-> <<>>]}
MCFallback == [strategy |-> "custom_priority", config |-> [max_price_cap |-> 100, max_ttft_ms |-> 5000]]
MCInjected == [max_price_cap |-> 9]
Query0(tokens, group, groups, maxOutput) ==
    [token : tokens, model : {"m"}, group : {group}, groups : {groups}, capabilities : {{}},
     input : {1}, maxOutput : {maxOutput}]
MCQuery == Query0({"t", "u"}, 1, {1}, 0) \cup Query0({"t", "u"}, NoGroup, {}, 0)
      \cup Query0({"u"}, 1, {1}, -1)

Cases == INSTANCE RoutingCases WITH
    Profile <- CaseProfile, Channel <- CaseChannel, Official <- CaseOfficial

\* Identifiers, prices, times and counts are numbers; a request is estimated at
\* one token at least (estimateInputTokens); what policies hold is not negative;
\* token and model name a row (migrations/017_policies_unique.up.sql).
ASSUME CaseAssumption ==
    /\ {BaselinePrice, UnknownOutput} \subseteq Nat \ {0}
    /\ IsFiniteSet(CaseChannel) /\ CaseChannel \subseteq Int
    /\ \A p \in CaseProfile :
          /\ {p.priority, p.ttft50, p.ttft95, p.ratio.value} \subseteq Int
          /\ {p.ratio.official.in, p.ratio.official.out, p.declared.in, p.declared.out} \subseteq Int
          /\ {p.attempts, p.successes} \subseteq Nat
    /\ \A price \in CaseOfficial : {price.in, price.out} \subseteq Int
    /\ \A policy \in Table \cup {Fallback} : \A key \in DOMAIN policy.config : policy.config[key] \in Nat
    /\ \A key \in DOMAIN Fallback.config \cap DOMAIN Injected : Injected[key] \in Int
    /\ \A row, other \in Table : row.token = other.token /\ row.model = other.model => row = other
    /\ \A q \in Query : q.input \in Nat \ {0} /\ q.maxOutput \in Int

NoCase == snapshot = None /\ query = None /\ decision = None

-----------------------------------------------------------------------------
Quiet ==
    /\ \A c \in Channel : db.upstreams[c].enabled
    /\ db.policy.strategy = "price_first" /\ db.prices = NoPrice

MCInit ==
    \/ live = "log" /\ NoCase /\ Init /\ Quiet /\ LogCases
    \/ live = "cases" /\ Init /\ Quiet /\ NoLog /\ Cases!Init

MCNext ==
    \/ live = "log" /\ Next /\ UNCHANGED <<live, caseVars>>
    \/ live = "cases" /\ Cases!Next /\ UNCHANGED <<live, vars>>

(* The fairness of DecisionLog, where it is live.                            *)
MCSpec ==
    /\ MCInit /\ [][MCNext]_allVars
    /\ \A g \in Gateway : WF_allVars(live = "log" /\ Rebuild(g) /\ UNCHANGED <<live, caseVars>>)
    /\ WF_allVars(live = "log" /\ ExpireSnapshot /\ UNCHANGED <<live, caseVars>>)

-----------------------------------------------------------------------------
\* No candidate looks free (RoutingCases).
NothingIsFree == live = "cases" => Cases!NothingIsFree
\* What a token's policy forbids stays forbidden for it (RoutingCases).
CapHolds == live = "cases" => Cases!CapHolds
=============================================================================
