---------------------------- MODULE RoutingCases ----------------------------
\* The routing decision over many snapshots: one step routes a request and keeps
\* what the decision log would show of it (router.go: Route, LogDecision).
EXTENDS Routing

CONSTANTS Profile,      \* what the snapshot may say of a channel
          Channel,      \* identifiers, natural numbers
          Official,     \* the price library: one price, zero when it has none
          Strategy, Table, Injected, Fallback,   \* stored and configured policies
          Query         \* requests, with token, model and group

VARIABLES snapshot, query, decision

vars == <<snapshot, query, decision>>

Init ==
    /\ snapshot \in [channels : [Channel -> Profile], prices : Official]
    /\ query \in Query
    /\ decision = None

\* Policy lookup, filter, order; the policy in force is logged with the order.
\* With a group that names its strategy, or an override, the strategy varies.
Decide ==
    /\ decision = None
    /\ \E failed \in SUBSET {1, 2, 4}, strategy \in Strategy :
          LET group == IF query.group = NoGroup THEN None ELSE [strategy |-> strategy, config |-> <<>>]
              policy == LoadPolicy(Table, query.token, query.model, group, failed,
                                   SystemPolicy(Fallback, Injected))
          IN decision' = [policy |-> policy, failed |-> failed,
                          order |-> Route(snapshot, query, policy)]
    /\ UNCHANGED <<snapshot, query>>

Next == Decide
Spec == Init /\ [][Next]_vars

-----------------------------------------------------------------------------
Costs == [i \in DOMAIN decision.order |->
            EstimateCost(snapshot.channels[decision.order[i]], query, decision.policy, snapshot.prices)]

\* No candidate looks free, whatever rows an old archive or an upstream left: an
\* unknown price counts as a high one (estimateCost), so that cheapest first is
\* not won by the channel nobody knows the price of. Nothing in the handler keeps
\* a client from asking for fewer than no tokens; such a request may look free.
NothingIsFree ==
    decision # None /\ query.maxOutput >= 0 =>
        \A i \in DOMAIN decision.order : Costs[i] > 0

\* What a token's own policy forbids stays forbidden for it: while the lookups
\* succeed, no candidate costs more than the most specific policy stored for the
\* token allows, whatever group the request names (LoadPolicy against Filter).
Stored == {row \in Table : row.token = query.token /\ row.model \in {query.model, Null}}
MostSpecific == {row \in Stored : \A other \in Stored : other.model # Null => other = row}
CapHolds ==
    decision # None /\ decision.failed = {} =>
        \A row \in MostSpecific, i \in DOMAIN decision.order :
            Costs[i] <= Get(row, "max_price_cap", 100)
=============================================================================
