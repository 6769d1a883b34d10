---------------------------- MODULE ProbeBudget ----------------------------
(***************************************************************************)
(* Paid probes and the daily budget they share: the atomic ledger in Redis *)
(* (internal/checker/budget.go), the probe itself, which measures its cost *)
(* as a difference of two balances (internal/checker/probe.go), and the    *)
(* two callers that reserve and settle: the scheduler of the checker       *)
(* (cmd/checker/main.go) and the manual probe of the gateway               *)
(* (internal/api/ratio.go).                                                *)
(*                                                                         *)
(* Amounts are small integers.  A ledger belongs to a day and an account:  *)
(* a channel, or All for the global one.                                   *)
(***************************************************************************)
EXTENDS Integers, FiniteSets, Functions

CONSTANTS
    Probes,         \* bound: probes attempted, each once
    Channels,
    All,            \* the global account
    NoKey,          \* the value of a ledger that Redis does not hold
    Estimate,       \* EstimateProbeCost
    Baseline,       \* probeEstimateBaseline, the cost noted for a failed probe
    Charges,        \* what an upstream may charge for one request
    ChannelBudget, GlobalBudget,
    PoolSize,       \* connections of one process
    Days,           \* bound: 1..n
    MaxUpsets       \* bound: failed calls, crashes, losses of the Redis keys
                    \* and balance movements that are not a probe's

ASSUME BudgetAssumption ==
    /\ IsFiniteSet(Probes) /\ IsFiniteSet(Channels) /\ All \notin Channels
    /\ {Estimate, Baseline, ChannelBudget, GlobalBudget, PoolSize} \subseteq Nat \ {0}
    /\ Charges \subseteq Nat
    /\ Days \subseteq Nat /\ 1 \in Days
    /\ NoKey \notin Int
    /\ MaxUpsets \in Nat

Accounts == Channels \cup {All}

VARIABLES
    probe,     \* the probes: see Probe
    lock,      \* the advisory lock of each channel, held by a probe
    ledger,    \* the Redis counters, by day and account
    audit,     \* probe_results: the cost noted, by day and channel
    today,
    disabled,  \* probeDisabled: the tick may start no further paid probe
    upsets

vars == <<probe, lock, ledger, audit, today, disabled, upsets>>
dbVars == <<lock, audit>>

\* Between the two sums; before Reserve; before acquireProbeLock; waiting for
\* the lock, on a connection of its own; the two readings of the balance and the request
\* between them; writing the row of a failure or of a success; Adjust.
Places == {"idle", "gate", "reserve", "connect", "lock", "before", "chat", "after",
           "failure", "success", "settle", "done"}

\* "wanted" is what to reserve and "seeds" what the audit had seen spent when
\* each was read; "held" is reserved for the probe in the ledger of "day".
\* "cost": how far the balance has fallen since the first reading, the only
\* thing about balances that is used.
\* "moved": the balance changed by something else while it measured.  "lost":
\* Redis lost the ledger that held its amount, and what replaces it may not
\* hold what the probe was charged (LoseKeys).
Probe == [at : Places, manual : BOOLEAN, channel : Channels, wanted : Nat, seeds : [{"own", "all"} -> Int],
          held : Nat, day : Days, charged : Nat, cost : Int,
          stage : {"", "balance_before", "chat", "balance_after", "ok"},
          settled : BOOLEAN, moved : BOOLEAN, lost : BOOLEAN]

TypeOK ==
    /\ probe \in [Probes -> Probe]
    /\ lock \in [Channels -> SUBSET Probes] /\ \A c \in Channels : Cardinality(lock[c]) <= 1
    /\ ledger \in [Days -> [Accounts -> Int \cup {NoKey}]]
    /\ audit \in [Days -> [Channels -> Int]]
    /\ today \in Days
    /\ disabled \in BOOLEAN
    /\ upsets \in 0..MaxUpsets

NoSeeds == [own |-> 0, all |-> 0]

Init ==
    /\ probe \in [Probes -> [at : {"idle"}, manual : BOOLEAN, channel : Channels, wanted : {0},
                             seeds : {NoSeeds}, held : {0}, day : {1}, charged : {0}, cost : {0},
                             stage : {""}, settled : {FALSE}, moved : {FALSE}, lost : {FALSE}]]
    /\ lock = [c \in Channels |-> {}]
    /\ ledger = [d \in Days |-> [a \in Accounts |-> NoKey]]
    /\ audit = [d \in Days |-> [c \in Channels |-> 0]]
    /\ today = 1
    /\ disabled = FALSE
    /\ upsets = 0

Upset == upsets < MaxUpsets /\ upsets' = upsets + 1
NoUpset == UNCHANGED upsets

Least(m, n) == IF m <= n THEN m ELSE n
SumOver(S, Amount(_)) == SumFunction([x \in S |-> Amount(x)])

Becomes(p, r) == probe' = [probe EXCEPT ![p] = r]
Goes(p, place) == Becomes(p, [probe[p] EXCEPT !.at = place])
Chan(p) == probe[p].channel
Manual == {p \in Probes : probe[p].manual}

\* The balance of channel c falls by amount under every probe that measures.
Fallen(c, amount) ==
    [p \in Probes |->
        IF Chan(p) = c /\ probe[p].at \in {"chat", "after"}
        THEN [probe[p] EXCEPT !.cost = @ + amount] ELSE probe[p]]

-----------------------------------------------------------------------------
(* The ledger                                                              *)

\* Mutants: an absent key counts from zero; the audit alone is asked.
BalanceOfFromZero(d, account, seed) == IF ledger[d][account] = NoKey THEN 0 ELSE ledger[d][account]
BalanceOfAudit(d, account, seed) == seed

BalanceOf(d, account, seed) == IF ledger[d][account] = NoKey THEN seed ELSE ledger[d][account]

Granted(p, d) ==
    /\ BalanceOf(d, Chan(p), probe[p].seeds.own) + probe[p].wanted <= ChannelBudget
    /\ BalanceOf(d, All, probe[p].seeds.all) + probe[p].wanted <= GlobalBudget

Booked(p, d) ==
    [ledger EXCEPT ![d][Chan(p)] = BalanceOf(d, Chan(p), probe[p].seeds.own) + probe[p].wanted,
                   ![d][All] = BalanceOf(d, All, probe[p].seeds.all) + probe[p].wanted]

AtLeastZero(n) == IF n < 0 THEN 0 ELSE n

\* Mutant: the difference is taken from the ledger of the current day.
AdjustedToday(d, c, delta) ==
    IF NoKey \in {ledger[today][c], ledger[today][All]} THEN ledger
    ELSE [ledger EXCEPT ![today] =
            [a \in Accounts |-> IF a \in {c, All} THEN AtLeastZero(@[a] + delta) ELSE @[a]]]

\* Nothing when a key is missing.
Adjusted(d, c, delta) ==
    IF NoKey \in {ledger[d][c], ledger[d][All]} THEN ledger
    ELSE [ledger EXCEPT ![d] =
            [a \in Accounts |-> IF a \in {c, All} THEN AtLeastZero(@[a] + delta) ELSE @[a]]]

-----------------------------------------------------------------------------
(* Before the probe: gates and reservation                                 *)

SpentOn(c) == audit[today][c]
SpentToday == SumOver(Channels, SpentOn)

NotBegun(p) == Becomes(p, [probe[p] EXCEPT !.at = "done", !.wanted = 0, !.seeds = NoSeeds])

\* Any of the early returns: a reading fails, the estimate fails, the coarse
\* gate of the tick is closed, Redis is not there.
Skip(p) ==
    /\ probe[p].at \in {"idle", "gate", "reserve"}
    /\ NotBegun(p)
    /\ UNCHANGED <<dbVars, ledger, today, disabled, upsets>>

\* A manual probe asks for the global sum first, the scheduler for the
\* channel's; the other one is a query of its own.
ReadFirst(p) ==
    /\ probe[p].at = "idle"
    /\ IF p \in Manual THEN SpentToday < GlobalBudget
       ELSE ~disabled /\ SpentOn(Chan(p)) < ChannelBudget
    /\ Becomes(p, [probe[p] EXCEPT
          !.at = "gate",
          !.seeds = [own |-> IF p \in Manual THEN 0 ELSE SpentOn(Chan(p)),
                     all |-> IF p \in Manual THEN SpentToday ELSE 0]])
    /\ UNCHANGED <<dbVars, ledger, today, disabled, upsets>>

BothSums(p) ==
    [own |-> IF p \in Manual THEN SpentOn(Chan(p)) ELSE probe[p].seeds.own,
     all |-> IF p \in Manual THEN probe[p].seeds.all ELSE SpentToday]

\* A manual probe reserves no more than what is left.
WantedOf(p, seeds) ==
    IF p \in Manual
    THEN Least(Estimate, Least(ChannelBudget - seeds.own, GlobalBudget - seeds.all))
    ELSE Estimate

ReadSecond(p) ==
    /\ probe[p].at = "gate"
    /\ WantedOf(p, BothSums(p)) > 0
    /\ Becomes(p, [probe[p] EXCEPT !.at = "reserve", !.seeds = BothSums(p),
                                   !.wanted = WantedOf(p, BothSums(p))])
    /\ UNCHANGED <<dbVars, ledger, today, disabled, upsets>>

\* The sum of account a is read, and not yet used.
HasRead(r, a) == r.at = "reserve" \/ (r.at = "gate" /\ (a = All <=> r.manual))
SeedOf(r, a) == IF a = All THEN r.seeds.all ELSE r.seeds.own

\* The script runs, or is refused; its answer may be lost: then the amount
\* stays booked for a probe that never starts.
Reserve(p) ==
    /\ probe[p].at = "reserve"
    /\ IF ~Granted(p, today) THEN NotBegun(p) /\ NoUpset /\ UNCHANGED ledger
       ELSE /\ ledger' = Booked(p, today)
            /\ \/ /\ Becomes(p, [probe[p] EXCEPT !.at = "connect", !.seeds = NoSeeds,
                                                 !.wanted = 0, !.held = probe[p].wanted,
                                                 !.day = today])
                  /\ NoUpset
               \/ NotBegun(p) /\ Upset
    /\ UNCHANGED <<dbVars, today, disabled>>

-----------------------------------------------------------------------------
(* The probe                                                               *)

OnOwnConnection == {"lock", "before", "chat", "after", "failure", "success"}
SameProcess(p) == {q \in Probes : q \in Manual <=> p \in Manual}
ConnectionFree(p) ==
    Cardinality({q \in SameProcess(p) : probe[q].at \in OnOwnConnection}) < PoolSize

Connect(p) ==
    /\ probe[p].at = "connect" /\ ConnectionFree(p)
    /\ Goes(p, "lock")
    /\ UNCHANGED <<dbVars, ledger, today, disabled, upsets>>

\* Mutant: pg_advisory_lock is not waited for.
LockAtOnce(p) ==
    /\ probe[p].at = "lock"
    /\ lock' = [lock EXCEPT ![Chan(p)] = @ \cup {p}]
    /\ Goes(p, "before")
    /\ UNCHANGED <<ledger, audit, today, disabled, upsets>>

Lock(p) ==
    /\ probe[p].at = "lock" /\ lock[Chan(p)] = {}
    /\ lock' = [lock EXCEPT ![Chan(p)] = {p}]
    /\ Goes(p, "before")
    /\ UNCHANGED <<ledger, audit, today, disabled, upsets>>

\* The epoch cannot be read, no connection, or the lock query fails.
LockFails(p) ==
    /\ probe[p].at \in {"connect", "lock"} /\ Upset
    /\ Goes(p, "settle")
    /\ UNCHANGED <<dbVars, ledger, today, disabled>>

\* Mutant: the lock goes with the connection, back to the pool.
UnlockNever(p) == UNCHANGED lock

\* probeOne returns: the deferred unlock, then the caller settles.
Unlock(p) == lock' = [lock EXCEPT ![Chan(p)] = @ \ {p}]
Returns(p, r) == Becomes(p, [r EXCEPT !.at = "settle"]) /\ Unlock(p)

BalanceBefore(p) ==
    /\ probe[p].at = "before"
    /\ \/ Goes(p, "chat") /\ NoUpset /\ UNCHANGED lock
       \/ Upset /\ Returns(p, [probe[p] EXCEPT !.stage = "balance_before"])
    /\ UNCHANGED <<audit, ledger, today, disabled>>

\* The upstream charges, whether or not its answer can be used.
Chat(p) ==
    /\ probe[p].at = "chat"
    /\ \E charge \in Charges :
          \/ /\ NoUpset
             /\ probe' = [Fallen(Chan(p), charge) EXCEPT ![p] =
                            [@ EXCEPT !.at = "after", !.charged = charge]]
          \/ /\ Upset
             /\ probe' = [Fallen(Chan(p), charge) EXCEPT ![p] =
                            [@ EXCEPT !.at = "failure", !.charged = charge, !.stage = "chat"]]
    /\ UNCHANGED <<dbVars, ledger, today, disabled>>

BalanceAfter(p) ==
    /\ probe[p].at = "after"
    /\ \/ Goes(p, "success") /\ NoUpset
       \/ Upset /\ Becomes(p, [probe[p] EXCEPT !.at = "failure", !.stage = "balance_after"])
    /\ UNCHANGED <<dbVars, ledger, today, disabled>>

Note(p, cost) == audit' = [audit EXCEPT ![today][Chan(p)] = @ + cost]

\* With five seconds to find a connection; a failure is only logged.
RecordProbeFailure(p) ==
    /\ probe[p].at = "failure"
    /\ \/ ConnectionFree(p) /\ Note(p, Baseline) /\ NoUpset
       \/ ~ConnectionFree(p) /\ UNCHANGED audit /\ NoUpset
       \/ Upset /\ UNCHANGED audit
    /\ Returns(p, probe[p])
    /\ UNCHANGED <<ledger, today, disabled>>

\* The row takes the measured cost as it is, even below zero.
RecordSuccess(p) ==
    /\ probe[p].at = "success" /\ ConnectionFree(p)
    /\ \/ /\ Note(p, probe[p].cost) /\ NoUpset
          /\ Returns(p, [probe[p] EXCEPT !.stage = "ok"])
       \/ Upset /\ UNCHANGED audit /\ Returns(p, [probe[p] EXCEPT !.stage = "balance_after"])
    /\ UNCHANGED <<ledger, today, disabled>>

-----------------------------------------------------------------------------
(* Settlement                                                              *)

\* Mutant: a probe that failed after its request is refunded.
BudgetSettlementRefundsFailures(p) ==
    IF probe[p].stage \in {"balance_before", "chat", "balance_after"} THEN 0
    ELSE IF probe[p].stage = "ok" /\ probe[p].cost > 0 THEN probe[p].cost ELSE probe[p].held

\* What the ledger should finally hold for the probe.
BudgetSettlement(p) ==
    IF probe[p].stage = "balance_before" THEN 0
    ELSE IF probe[p].stage = "ok" /\ probe[p].cost > 0 THEN probe[p].cost ELSE probe[p].held

Adjust(p) ==
    /\ probe[p].at = "settle"
    /\ \/ /\ ledger' = Adjusted(probe[p].day, Chan(p), BudgetSettlement(p) - probe[p].held)
          /\ Becomes(p, [probe[p] EXCEPT !.at = "done", !.settled = TRUE])
          /\ NoUpset /\ UNCHANGED disabled
       \/ /\ Upset
          /\ Goes(p, "done")
          /\ disabled' = (disabled \/ p \notin Manual)
          /\ UNCHANGED ledger
    /\ UNCHANGED <<dbVars, today>>

-----------------------------------------------------------------------------
(* Around the probes                                                       *)

InFlight == {p \in Probes : probe[p].at \notin {"idle", "done"}}

\* The next tick of the scheduler: the last one waited for its probes.
NextTick ==
    /\ disabled /\ InFlight \subseteq Manual
    /\ disabled' = FALSE
    /\ UNCHANGED <<probe, dbVars, ledger, today, upsets>>

NextDay ==
    /\ today + 1 \in Days
    /\ today' = today + 1
    /\ UNCHANGED <<probe, dbVars, ledger, disabled, upsets>>

\* A process dies with its probes; the database drops their locks.
Crash(S) ==
    /\ Upset
    /\ S \cap InFlight # {}
    /\ probe' = [p \in Probes |-> IF p \in S \cap InFlight THEN [probe[p] EXCEPT !.at = "done"]
                                  ELSE probe[p]]
    /\ lock' = [c \in Channels |-> lock[c] \ S]
    /\ UNCHANGED <<ledger, audit, today, disabled>>

\* Its cost, as it was, is in the row of today, in any sum that will be read and
\* in all that have been.  The row of a failure holds only the baseline, and no
\* ledger of a past day is seeded again.
Audited(p) ==
    /\ probe[p].at = "done" /\ probe[p].stage = "ok" /\ ~probe[p].moved
    /\ probe[p].day = today
    /\ \A q \in Probes : \A a \in {Chan(q), All} :
          HasRead(probe[q], a) =>
              SeedOf(probe[q], a) = IF a = All THEN SpentToday ELSE SpentOn(a)

LoseKeys ==
    /\ Upset
    /\ ledger' = [d \in Days |-> [a \in Accounts |-> NoKey]]
    /\ probe' = [p \in Probes |-> [probe[p] EXCEPT !.lost = @ \/ (probe[p].held > 0 /\ ~Audited(p))]]
    /\ UNCHANGED <<dbVars, today, disabled>>

\* Customers' traffic of the channel, or a recharge of it.
Moves(c, amount) ==
    /\ Upset
    /\ probe' = [p \in Probes |->
          IF Fallen(c, amount)[p] = probe[p] THEN probe[p]
          ELSE [Fallen(c, amount)[p] EXCEPT !.moved = TRUE]]
    /\ UNCHANGED <<dbVars, ledger, today, disabled>>

Step(p) ==
    \/ Skip(p) \/ ReadFirst(p) \/ ReadSecond(p) \/ Reserve(p)
    \/ Connect(p) \/ Lock(p) \/ LockFails(p)
    \/ BalanceBefore(p) \/ Chat(p) \/ BalanceAfter(p)
    \/ RecordProbeFailure(p) \/ RecordSuccess(p)
    \/ Adjust(p)

Next ==
    \/ \E p \in Probes : Step(p)
    \/ Crash(Manual) \/ Crash(Probes \ Manual)
    \/ NextTick \/ NextDay \/ LoseKeys
    \/ \E c \in Channels : Moves(c, 1) \/ Moves(c, -2)

Spec == Init /\ [][Next]_vars

\* Upstream calls time out and database calls are answered; a probe that has
\* reserved goes on.
FairSpec == Spec /\ \A p \in Probes : WF_vars(probe[p].at # "idle" /\ Step(p))

-----------------------------------------------------------------------------
(* Properties                                                              *)

Reserved(d, a) == {p \in Probes : probe[p].held > 0 /\ probe[p].day = d /\ a \in {Chan(p), All}}
Known(d, a) == {p \in Reserved(d, a) : ~probe[p].lost}
Lost(d, a) == {p \in Reserved(d, a) : probe[p].lost}

Held(p) == probe[p].held
Charged(p) == probe[p].charged

\* What the ledger must at least hold for a probe: all it was charged once the
\* measured cost is settled, up to that the part its reservation covers.
Measured(p) == probe[p].stage = "ok" /\ ~probe[p].moved
Due(p) ==
    IF probe[p].moved THEN 0
    ELSE IF Measured(p) /\ probe[p].settled THEN Charged(p)
    ELSE Least(Charged(p), Held(p))

\* A recharge while a probe measures makes its cost negative; the row noted
\* with it lowers what the audit has seen spent, and any ledger seeded from it.
Hidden(p) == AtLeastZero(-probe[p].cost)
Unseen(d, a) ==
    SumOver(Lost(d, a), Held) + SumOver({p \in Probes : a \in {Chan(p), All}}, Hidden)

Noted(d, a) == LET On(c) == audit[d][c] IN SumOver({c \in Channels : a \in {c, All}}, On)
Counter(d, a) == IF ledger[d][a] = NoKey THEN Noted(d, a) ELSE ledger[d][a]

\* "Never charged and not on the books" (probe.go 102-108): whatever fails or
\* dies between the reservation and the settlement, across midnight too, the
\* ledger holds what the probes of its day were charged.  When Redis loses its
\* keys it starts again from the audit.  It may then be short, by no more than
\* they had reserved, of probes the audit has no row of yet, or only the
\* baseline of a failure, of probes of a past day, and of every probe while
\* another one is about to reserve with sums older than the last row.  A
\* recharge hides no more than the cost it made negative.
LedgerCovers ==
    \A d \in Days, a \in Accounts :
        SumOver(Known(d, a), Due) <= Counter(d, a) + Unseen(d, a)

\* Concurrent probes of both processes never spend more than the budget of the
\* channel or the global one: beyond it goes only what single requests cost
\* more than their estimate, what other movements hid, or what Redis lost
\* with its keys (Unseen; budget.go 14-18).
BudgetOf(a) == IF a = All THEN GlobalBudget ELSE ChannelBudget
Excess(p) == IF probe[p].moved THEN Charged(p) ELSE AtLeastZero(Charged(p) - Held(p))
NeverOverspends ==
    \A d \in Days, a \in Accounts :
        SumOver(Known(d, a), Charged)
          <= BudgetOf(a) + SumOver(Known(d, a), Excess) + Unseen(d, a)

\* The cost a probe measures is its own: no other probe of the channel, of
\* either process, spends between its two readings (probe.go 440-449).
MeasuresItsOwn == \A p \in Probes : Measured(p) => probe[p].cost = Charged(p)

\* Every probe that was begun ends, and gives the channel's lock back, as long
\* as the pool of its process has a connection left: each probe keeps one while
\* it waits for the lock or measures, and asks for another one to note its
\* result (probe.go 501-520, 550-566).
ConnectionsSuffice == \A p \in Probes : ConnectionFree(p)
EveryProbeEnds ==
    []ConnectionsSuffice =>
        \A p \in Probes : probe[p].at # "idle" ~> probe[p].at = "done" /\ p \notin lock[Chan(p)]
=============================================================================
