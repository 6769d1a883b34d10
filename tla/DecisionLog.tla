----------------------------- MODULE DecisionLog -----------------------------
\* From measurement to decision: the checkers' rounds and the epoch counter
\* (cmd/checker/main.go, store/postgres.go), the snapshot the gateways build,
\* archive and cache (router/snapshot.go), the decisions routed from it and
\* logged, and their replay (replay/replayer.go).
EXTENDS Routing

CONSTANTS Channel,      \* identifiers, natural numbers
          Group,        \* the one group requests may name, a number above NoGroup
          Checker, Gateway, Request,
          Ask,          \* [Request -> request record]
          Policy,       \* policies an administrator may set
          Setting,      \* rows of upstreams an administrator may store
          Official,     \* official prices an administrator may store
          Due,          \* the tasks of a round: pairs of a table and a channel
          Offer,        \* what a task may measure, by table
          Measured,     \* probe results the database may hold to begin with
          Ttft,         \* first byte times a probe may measure, zero when it saw none
          TtftWindow,   \* successful measurements the percentiles are taken over
          History,      \* attempts and successes of the last hour, as traffic moves them
          MaxRounds,    \* bound: rounds begun
          MaxChanges,   \* bound: changes by administrators, probes and traffic
          MaxFaults     \* bound: failing statements and crashes

\* Requests are records of these fields.
ASSUME AskAssumption ==
    \A r \in Request :
        Ask[r] = [input |-> Ask[r].input, maxOutput |-> Ask[r].maxOutput, group |-> Ask[r].group,
                  groups |-> Ask[r].groups, capabilities |-> Ask[r].capabilities]

VARIABLES epoch,        \* epoch_counter.current_epoch
          rows,         \* health_checks and declared_prices
          db,           \* the other tables the snapshot reads
          checker, builder, cache, archive,
          request,      \* the handlers, up to the log of the decision
          decisions,    \* decision_logs
          owed,         \* changes committed whose invalidation is still to come
          version, announced,   \* history
          rounds, changes, faults       \* what is used of the bounds

vars == <<epoch, rows, db, checker, builder, cache, archive, request, decisions,
          owed, version, announced, rounds, changes, faults>>
history == <<version, announced, rounds, changes, faults>>

Bucket == {NoGroup, Group}
NoPrice == [in |-> 0, out |-> 0]
Watched == {"upstreams", "prices", "probed"}   \* tables whose change invalidates the cache
NoTraffic == [attempts |-> 0, successes |-> 0]
NoRatio == [value |-> 0, basis |-> "baseline", official |-> NoPrice]
Price0 == {NoPrice} \cup Official

\* A channel nothing is known about yet: the defaults of loadChannels.
Health(setting) ==
    setting @@ [alive |-> FALSE, declared |-> NoPrice, ratio |-> NoRatio, ttft50 |-> NoData,
                ttft95 |-> NoData, attempts |-> 0, successes |-> 0, circuits |-> <<>>]

Content(draft) == [channels |-> draft.channels, prices |-> draft.prices]

Idle == [at |-> 0]
Reading == [at |-> 1, epoch |-> 0, prices |-> NoPrice, channels |-> <<>>, began |-> announced, seen |-> version]
Off == [at |-> "idle"]

Init ==
    /\ epoch = 0 /\ rows = [t \in DOMAIN Offer |-> {}]
    /\ \E s \in [Channel -> Setting], p \in Policy, o \in Price0, m \in Measured :
          db = [upstreams |-> s, prices |-> o, policy |-> p, group |-> TRUE, probed |-> m,
                history |-> [c \in Channel |-> NoTraffic],
                circuits |-> [c \in Channel |-> [b \in Bucket |-> "closed"]]]
    /\ checker = [c \in Checker |-> Off]
    /\ builder = [g \in Gateway |-> Idle]
    /\ cache = None /\ archive = {}
    /\ request \in [Request -> {[at |-> "done"]} \cup [at : {"new"}, gateway : Gateway]]
    /\ decisions = {} /\ owed = {}
    /\ version = [t \in Watched |-> 0] /\ announced = version
    /\ rounds \in 0..MaxRounds /\ changes \in 0..MaxChanges /\ faults \in 0..MaxFaults

Fault == faults < MaxFaults /\ faults' = faults + 1

-----------------------------------------------------------------------------
\* Rounds. A tick peeks the next epoch, writes what its tasks measured under
\* that number and publishes it when all are done.

\* As a bug: taking a number publishes it.
PublishAtOnce(c) ==
    /\ checker[c].at = "idle" /\ epoch' = epoch + 1
    /\ checker' = [checker EXCEPT ![c] = [at |-> "writing", epoch |-> epoch + 1, todo |-> Due]]

PeekNextEpoch(c) ==
    /\ checker[c].at = "idle"
    /\ checker' = [checker EXCEPT ![c] = [at |-> "writing", epoch |-> epoch + 1, todo |-> Due]]
    /\ UNCHANGED epoch

BeginRound(c) ==
    /\ rounds < MaxRounds /\ rounds' = rounds + 1
    /\ PeekNextEpoch(c)
    /\ UNCHANGED <<rows, db, builder, cache, archive, request, decisions, owed, version, announced, changes, faults>>

\* Pricing runs once all alive checks of the tick are in.
MayRun(c, task) == task[1] = "pricing" => \A other \in checker[c].todo : other[1] # "alive"

WriteRow(c, task) ==
    /\ checker[c].at = "writing" /\ task \in checker[c].todo /\ MayRun(c, task)
    /\ checker' = [checker EXCEPT ![c].todo = @ \ {task}]
    /\ \/ \E v \in Offer[task[1]] :
             rows' = [rows EXCEPT ![task[1]] = @ \cup {[channel |-> task[2], epoch |-> checker[c].epoch, value |-> v]}]
          /\ UNCHANGED faults
       \/ Fault /\ UNCHANGED rows
    /\ UNCHANGED <<epoch, db, builder, cache, archive, request, decisions, owed, version, announced, rounds, changes>>

\* The counter only moves forward; a failing publication is only logged.
PublishEpoch(c) ==
    /\ checker[c].at = "writing" /\ checker[c].todo = {}
    /\ checker' = [checker EXCEPT ![c] = Off]
    /\ \/ epoch' = (IF epoch < checker[c].epoch THEN checker[c].epoch ELSE epoch) /\ UNCHANGED faults
       \/ Fault /\ UNCHANGED epoch
    /\ UNCHANGED <<rows, db, builder, cache, archive, request, decisions, owed, version, announced, rounds, changes>>

Crash(c) ==
    /\ checker[c].at # "idle" /\ Fault
    /\ checker' = [checker EXCEPT ![c] = Off]
    /\ UNCHANGED <<epoch, rows, db, builder, cache, archive, request, decisions, owed, version, announced, rounds, changes>>

-----------------------------------------------------------------------------
\* Everything else that writes what a snapshot reads.

Change == changes < MaxChanges /\ changes' = changes + 1

\* Administrative changes commit first and invalidate the cache afterwards.
Commit(table, new) ==
    /\ Change /\ new # db /\ db' = new
    /\ version' = [version EXCEPT ![table] = @ + 1]
    /\ owed' = owed \cup {[table |-> table, version |-> version[table] + 1]}
    /\ UNCHANGED <<epoch, rows, checker, builder, cache, archive, request, announced, rounds, faults>>

Edit(table, new) == Commit(table, new) /\ UNCHANGED decisions
UpdateChannel(c) == \E s \in Setting : Edit("upstreams", [db EXCEPT !.upstreams[c] = s])
SaveModelPrice == \E o \in Official : Edit("prices", [db EXCEPT !.prices = o])
DeleteModelPrice == Edit("prices", [db EXCEPT !.prices = NoPrice])

\* A manual probe writes under the published epoch, so its row is visible at once.
ManualProbe(c) ==
    LET ratio == [value |-> 1, basis |-> "official", official |-> db.prices]
    IN /\ db.prices # NoPrice
       /\ \E t \in Ttft :
             Edit("probed", [db EXCEPT !.probed[c] = Append(@, [epoch |-> epoch, ratio |-> ratio, ttft |-> t])])

\* The group's rows go with it; logged decisions lose their reference.
Ungrouped == [db EXCEPT !.group = FALSE,
                        !.upstreams = [c \in Channel |-> [@[c] EXCEPT !.groups = @ \ {Group}]],
                        !.circuits = [c \in Channel |-> [b \in {NoGroup} |-> @[c][b]]]]
DeleteGroup ==
    /\ db.group
    /\ Commit("upstreams", Ungrouped)
    /\ decisions' = {[d EXCEPT !.group = NoGroup] : d \in decisions}

\* As a bug: the entry is left in the cache.
InvalidateNothing(o) ==
    /\ o \in owed /\ owed' = owed \ {o}
    /\ announced' = [announced EXCEPT ![o.table] = IF @ < o.version THEN o.version ELSE @]
    /\ UNCHANGED <<epoch, rows, db, checker, builder, cache, archive, request, decisions, version, rounds, changes, faults>>

\* DEL of the cached snapshot, under the context of the administrator's request:
\* when that one is gone, the entry stays until it expires.
InvalidateSnapshotCache(o) ==
    /\ o \in owed /\ owed' = owed \ {o}
    /\ \/ /\ cache' = None
          /\ announced' = [announced EXCEPT ![o.table] = IF @ < o.version THEN o.version ELSE @]
          /\ UNCHANGED faults
       \/ Fault /\ UNCHANGED <<cache, announced>>
    /\ UNCHANGED <<epoch, rows, db, checker, builder, archive, request, decisions, version, rounds, changes>>

\* Requests and policies change what is read without any invalidation.
Traffic(c) ==
    /\ Change
    /\ \/ \E b \in DOMAIN db.circuits[c] : db' = [db EXCEPT !.circuits[c][b] = "open"]
       \/ \E h \in History \ {db.history[c]} : db' = [db EXCEPT !.history[c] = h]
    /\ UNCHANGED <<epoch, rows, checker, builder, cache, archive, request, decisions, owed, version, announced, rounds, faults>>

ChangePolicy ==
    /\ Change
    /\ \E p \in Policy \ {db.policy} : db' = [db EXCEPT !.policy = p]
    /\ UNCHANGED <<epoch, rows, checker, builder, cache, archive, request, decisions, owed, version, announced, rounds, faults>>

-----------------------------------------------------------------------------
\* Building a snapshot: one table after the other, without a transaction.

\* The published rows of the newest epoch; any of them when two rounds wrote it.
Latest(table, c, e) ==
    LET old == {r \in rows[table] : r.channel = c /\ r.epoch <= e}
    IN {r \in old : \A other \in old : other.epoch <= r.epoch}

\* Every way to lay a column over the channels: the latest value where there is one.
Overlay(draft, table, field) ==
    LET Values(c) == IF Latest(table, c, draft.epoch) = {} THEN {None} ELSE Latest(table, c, draft.epoch)
        choices == {f \in [DOMAIN draft.channels -> UNION {Values(c) : c \in DOMAIN draft.channels}] :
                       \A c \in DOMAIN f : f[c] \in Values(c)}
    IN {[draft EXCEPT !.channels = [c \in DOMAIN @ |-> IF f[c] = None THEN @[c] ELSE [@[c] EXCEPT ![field] = f[c].value]]] : f \in choices}

LoadAliveStatus(draft) == Overlay(draft, "alive", "alive")
LoadDeclaredPrices(draft) == Overlay(draft, "pricing", "declared")

LoadChannels(draft) ==
    {[draft EXCEPT !.channels = [c \in Channel |-> Health([db.upstreams[c] EXCEPT !.groups = {}])],
                   !.seen["upstreams"] = version["upstreams"]]}

\* A query of its own, after that of the channels.
LoadMembers(draft) ==
    {[draft EXCEPT !.channels = [c \in DOMAIN @ |-> [@[c] EXCEPT !.groups = db.upstreams[c].groups]]]}

Visible(draft, c) == SelectSeq(db.probed[c], LAMBDA p : p.epoch <= draft.epoch)

\* The newest successful measurement; manual ones share the epoch of the scheduled.
Measurement(draft) ==
    [c \in DOMAIN draft.channels |->
       IF Visible(draft, c) = <<>> THEN draft.channels[c]
       ELSE [draft.channels[c] EXCEPT !.ratio = Last(Visible(draft, c)).ratio]]
LoadProbeResults(draft) ==
    {[draft EXCEPT !.channels = Measurement(draft), !.seen["probed"] = version["probed"]]}

\* percentile_cont over sorted times, interpolated and rounded to the nearest,
\* to the even one in the middle.
Percentile(hundredths, times) ==
    LET position == hundredths * (Len(times) - 1)
        i == 1 + position \div 100
        value == times[i] * 100
                   + (position % 100) * (IF i < Len(times) THEN times[i + 1] - times[i] ELSE 0)
        up == value % 100 > 50 \/ (value % 100 = 50 /\ (value \div 100) % 2 = 1)
    IN value \div 100 + (IF up THEN 1 ELSE 0)

\* First byte times of the newest measurements that have one, sorted.
Times(draft, c) ==
    LET measured == SelectSeq(Visible(draft, c), LAMBDA p : p.ttft > 0)
        first == IF Len(measured) > TtftWindow THEN Len(measured) - TtftWindow + 1 ELSE 1
        newest == [i \in 1..(Len(measured) - first + 1) |-> measured[first + i - 1].ttft]
    IN SortSeq(newest, LAMBDA a, b : a < b)
Percentiles(draft) ==
    [c \in DOMAIN draft.channels |->
       IF Times(draft, c) = <<>> THEN draft.channels[c]
       ELSE [draft.channels[c] EXCEPT !.ttft50 = Percentile(50, Times(draft, c)),
                                      !.ttft95 = Percentile(95, Times(draft, c))]]
LoadTtft(draft) == {[draft EXCEPT !.channels = Percentiles(draft)]}

Attempted(draft) ==
    [c \in DOMAIN draft.channels |->
       [draft.channels[c] EXCEPT !.attempts = db.history[c].attempts, !.successes = db.history[c].successes]]
LoadRequestHistory(draft) == {[draft EXCEPT !.channels = Attempted(draft)]}

LoadCircuitStates(draft) ==
    {[draft EXCEPT !.channels = [c \in DOMAIN @ |-> [@[c] EXCEPT !.circuits = db.circuits[c]]]]}

\* The statements of buildSnapshot in their order.
Loaded(draft) ==
    CASE draft.at = 1 -> {[draft EXCEPT !.epoch = epoch]}
      [] draft.at = 2 -> {[draft EXCEPT !.prices = db.prices, !.seen["prices"] = version["prices"]]}
      [] draft.at = 3 -> LoadChannels(draft)
      [] draft.at = 4 -> LoadMembers(draft)
      [] draft.at = 5 -> LoadAliveStatus(draft)
      [] draft.at = 6 -> LoadDeclaredPrices(draft)
      [] draft.at = 7 -> LoadProbeResults(draft)
      [] draft.at = 8 -> LoadTtft(draft)
      [] draft.at = 9 -> LoadRequestHistory(draft)
      [] draft.at = 10 -> LoadCircuitStates(draft)
Statements == 10
Vital == {1, 3, 4}   \* without these there is no snapshot; the others leave defaults

Waiting(g) == {r \in Request : request[r].at = "waiting" /\ request[r].gateway = g}

ReadTable(g) ==
    /\ builder[g].at \in 1..Statements
    /\ \/ \E d \in Loaded(builder[g]) : builder' = [builder EXCEPT ![g] = [d EXCEPT !.at = @ + 1]]
          /\ UNCHANGED <<faults, request>>
       \/ /\ Fault
          /\ IF builder[g].at \in Vital
             THEN /\ builder' = [builder EXCEPT ![g] = Idle]
                  /\ request' = [r \in Request |-> IF r \in Waiting(g) THEN [at |-> "done"] ELSE request[r]]
             ELSE builder' = [builder EXCEPT ![g].at = @ + 1] /\ UNCHANGED request
    /\ UNCHANGED <<epoch, rows, db, checker, cache, archive, decisions, owed, version, announced, rounds, changes>>

\* As a bug: the official prices are left out.
ChecksumOfChannels(draft) == draft.channels

\* The checksum covers channels and prices, not the epoch: equal content is
\* archived once. The hash takes different contents apart.
Checksum(draft) == Content(draft)

ArchiveSnapshot(g) ==
    /\ builder[g].at = Statements + 1
    /\ builder' = [builder EXCEPT ![g].at = @ + 1]
    /\ LET sum == Checksum(builder[g])
       IN \/ archive' = (IF \E a \in archive : a.sum = sum THEN archive
                         ELSE archive \cup {[sum |-> sum, content |-> Content(builder[g])]})
             /\ UNCHANGED faults
          \/ Fault /\ UNCHANGED archive
    /\ UNCHANGED <<epoch, rows, db, checker, cache, request, decisions, owed, version, announced, rounds, changes>>

-----------------------------------------------------------------------------
\* Requests

Snapshot(draft) == [prices |-> draft.prices, channels |-> draft.channels, epoch |-> draft.epoch,
                    sum |-> Checksum(draft), began |-> draft.began, seen |-> draft.seen, stored |-> announced]

\* What the handler knows once it has routed. A decision without candidates is
\* answered and not logged.
Decided(r, snapshot) ==
    LET policy == request[r].policy
        order == Route(snapshot, Ask[r], policy)
    IN IF order = <<>> THEN [at |-> "done"]
       ELSE [at |-> "routed",
             decision |-> [request |-> r, group |-> Ask[r].group, policy |-> policy, order |-> order,
                           sum |-> snapshot.sum, asked |-> IF request[r].at = "asking" THEN announced ELSE request[r].asked,
                           began |-> snapshot.began, seen |-> snapshot.seen, stored |-> snapshot.stored]]

\* Group and policy are read before the snapshot; a group that is gone is refused.
GroupThere(r) == Ask[r].group = Group => db.group

LoadPolicyOf(r) ==
    /\ request[r].at = "new" /\ GroupThere(r)
    /\ request' = [request EXCEPT ![r] = [at |-> "asking", gateway |-> @.gateway, policy |-> db.policy]]
    /\ UNCHANGED <<epoch, rows, db, checker, builder, cache, archive, decisions, owed, history>>

RefuseGroup(r) ==
    /\ request[r].at = "new" /\ ~GroupThere(r)
    /\ request' = [request EXCEPT ![r] = [at |-> "done"]]
    /\ UNCHANGED <<epoch, rows, db, checker, builder, cache, archive, decisions, owed, history>>

RouteFromCache(r) ==
    /\ request[r].at = "asking" /\ cache # None
    /\ request' = [request EXCEPT ![r] = Decided(r, cache)]
    /\ UNCHANGED <<epoch, rows, db, checker, builder, cache, archive, decisions, owed, history>>

\* One rebuild at a time in a gateway: later requests join the one under way.
JoinRebuild(r) ==
    /\ request[r].at = "asking" /\ cache = None
    /\ request' = [request EXCEPT ![r] = [at |-> "waiting", gateway |-> @.gateway, policy |-> @.policy, asked |-> announced]]
    /\ builder' = [builder EXCEPT ![request[r].gateway] = IF @ = Idle THEN Reading ELSE @]
    /\ UNCHANGED <<epoch, rows, db, checker, cache, archive, decisions, owed, history>>

\* The rebuild ends: SET with its time to live, and everybody waiting routes.
StoreSnapshot(g) ==
    /\ builder[g].at = Statements + 2
    /\ builder' = [builder EXCEPT ![g] = Idle]
    /\ cache' = Snapshot(builder[g])
    /\ request' = [r \in Request |-> IF r \in Waiting(g) THEN Decided(r, Snapshot(builder[g])) ELSE request[r]]
    /\ UNCHANGED <<epoch, rows, db, checker, archive, decisions, owed, history>>

\* As a bug: the entry has no time to live.
NeverExpire == FALSE /\ UNCHANGED vars

ExpireSnapshot ==
    /\ cache # None /\ cache' = None
    /\ UNCHANGED <<epoch, rows, db, checker, builder, archive, request, decisions, owed, history>>

\* An insert; it fails with a foreign key that is gone or with the client.
LogDecision(r) ==
    /\ request[r].at = "routed"
    /\ request' = [request EXCEPT ![r] = [at |-> "done"]]
    /\ \/ /\ request[r].decision.group = Group => db.group
          /\ decisions' = decisions \cup {request[r].decision}
          /\ UNCHANGED faults
       \/ Fault /\ UNCHANGED decisions
       \/ request[r].decision.group = Group /\ ~db.group /\ UNCHANGED <<decisions, faults>>
    /\ UNCHANGED <<epoch, rows, db, checker, builder, cache, archive, owed, version, announced, rounds, changes>>

\* Retention: decisions grow old, then archives nobody refers to are dropped.
Cleanup ==
    /\ Change
    /\ \E kept \in SUBSET decisions :
          /\ decisions' = kept
          /\ archive' = {a \in archive : \E d \in kept : d.sum = a.sum}
    /\ UNCHANGED <<epoch, rows, db, checker, builder, cache, request, owed, version, announced, rounds, faults>>

-----------------------------------------------------------------------------
Round(c) == BeginRound(c) \/ (\E t \in Due : WriteRow(c, t)) \/ PublishEpoch(c)
Administer ==
    \/ \E c \in Channel : UpdateChannel(c) \/ ManualProbe(c)
    \/ SaveModelPrice \/ DeleteModelPrice \/ DeleteGroup \/ ChangePolicy
Rebuild(g) == ReadTable(g) \/ ArchiveSnapshot(g) \/ StoreSnapshot(g)
Handle(r) == LoadPolicyOf(r) \/ RefuseGroup(r) \/ RouteFromCache(r) \/ JoinRebuild(r) \/ LogDecision(r)

Next ==
    \/ \E c \in Checker : Round(c) \/ Crash(c)
    \/ Administer
    \/ \E c \in Channel : Traffic(c)
    \/ \E o \in owed : InvalidateSnapshotCache(o)
    \/ \E g \in Gateway : Rebuild(g)
    \/ \E r \in Request : Handle(r)
    \/ ExpireSnapshot
    \/ Cleanup

\* A rebuild goes on and Redis drops an entry at the end of its time to live.
Fairness == (\A g \in Gateway : WF_vars(Rebuild(g))) /\ WF_vars(ExpireSnapshot)
Spec == Init /\ [][Next]_vars /\ Fairness

-----------------------------------------------------------------------------
\* The replay of a logged decision: the archived snapshot, the policy and the
\* request as logged. Without an archive it is a simulation and marked as one.
Archived(d) == {a \in archive : a.sum = d.sum}
Replayed(d) == LET a == CHOOSE x \in Archived(d) : TRUE
               IN Route(a.content, [Ask[d.request] EXCEPT !.group = d.group], d.policy)

\* Types of the state (epoch_counter, the tables, Redis, the handlers).
TypeOK ==
    /\ epoch \in 0..MaxRounds
    /\ \A t \in DOMAIN Offer : \A r \in rows[t] : r.epoch \in 1..MaxRounds /\ r.value \in Offer[t]
    /\ \A c \in Checker : checker[c] # Off =>
          checker[c].epoch \in 1..MaxRounds /\ checker[c].todo \subseteq Due
    /\ \A g \in Gateway : builder[g].at \in 0..(Statements + 2)
    /\ cache # None => DOMAIN cache.channels = Channel /\ \A t \in Watched : cache.seen[t] <= version[t]
    /\ \A r \in Request : request[r].at \in {"new", "asking", "waiting", "routed", "done"}
    /\ \A t \in Watched : announced[t] <= version[t]

\* Readers never see half a round: one that still writes is ahead of the epoch
\* they are told of, and of the one a rebuild began with (PublishEpoch after the
\* writes, "WHERE epoch <= current"). True of one checker; peeking a number
\* reserves nothing, so two of them write under the same one.
NoHalfRound ==
    \A c \in Checker : checker[c].at = "writing" =>
        /\ checker[c].epoch > epoch
        /\ \A g \in Gateway : builder[g].at > 1 => builder[g].epoch < checker[c].epoch

\* A change whose invalidation is done is seen by every later request, but for
\* those served by a rebuild under way at that moment: one that had begun before
\* and stored its snapshot afterwards (invalidation follows the commit and deletes).
ChangeIsSeen ==
    \A d \in decisions \cup {request[r].decision : r \in {q \in Request : request[q].at = "routed"}}, t \in Watched :
        d.seen[t] < d.asked[t] => d.began[t] < d.asked[t] /\ d.stored[t] >= d.asked[t]

\* A replay that finds its archived snapshot, and whose group still exists,
\* returns the very order of the logged decision (snapshots archived by content).
ReplayIsExact ==
    \A d \in decisions :
        Archived(d) # {} /\ d.group = Ask[d.request].group => Replayed(d) = d.order

\* A stale snapshot, stored by a slow rebuild or left by a lost invalidation,
\* is not served for ever: in the end what is cached is what is stored.
StalenessEnds == <>[](cache # None => cache.seen = version)
=============================================================================
