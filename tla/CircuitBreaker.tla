--------------------------- MODULE CircuitBreaker ---------------------------
(***************************************************************************)
(* The circuit breaker of one upstream channel (internal/api/circuit.go),  *)
(* the request_history table its verdict reads, the router's view of it    *)
(* (internal/router/snapshot.go, filter.go) and the two administrative     *)
(* operations that touch them (internal/api/admin.go).                     *)
(*                                                                         *)
(* A row of circuit_states belongs to a (model, group bucket) pair; bucket *)
(* Global stands for group_id = 0, the traffic that names no group.        *)
(*                                                                         *)
(* Time is relative: a row keeps the ticks left until cooling_until (0 is  *)
(* both "expired" and NULL, which the code reads as 1970-01-01), a sample  *)
(* keeps its age.  The code only ever compares the two with NOW(), so      *)
(* nothing is lost and the state space is finite.  Counters saturate at    *)
(* CountCap and cooling levels at the end of the backoff table: past those *)
(* values no comparison in the code can tell two of them apart.            *)
(***************************************************************************)
EXTENDS Integers, Sequences, FiniteSets

CONSTANTS
    Models,          \* models the channel serves
    Groups,          \* channel groups that may carry traffic
    Global,          \* the bucket of traffic without a group
    GlobalConfig,    \* circuit_breaker section of the configuration file
    GroupConfig,     \* per group override of GlobalConfig, 0 = follow it
    CoolingBackoff,  \* cooling_backoff, in ticks
    RecoverySuccessThreshold,
    Window,          \* the ten minutes of shouldOpen, in ticks
    Deletable,       \* groups the administrator may delete
    MaxInflight,     \* bound: requests in flight per (model, bucket)
    MaxHistory,      \* bound: request_history rows inside the window
    CountCap         \* bound: where the saturating counters stop

ConfigFields ==
    {"minSamples", "openFailureRate", "openMinFailures", "initialCooling", "maxCooling"}

ASSUME BucketAssumption == Global \notin Groups /\ Deletable \subseteq Groups

ASSUME ConfigAssumption ==
    /\ GlobalConfig \in [ConfigFields -> Nat \ {0}]
    /\ GroupConfig \in [Groups -> [ConfigFields -> Nat]]
    /\ CoolingBackoff \in Seq(Nat \ {0}) /\ CoolingBackoff # <<>>
    /\ RecoverySuccessThreshold \in Nat \ {0}
    /\ Window \in Nat

ASSUME BoundAssumption ==
    /\ MaxInflight \in Nat \ {0} /\ MaxHistory \in Nat \ {0}
    /\ CountCap \in Nat
    /\ CountCap >= RecoverySuccessThreshold /\ CountCap >= Len(CoolingBackoff)

Buckets == Groups \cup {Global}
Keys == Models \X Buckets

VARIABLES
    rows,      \* circuit_states, by key; state "none" where no row exists
    history,   \* request_history of the channel, oldest first
    inflight,  \* requests routed to the channel and not yet reported, by key
    deleted    \* groups the administrator has deleted

vars == <<rows, history, inflight, deleted>>

StoredStates == {"none", "closed", "open", "degraded"}

Row == [state : StoredStates, cooling : Nat, failureCount : 0..CountCap,
        successCount : 0..CountCap, coolingLevel : 0..Len(CoolingBackoff)]

NoRow == [state |-> "none", cooling |-> 0, failureCount |-> 0,
          successCount |-> 0, coolingLevel |-> 0]

\* One request_history row.  "origin" is the bucket it was written for: the
\* foreign key ON DELETE SET NULL may move the row to another "bucket" later.
\* "joined": written by the transaction that wrote the row before it, hence
\* with the same created_at (NOW() is the start of the transaction).
Sample == [model : Models, bucket : Buckets, origin : Buckets,
           ok : BOOLEAN, age : Nat, joined : BOOLEAN]

TypeOK ==
    /\ rows \in [Keys -> Row]
    /\ history \in Seq(Sample)
    /\ inflight \in [Keys -> 0..MaxInflight]
    /\ deleted \subseteq Deletable

-----------------------------------------------------------------------------
(* Configuration and cooling durations                                     *)

EffectiveConfig(b) ==
    IF b = Global THEN GlobalConfig
    ELSE [f \in ConfigFields |->
            IF GroupConfig[b][f] > 0 THEN GroupConfig[b][f] ELSE GlobalConfig[f]]

Least(m, n) == IF m <= n THEN m ELSE n

CoolingAtLevel(level, cfg) ==
    Least(CoolingBackoff[Least(level + 1, Len(CoolingBackoff))], cfg["maxCooling"])

NextCooling(failures, cfg) ==
    CoolingAtLevel(IF failures = 0 THEN 0 ELSE failures - 1, cfg)

Bump(n) == Least(n + 1, CountCap)
NextLevel(level) == Least(level + 1, Len(CoolingBackoff))

-----------------------------------------------------------------------------
(* The verdict over request_history                                        *)

\* Mutant: the query forgets the group_id condition.
OfAnyBucket(h, k) == {i \in 1..Len(h) : h[i].model = k[1]}

Of(h, k) == {i \in 1..Len(h) : <<h[i].model, h[i].bucket>> = k}
Failures(h, S) == {i \in S : ~h[i].ok}

\* Row j has a strictly later created_at than row i.
Newer(h, j, i) == i < j /\ \E n \in (i + 1)..j : ~h[n].joined

\* The row sets ORDER BY created_at DESC LIMIT minSamples may return: rows of
\* one transaction tie, and the database breaks the tie as it likes.
RecentRows(h, k, n) ==
    {W \in SUBSET Of(h, k) :
        /\ Cardinality(W) = n
        /\ \A i \in W, j \in Of(h, k) : Newer(h, j, i) => j \in W}

\* Mutant: open_min_failures is not asked for.
TripsOnRateAlone(h, W, cfg) ==
    Cardinality(Failures(h, W)) * 100 > cfg["openFailureRate"] * Cardinality(W)

Trips(h, W, cfg) ==
    LET failed == Cardinality(Failures(h, W))
    IN  /\ failed * 100 > cfg["openFailureRate"] * Cardinality(W)
        /\ failed >= cfg["openMinFailures"]

\* The answers shouldOpen may give: with too few samples only FALSE.
Verdicts(h, k) ==
    LET cfg == EffectiveConfig(k[2])
    IN  IF Cardinality(Of(h, k)) < cfg["minSamples"] THEN {FALSE}
        ELSE {Trips(h, W, cfg) : W \in RecentRows(h, k, cfg["minSamples"])}

-----------------------------------------------------------------------------
(* The row transition                                                      *)

\* Mutants: the deadline is not compared, or never turns the state.
HalfOpenAtOnce(state, cooling) == IF state = "open" THEN "half_open" ELSE state
NeverHalfOpen(state, cooling) == state

EffectiveState(state, cooling) ==
    IF state = "open" /\ cooling = 0 THEN "half_open" ELSE state

Transition(r, ok, failures, successes, shouldOpen, cfg) ==
    LET effective == EffectiveState(r.state, r.cooling)
        To(state, cooling, level) ==
            [state |-> state, cooling |-> cooling, failureCount |-> failures,
             successCount |-> successes, coolingLevel |-> level]
    IN  CASE effective = "closed" /\ shouldOpen ->
                To("open", cfg["initialCooling"], 0)
          [] effective = "half_open" /\ ok ->
                To("degraded", 0, r.coolingLevel)
          [] effective = "half_open" /\ ~ok ->
                To("open", NextCooling(failures, cfg), r.coolingLevel)
          [] effective = "degraded" /\ successes >= RecoverySuccessThreshold ->
                To("closed", 0, 0)
          [] effective = "degraded" /\ successes < RecoverySuccessThreshold
             /\ ~ok /\ shouldOpen ->
                To("open", CoolingAtLevel(r.coolingLevel + 1, cfg), NextLevel(r.coolingLevel))
          [] OTHER -> To(r.state, 0, r.coolingLevel)

\* The INSERT ... ON CONFLICT DO NOTHING before SELECT ... FOR UPDATE.
Prebuilt(r) == IF r.state = "none" THEN [r EXCEPT !.state = "closed"] ELSE r

\* Mutant: a failure does not reset success_count.
UpdateRowKeepingSuccesses(k, ok, shouldOpen) ==
    LET r == Prebuilt(rows[k])
        failures == IF ok THEN 0 ELSE Bump(r.failureCount)
        successes == IF ok THEN Bump(r.successCount) ELSE r.successCount
    IN  rows' = [rows EXCEPT ![k] =
                    Transition(r, ok, failures, successes, shouldOpen, EffectiveConfig(k[2]))]

UpdateRow(k, ok, shouldOpen) ==
    LET r == Prebuilt(rows[k])
        failures == IF ok THEN 0 ELSE Bump(r.failureCount)
        successes == IF ok THEN Bump(r.successCount) ELSE 0
    IN  rows' = [rows EXCEPT ![k] =
                    Transition(r, ok, failures, successes, shouldOpen, EffectiveConfig(k[2]))]

\* shouldOpen is asked only after a failure, of a closed or degraded row.
MayOpen(k, h) ==
    IF Prebuilt(rows[k]).state \in {"closed", "degraded"} THEN Verdicts(h, k) ELSE {FALSE}

-----------------------------------------------------------------------------
(* What the router reads                                                   *)

Severity == [closed |-> 0, half_open |-> 1, degraded |-> 2, open |-> 3]

RowsOf(b) == {rows[<<m, b>>] : m \in {n \in Models : rows[<<n, b>>].state # "none"}}

\* Worst stored state of the bucket; an open bucket is half open once every
\* open row of it has cooled down.
BucketState(b) ==
    LET worst == CHOOSE r \in RowsOf(b) :
                    \A q \in RowsOf(b) : Severity[q.state] <= Severity[r.state]
        stillCooling == \E r \in RowsOf(b) : r.state = "open" /\ r.cooling > 0
    IN  EffectiveState(worst.state, IF stillCooling THEN 1 ELSE 0)

CircuitStateForGroup(b) ==
    IF RowsOf(b) # {} THEN BucketState(b)
    ELSE IF RowsOf(Global) # {} THEN BucketState(Global)
    ELSE "closed"

-----------------------------------------------------------------------------
(* Actions                                                                 *)

Init ==
    /\ rows = [k \in Keys |-> NoRow]
    /\ history = <<>>
    /\ inflight = [k \in Keys |-> 0]
    /\ deleted = {}

\* The hard filter lets the channel through for model k[1] and bucket k[2].
Start(k) ==
    /\ k[2] \notin deleted
    /\ inflight[k] < MaxInflight
    /\ CircuitStateForGroup(k[2]) # "open"
    /\ inflight' = [inflight EXCEPT ![k] = @ + 1]
    /\ UNCHANGED <<rows, history, deleted>>

Finish(k) ==
    /\ inflight[k] > 0
    /\ inflight' = [inflight EXCEPT ![k] = @ - 1]
    /\ UNCHANGED deleted

\* A sample may share the transaction, and so the created_at, of the sample
\* written just before it; no tick can have passed in between.
MayJoin == history # <<>> /\ history[Len(history)].age = 0

Recorded(k, ok, joined) ==
    Append(history, [model |-> k[1], bucket |-> k[2], origin |-> k[2],
                     ok |-> ok, age |-> 0, joined |-> joined])

Reportable(k, joined) ==
    /\ k[2] \notin deleted
    /\ Len(history) < MaxHistory
    /\ joined => MayJoin
    /\ Finish(k)

ReportSuccess(k, joined) ==
    /\ Reportable(k, joined)
    /\ history' = Recorded(k, TRUE, joined)
    /\ UpdateRow(k, TRUE, FALSE)

ReportFailure(k, joined) ==
    /\ Reportable(k, joined)
    /\ history' = Recorded(k, FALSE, joined)
    /\ \E verdict \in MayOpen(k, history') : UpdateRow(k, FALSE, verdict)

\* The client left before the first byte reached it: the history row has
\* error_class client_canceled, which every verdict filters out, but the
\* circuit row is updated as for any failure.
ReportEarlyCancel(k) ==
    /\ k[2] \notin deleted
    /\ Finish(k)
    /\ history' = history
    /\ \E verdict \in MayOpen(k, history) : UpdateRow(k, FALSE, verdict)

\* The client left while the stream was being forwarded (skipCircuit).
ReportCanceled(k) == Finish(k) /\ UNCHANGED <<rows, history>>

\* The group is gone: inserting the sample breaks the foreign key, and the
\* transaction that would also have updated the circuit row is rolled back.
LoseSample(k) == k[2] \in deleted /\ Finish(k) /\ UNCHANGED <<rows, history>>

\* Mutant: the reset stores the state that only ever exists as a reading.
ResetToHalfOpen(r) ==
    IF r.state = "none" THEN r ELSE [r EXCEPT !.state = "half_open", !.cooling = 0]

ResetRow(r) ==
    IF r.state = "none" THEN r
    ELSE [r EXCEPT !.state = "closed", !.cooling = 0, !.failureCount = 0, !.successCount = 0]

\* POST /admin/circuit/:channel_id/reset, every row of the channel.
ResetCircuit ==
    /\ rows' = [k \in Keys |-> ResetRow(rows[k])]
    /\ UNCHANGED <<history, inflight, deleted>>

Ungrouped(s, g) == IF s.bucket = g THEN [s EXCEPT !.bucket = Global] ELSE s

\* DELETE /admin/groups/:id.  circuit_states keeps its rows (no foreign key),
\* request_history.group_id of the group's samples becomes NULL.
DeleteGroup(g) ==
    /\ g \notin deleted
    /\ deleted' = deleted \cup {g}
    /\ history' = [i \in 1..Len(history) |-> Ungrouped(history[i], g)]
    /\ UNCHANGED <<rows, inflight>>

Cooled(r) == [r EXCEPT !.cooling = IF @ > 0 THEN @ - 1 ELSE 0]
Older(s) == [s EXCEPT !.age = @ + 1]

\* One tick of the clock: cooling goes on, samples age and the oldest leave
\* the ten minute window.
Tick ==
    /\ rows' = [k \in Keys |-> Cooled(rows[k])]
    /\ \E n \in 0..Len(history) :
          /\ \A i \in 1..Len(history) : i <= n <=> history[i].age = Window
          /\ history' = [i \in 1..(Len(history) - n) |-> Older(history[i + n])]
    /\ UNCHANGED <<inflight, deleted>>

Report(k) ==
    \/ \E joined \in BOOLEAN : ReportSuccess(k, joined) \/ ReportFailure(k, joined)
    \/ ReportEarlyCancel(k)
    \/ ReportCanceled(k)
    \/ LoseSample(k)

Next ==
    \/ \E k \in Keys : Start(k) \/ Report(k)
    \/ ResetCircuit
    \/ \E g \in Deletable : DeleteGroup(g)
    \/ Tick

Spec == Init /\ [][Next]_vars

\* The clock runs, the router keeps sending requests it may send, and an
\* upstream call ends (every call has a timeout).  Nothing makes it succeed.
Fairness ==
    /\ WF_vars(Tick)
    /\ \A k \in Keys : WF_vars(Start(k)) /\ WF_vars(Report(k))

FairSpec == Spec /\ Fairness

-----------------------------------------------------------------------------
(* Properties                                                              *)

Opens(k) == rows[k].state # "open" /\ rows'[k].state = "open"

\* The samples written for this very model and bucket.
Own(h, k) == {i \in 1..Len(h) : h[i].model = k[1] /\ h[i].origin = k[2]}
Inherited(h, k) == {i \in Of(h, k) : h[i].origin \in deleted}

\* A circuit opens only while the window holds openMinFailures failures of its
\* own model and bucket, so another model's or a living group's failures never
\* open it (circuit.go 244-270).  The one exception the code has: failures
\* that the global bucket inherits from a deleted group.
HasOwnFailures(k) ==
    Cardinality(Failures(history', Own(history', k) \cup Inherited(history', k)))
       >= EffectiveConfig(k[2])["openMinFailures"]
OpensOnOwnFailures == [][\A k \in Keys : Opens(k) => HasOwnFailures(k)]_vars

\* A success, however late, opens no row and skips no state on the way back: a
\* row becomes degraded only when it was half open, and closed only when it was
\* degraded (circuit.go 123-130, 172-200).  So a row that still cools stays
\* open.  Whether it keeps its deadline is another matter, that of
\* CoolingNotCutShort: circuit.go 200 drops it, and the row is half open from
\* then on.
OnTheWayBack(old, new) ==
    \/ new.state = old.state
    \/ old.state = "none" /\ new.state = "closed"
    \/ old.state = "open" /\ old.cooling = 0 /\ new.state = "degraded"
    \/ old.state = "degraded" /\ new.state = "closed"
SuccessSkipsNoState ==
    [][\A k \in Keys, joined \in BOOLEAN :
          ReportSuccess(k, joined) => OnTheWayBack(rows[k], rows'[k])]_vars

\* Every own failure still in the window is followed by at least n successes.
RecoveredBy(h, k, n) ==
    \A i \in Failures(h, Own(h, k)) :
        Cardinality({j \in Own(h, k) : i < j /\ h[j].ok}) >= n

\* Traffic (as opposed to the administrator's reset) closes a circuit only
\* when recovery_success_threshold successes follow every failure still in
\* the window (circuit.go 188-190).
Closes(k) == rows[k].state \in {"open", "degraded"} /\ rows'[k].state = "closed"
ClosesOnlyAfterRecovery ==
    [][\A k \in Keys : Closes(k) =>
          ResetCircuit \/ RecoveredBy(history', k, RecoverySuccessThreshold)]_vars

\* Once the upstream stops failing, and clients stop leaving before the first
\* byte, every circuit in use ends up closed: cooling expires, the half-open
\* circuit is probed, the degraded one recovers (snapshot.go 575-580,
\* filter.go 107-109, circuit.go 180-191).
OnlySuccesses ==
    <>[][\A k \in Keys : Report(k) => \E joined \in BOOLEAN : ReportSuccess(k, joined)]_vars
SelfHeals ==
    OnlySuccesses => \A k \in Keys : []<>(rows[k].state \in {"none", "closed"} \/ k[2] \in deleted)

-----------------------------------------------------------------------------
(* What comments and tests say, and the code does not do                   *)

\* "open, cooling not over: no traffic" (filter.go 101-103): only time and the
\* administrator shorten the cooling of an open circuit.
CoolingNotCutShort ==
    [][\A k \in Keys : rows[k].state = "open" /\ rows'[k].cooling < rows[k].cooling =>
          Tick \/ ResetCircuit]_vars
=============================================================================
