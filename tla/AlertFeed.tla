------------------------------ MODULE AlertFeed ------------------------------
\* Alerts: the reconcilers evaluate what is wrong and keep alert_events in step
\* (alert/evaluator.go, reconciler.go, reconcile_store.go), the quality workers
\* write their own alert at once (alert/external.go), and the bot tells its
\* subscribers what changed since the last push (alert/service.go,
\* telegram/worker.go). Times are ordered stamps, no two of them alike.
EXTENDS Naturals, FiniteSets, Sequences

CONSTANTS Balance,      \* alerts on a channel's balance
          Quality,      \* alerts on the quality check of a channel and model
          Reconciler,   \* checkers
          QualityWorker,       \* quality workers
          Subscriber,   \* telegram_subscribers, natural numbers
          Sees,         \* [Subscriber -> alerts within the groups granted to it]
          Dead,         \* subscribers that cannot be reached (blocked, bad chat id)
          MaxChanges,   \* bound: new balances and quality checks
          MaxFaults     \* bound: failing statements, failing sends, crashes

VARIABLES samples,      \* balance_checks: the two newest, newest first
          failing,      \* the alerts whose newest completed check failed
          rows,         \* alert_events
          lock,         \* the advisory lock of the reconcilers
          reconciler, worker, pusher,
          watermark,    \* telegram_config.last_report_at, 0 for none
          delivered,    \* telegram_delivery_logs: successes, by subscriber and watermark
          sent,         \* what each subscriber was told
          clock, ticked,
          cleared,      \* history: rows whose cause was absent since they were raised
          doubted,      \* history: rows recovered by a check that read nothing, or too late
          late,         \* history: changes stamped before a push that could not see them
          passed,       \* history: what a push kept from a subscriber
          changes, faults

vars == <<samples, failing, rows, lock, reconciler, worker, pusher, watermark, delivered,
          sent, clock, ticked, cleared, doubted, late, passed, changes, faults>>
feed == <<watermark, delivered, sent, passed, pusher>>

Key == Balance \cup Quality
Free == "free"
Idle == [at |-> "idle"]
Off == [at |-> "off"]
Fault == faults < MaxFaults /\ faults' = faults + 1

\* Two low balances in a row raise the alert, one high balance ends it.
LowBalance(k) == samples[k] = <<"low", "low">>
Wanted(k) == IF k \in Balance THEN LowBalance(k) ELSE k \in failing

\* The cause is absent: no low one among the two newest balances.
Gone(k) == IF k \in Balance THEN \A i \in DOMAIN samples[k] : samples[k][i] # "low" ELSE k \notin failing

Active == {r \in rows : r.recovered = 0}
ActiveKeys == {r.key : r \in Active}

Init ==
    /\ samples = [k \in Balance |-> <<>>] /\ failing = {}
    /\ rows = {} /\ lock = Free
    /\ reconciler \in [Reconciler -> {Idle, Off}] /\ worker \in [QualityWorker -> {Idle, Off}]
    /\ pusher \in {Idle, Off}
    /\ watermark \in {0, 1} /\ clock = 1 /\ ticked = TRUE
    /\ delivered = {} /\ sent = [s \in Subscriber |-> {}]
    /\ cleared = {} /\ doubted = {} /\ late = {} /\ passed = {}
    /\ changes \in 0..MaxChanges /\ faults \in 0..MaxFaults

-----------------------------------------------------------------------------
\* What alerts are about.

Change == changes < MaxChanges /\ changes' = changes + 1

\* History: rows of alerts whose cause is absent now.
Clearing == cleared' = cleared \cup {r \in Active : Gone(r.key)'}

NewBalance(k, v) ==
    /\ Change
    /\ samples' = [samples EXCEPT ![k] = SubSeq(<<v>> \o @, 1, IF Len(@) = 0 THEN 1 ELSE 2)]
    /\ UNCHANGED <<failing, rows, lock, reconciler, worker, feed, clock, ticked, doubted, late, faults>>
    /\ Clearing

\* A check completes first and reports to the alerts afterwards.
CompleteCheck(w, k, failed) ==
    /\ Change /\ worker[w] = Idle
    /\ failing' = IF failed THEN failing \cup {k} ELSE failing \ {k}
    /\ worker' = [worker EXCEPT ![w] = [at |-> "report", key |-> k, failed |-> failed]]
    /\ UNCHANGED <<samples, rows, lock, reconciler, feed, clock, ticked, doubted, late, faults>>
    /\ Clearing

-----------------------------------------------------------------------------
\* Rows of alert_events: at most one active row of a key. Raising keeps the row
\* there is, recovering stamps the active ones.

Stamp == clock' = clock + 1 /\ ticked' = FALSE
Row(k, t) == [key |-> k, first |-> t, recovered |-> 0]
Upsert(R, K, t) == R \cup {Row(k, t) : k \in {k \in K : ~\E r \in R : r.key = k /\ r.recovered = 0}}
Recover(R, K, t) == {IF r.recovered = 0 /\ r.key \in K THEN [r EXCEPT !.recovered = t] ELSE r : r \in R}

\* What there is to tell of a row.
News(r) == IF r.recovered = 0 THEN [what |-> "new", key |-> r.key, first |-> r.first, at |-> r.first]
           ELSE [what |-> "recovered", key |-> r.key, first |-> r.first, at |-> r.recovered]

Pushing == pusher \notin {Idle, Off}

\* History: a change that a push, past or under way, stands before but did not see.
Lateness(new) ==
    late' = late \cup {n \in {News(r) : r \in new \ rows} :
                          n.at < watermark \/ (Pushing /\ n.at < pusher.now)}

WriteRows(new) == rows' = new /\ Lateness(new)

\* A row raised for a cause that is gone already.
Raised(new) == cleared' = cleared \cup {r \in new \ rows : r.recovered = 0 /\ Gone(r.key)}

-----------------------------------------------------------------------------
\* Reconcile: evaluate under the lock, then write everything in one transaction.

Lock(c) ==
    /\ reconciler[c] = Idle /\ lock = Free
    /\ lock' = c /\ reconciler' = [reconciler EXCEPT ![c] = [at |-> "balances"]]
    /\ UNCHANGED <<samples, failing, rows, worker, feed, clock, ticked, cleared, doubted, late, changes, faults>>

EvaluateBalances(c) ==
    /\ reconciler[c].at = "balances"
    /\ reconciler' = [reconciler EXCEPT ![c] = [at |-> "checks", current |-> {k \in Balance : LowBalance(k)}]]
    /\ UNCHANGED <<samples, failing, rows, lock, worker, feed, clock, ticked, cleared, doubted, late, changes, faults>>

\* The failed stages of each newest check; those that cannot be read are skipped.
EvaluateChecks(c) ==
    /\ reconciler[c].at = "checks"
    /\ \E unread \in SUBSET failing :
          /\ unread # {} => Fault
          /\ unread = {} => UNCHANGED faults
          /\ doubted' = doubted \cup {r \in Active : r.key \in unread}
          /\ LET current == reconciler[c].current \cup (failing \ unread)
             IN reconciler' = [reconciler EXCEPT ![c] = [at |-> "write", current |-> current, now |-> clock + 1]]
    /\ IF reconciler'[c].current = ActiveKeys THEN UNCHANGED <<clock, ticked>> ELSE Stamp
    /\ UNCHANGED <<samples, failing, rows, lock, worker, feed, cleared, late, changes>>

\* Alerts that are no longer current recover, all of them when none is.
Reconciled(current, now) == Recover(Upsert(rows, current, now), Key \ current, now)

Reconcile(c) ==
    /\ reconciler[c].at = "write" /\ lock = c
    /\ LET new == Reconciled(reconciler[c].current, reconciler[c].now)
       IN WriteRows(new) /\ Raised(new)
    /\ reconciler' = [reconciler EXCEPT ![c] = Idle] /\ lock' = Free
    /\ UNCHANGED <<samples, failing, worker, feed, clock, ticked, doubted, changes, faults>>

\* As a bug: the lock is not given back when something fails.
AbandonHoldingLock(c) ==
    /\ reconciler[c] \notin {Idle, Off} /\ Fault
    /\ reconciler' = [reconciler EXCEPT ![c] = Idle]
    /\ UNCHANGED <<samples, failing, rows, lock, worker, feed, clock, ticked, cleared, doubted, late, changes>>

\* A failing evaluation or transaction and a crash write nothing.
AbandonReconcile(c) ==
    /\ reconciler[c] \notin {Idle, Off} /\ Fault
    /\ reconciler' = [reconciler EXCEPT ![c] = Idle]
    /\ lock' = IF lock = c THEN Free ELSE lock
    /\ UNCHANGED <<samples, failing, rows, worker, feed, clock, ticked, cleared, doubted, late, changes>>

-----------------------------------------------------------------------------
\* The quality worker's own report: the time is read, then the lock awaited.

Report(w) ==
    /\ worker[w].at = "report"
    /\ worker' = [worker EXCEPT ![w] = [at |-> "waiting", key |-> @.key, failed |-> @.failed, now |-> clock + 1]]
    /\ Stamp
    /\ UNCHANGED <<samples, failing, rows, lock, reconciler, feed, cleared, doubted, late, changes, faults>>

\* As a bug: the report does not wait for the reconcilers' lock.
ReportAtOnce == TRUE

MayReport == lock = Free

QualityReport(w) ==
    /\ worker[w].at = "waiting" /\ MayReport
    /\ LET k == worker[w].key
           new == IF worker[w].failed THEN Upsert(rows, {k}, worker[w].now) ELSE Recover(rows, {k}, worker[w].now)
       IN /\ WriteRows(new) /\ Raised(new)
          /\ doubted' = IF ~worker[w].failed /\ Wanted(k) THEN doubted \cup {r \in Active : r.key = k} ELSE doubted
    /\ worker' = [worker EXCEPT ![w] = Idle]
    /\ UNCHANGED <<samples, failing, lock, reconciler, feed, clock, ticked, changes, faults>>

LoseReport(w) ==
    /\ worker[w] \notin {Idle, Off} /\ Fault
    /\ worker' = [worker EXCEPT ![w] = Idle]
    /\ UNCHANGED <<samples, failing, rows, lock, reconciler, feed, clock, ticked, cleared, doubted, late, changes>>

-----------------------------------------------------------------------------
\* The push. One owner at a time holds the lock of the reports; without a
\* watermark the first tick only sets it. A tick that no stamp separates from the
\* last one is taken only to repeat it.

TryPushAlerts ==
    /\ pusher = Idle /\ (ticked => watermark < clock)
    /\ IF ticked THEN UNCHANGED <<clock, ticked>> ELSE clock' = clock + 1 /\ ticked' = TRUE
    /\ IF watermark = 0
       THEN /\ watermark' = clock' /\ UNCHANGED pusher
            /\ passed' = passed \cup {<<s, News(r)>> : s \in Subscriber, r \in rows}
       ELSE /\ pusher' = [now |-> clock', since |-> watermark, todo |-> Subscriber, cache |-> <<>>, ok |-> TRUE]
            /\ UNCHANGED <<watermark, passed>>
    /\ UNCHANGED <<samples, failing, rows, lock, reconciler, worker, delivered, sent, cleared, doubted, late, changes, faults>>

\* New rows and recoveries since the watermark, within the groups granted.
ChangesSince(since, seen) == {News(r) : r \in {r \in rows : r.key \in seen /\ News(r).at >= since}}

First(S) == CHOOSE s \in S : \A o \in S : s <= o
Next1 == First(pusher.todo)

\* One text for all subscribers that may see the same. A text that cannot be
\* built counts as nothing to tell.
Text(s) == IF Sees[s] \in DOMAIN pusher.cache THEN pusher.cache[Sees[s]] ELSE ChangesSince(pusher.since, Sees[s])
WithText(s, text) == [v \in DOMAIN pusher.cache \cup {Sees[s]} |-> IF v = Sees[s] THEN text ELSE pusher.cache[v]]
HasDelivery(s) == <<s, pusher.since>> \in delivered

\* History: changes a subscriber may see and is not told this time.
Withheld(s, told) == {<<s, n>> : n \in ChangesSince(pusher.since, Sees[s]) \ (sent[s] \cup told)}

Skip(s) ==
    /\ HasDelivery(s)
    /\ pusher' = [pusher EXCEPT !.todo = @ \ {s}]
    /\ passed' = passed \cup Withheld(s, {})
    /\ UNCHANGED <<delivered, sent, faults>>

Deliver(s) ==
    /\ ~HasDelivery(s)
    /\ LET text == Text(s)
           moved == [pusher EXCEPT !.todo = @ \ {s}, !.cache = WithText(s, text)]
       IN \/ text = {} /\ pusher' = moved /\ UNCHANGED <<delivered, sent, faults>>
          \/ /\ text # {} /\ s \notin Dead /\ pusher' = moved
             /\ sent' = [sent EXCEPT ![s] = @ \cup text]
             /\ \/ delivered' = delivered \cup {<<s, pusher.since>>} /\ UNCHANGED faults
                \/ Fault /\ UNCHANGED delivered
          \/ /\ text # {} /\ ((s \in Dead /\ UNCHANGED faults) \/ (s \notin Dead /\ Fault))
             /\ pusher' = [moved EXCEPT !.ok = FALSE] /\ UNCHANGED <<delivered, sent>>
    /\ passed' = passed \cup (IF pusher'.ok = pusher.ok THEN Withheld(s, Text(s)) ELSE {})

\* A look-up that fails looks like one that finds nothing: the text goes out again.
SendAgain(s) ==
    /\ HasDelivery(s) /\ Fault
    /\ pusher' = [pusher EXCEPT !.todo = @ \ {s}, !.cache = WithText(s, Text(s))]
    /\ sent' = [sent EXCEPT ![s] = @ \cup Text(s)]
    /\ passed' = passed \cup Withheld(s, Text(s))
    /\ UNCHANGED delivered

FailToBuild(s) ==
    /\ ~HasDelivery(s) /\ Sees[s] \notin DOMAIN pusher.cache /\ Fault
    /\ pusher' = [pusher EXCEPT !.todo = @ \ {s}, !.cache = WithText(s, {})]
    /\ passed' = passed \cup Withheld(s, {})
    /\ UNCHANGED <<delivered, sent>>

Serve ==
    /\ Pushing /\ pusher.todo # {}
    /\ Skip(Next1) \/ Deliver(Next1) \/ SendAgain(Next1) \/ FailToBuild(Next1)
    /\ UNCHANGED <<samples, failing, rows, lock, reconciler, worker, watermark, clock, ticked, cleared, doubted, late, changes>>

\* As a bug: also if somebody failed.
AdvancedAnyway == pusher.now

\* The watermark moves to the time of the tick, if nobody failed.
Advanced == IF pusher.ok THEN pusher.now ELSE watermark

EndPush ==
    /\ Pushing /\ pusher.todo = {}
    /\ watermark' = Advanced /\ pusher' = Idle
    /\ UNCHANGED <<samples, failing, rows, lock, reconciler, worker, delivered, sent, passed, clock, ticked, cleared, doubted, late, changes, faults>>

AbandonPush ==
    /\ Pushing /\ Fault /\ pusher' = Idle
    /\ UNCHANGED <<samples, failing, rows, lock, reconciler, worker, watermark, delivered, sent, passed, clock, ticked, cleared, doubted, late, changes>>

-----------------------------------------------------------------------------
Round(c) == Lock(c) \/ EvaluateBalances(c) \/ EvaluateChecks(c) \/ Reconcile(c)
QualityWork(w) == Report(w) \/ QualityReport(w)
Push == TryPushAlerts \/ Serve \/ EndPush

Next ==
    \/ \E k \in Balance, v \in {"low", "high"} : NewBalance(k, v)
    \/ \E w \in QualityWorker, k \in Quality, failed \in BOOLEAN : CompleteCheck(w, k, failed)
    \/ \E c \in Reconciler : Round(c) \/ AbandonReconcile(c)
    \/ \E w \in QualityWorker : QualityWork(w) \/ LoseReport(w)
    \/ Push \/ AbandonPush

\* The reconcilers and the push tick for ever, whoever holds a lock goes on.
Reconciling == \E c \in Reconciler : Round(c)
Fairness == WF_vars(Reconciling) /\ (\A w \in QualityWorker : WF_vars(QualityWork(w))) /\ WF_vars(Push)
Spec == Init /\ [][Next]_vars /\ Fairness

-----------------------------------------------------------------------------
\* When nothing changes any more, what is wrong is an active alert and nothing
\* whose cause is absent is, whoever wrote last (Reconcile recovers what it does
\* not find). One low and one high balance are neither.
AlertsSettle ==
    (\E c \in Reconciler : reconciler[c] # Off) =>
        <>[](\A k \in Key : (Wanted(k) => k \in ActiveKeys) /\ (Gone(k) => k \notin ActiveKeys))

RecoveredAfter(r, causes) == \E c \in causes : c.key = r.key /\ c.first = r.first

\* The alert of a quality check recovers only if its cause was absent at some
\* moment since it was raised, reports of quality workers between evaluation and
\* writing included. The exceptions are stages that could not be read and a
\* check's late report. Of balances it says nothing: one good reading ends their
\* alert (evaluator.go 97), which the comment there denies (50-51).
NoFalseRecovery ==
    \A r \in rows : r.recovered # 0 /\ r.key \notin Balance => RecoveredAfter(r, cleared \cup doubted)

\* Once the watermark is past a change, everybody who may see it was told, but
\* for what came late into the past and what the push itself withheld: from
\* those served before under this watermark, or because no text could be built.
AllTold ==
    \A s \in Subscriber, r \in rows :
        r.key \in Sees[s] /\ News(r).at < watermark =>
            News(r) \in sent[s] \cup late \/ <<s, News(r)>> \in passed

\* A subscriber who can be reached is told of every change in the end, whoever
\* else cannot be reached (README.md: one subscriber's failure does not affect
\* the others).
HealthyHearAll ==
    \A s \in Subscriber \ Dead :
        []<>(\A r \in rows : r.key \in Sees[s] => News(r) \in sent[s] \cup late)
=============================================================================
