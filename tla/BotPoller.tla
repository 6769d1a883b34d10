------------------------------ MODULE BotPoller ------------------------------
\* The bot's inbox: checkers take turns polling Telegram under a session lock
\* (telegram/worker.go), answer what subscribers send (telegram/commands.go) and
\* run the paid station tests they order (telegram/sitetest.go). One chat.
EXTENDS Naturals, FiniteSets

CONSTANTS Poller, Station,
          Mapped,       \* [Station -> the models it maps, none if it is disabled]
          LastUpdate,   \* the chat sends the updates 1..LastUpdate
          Asks,         \* what an update may ask
          Nothing, MaxFaults

VARIABLES ask,          \* the updates
          granted,      \* telegram_subscribers: the chat may query
          offset,       \* telegram_config.last_update_id
          dropped,      \* Telegram: updates below were confirmed and are gone
          lock, poller,
          known,        \* the grants each checker loaded last
          wizard,       \* each checker's session of the guided test
          running,      \* station tests in goroutines: update -> how many
          answers, paid,
          faults, unlocked   \* unlocked: a poller lost its lock unawares

vars == <<ask, granted, offset, dropped, lock, poller, known, wizard, running, answers, paid, faults, unlocked>>

Update == 1..LastUpdate
Free == "free"
Idle == [at |-> "idle"]
Fault == faults < MaxFaults /\ faults' = faults + 1

Init ==
    /\ ask \in [Update -> Asks] /\ granted = TRUE
    /\ offset \in Update /\ dropped = offset /\ lock = Free
    /\ poller = [c \in Poller |-> Idle] /\ known = [c \in Poller |-> FALSE]
    /\ wizard = [c \in Poller |-> Nothing]
    /\ running = [c \in Poller |-> [u \in Update |-> 0]]
    /\ answers = [u \in Update |-> IF u < offset THEN {"reply"} ELSE {}] /\ paid = [u \in Update |-> 0]
    /\ faults = 0 /\ unlocked = FALSE

Revoke == granted /\ granted' = FALSE
          /\ UNCHANGED <<ask, offset, dropped, lock, poller, known, wizard, running, answers, paid, faults, unlocked>>

-----------------------------------------------------------------------------
Stop(c) == poller' = [poller EXCEPT ![c] = Idle] /\ lock' = IF lock = c THEN Free ELSE lock

Lock(c) ==
    /\ poller[c] = Idle /\ lock = Free
    /\ lock' = c /\ poller' = [poller EXCEPT ![c] = [at |-> "poll", since |-> offset]]
    /\ UNCHANGED <<ask, granted, offset, dropped, known, wizard, running, answers, paid, faults, unlocked>>

\* getUpdates confirms what is below the offset; then the grants are read again,
\* the old ones stay if that fails.
GetUpdates(c) ==
    /\ poller[c].at = "poll"
    /\ dropped' = IF dropped < poller[c].since THEN poller[c].since ELSE dropped
    /\ \/ dropped' > LastUpdate /\ Stop(c) /\ UNCHANGED <<known, faults>>
       \/ /\ dropped' <= LastUpdate
          /\ \E last \in dropped'..LastUpdate :
                poller' = [poller EXCEPT ![c] = [at |-> "handle", next |-> dropped', last |-> last]]
          /\ \/ known' = [known EXCEPT ![c] = granted] /\ UNCHANGED faults
             \/ Fault /\ UNCHANGED known
          /\ UNCHANGED lock
    /\ UNCHANGED <<ask, granted, offset, wizard, running, answers, paid, unlocked>>

\* As a bug: every failing reply is passed over, not only those refused for good.
ReplyOrGoOn(c, u, what) ==
    /\ \/ answers' = [answers EXCEPT ![u] = @ \cup {what}] /\ UNCHANGED faults
       \/ Fault /\ answers' = [answers EXCEPT ![u] = @ \cup {"refused"}]
       \/ Fault /\ UNCHANGED answers
    /\ poller' = [poller EXCEPT ![c].at = "store"] /\ UNCHANGED lock

\* The reply arrives, is refused for good, or fails and stops the round.
Reply(c, u, what) ==
    \/ answers' = [answers EXCEPT ![u] = @ \cup {what}] /\ UNCHANGED <<lock, faults>>
       /\ poller' = [poller EXCEPT ![c].at = "store"]
    \/ Fault /\ answers' = [answers EXCEPT ![u] = @ \cup {"refused"}] /\ UNCHANGED lock
       /\ poller' = [poller EXCEPT ![c].at = "store"]
    \/ Fault /\ UNCHANGED answers /\ Stop(c)

Say(c, u, what) == Reply(c, u, what) /\ UNCHANGED running

\* The test runs once its progress message was sent.
StartTest(c, u) ==
    /\ Reply(c, u, "started")
    /\ running' = IF answers'[u] = answers[u] \cup {"started"} /\ poller'[c] # Idle
                  THEN [running EXCEPT ![c][u] = @ + 1] ELSE running

Preflight(station, model) == station # Nothing /\ model \in Mapped[station]

OrderTest(c, u, station, model) ==
    IF Preflight(station, model) THEN StartTest(c, u) ELSE Say(c, u, "impossible")

SetWizard(c, w) == wizard' = [wizard EXCEPT ![c] = w]
Begun == [step |-> "station", station |-> Nothing, model |-> Nothing]

\* A step is taken whatever the session's step is; the session is gone before
\* the test starts.
Wizard(c, u, w) ==
    \/ ask[u].what = "station" /\ IF Mapped[ask[u].station] = {}
          THEN UNCHANGED wizard /\ Say(c, u, "impossible")
          ELSE /\ SetWizard(c, [w EXCEPT !.station = ask[u].station, !.step = "model"]) /\ Say(c, u, "reply")
    \/ ask[u].what = "model" /\ SetWizard(c, [w EXCEPT !.model = ask[u].model, !.step = "tokens"]) /\ Say(c, u, "reply")
    \/ ask[u].what = "tokens" /\ SetWizard(c, Nothing) /\ OrderTest(c, u, w.station, w.model)
    \/ ask[u].what = "back" /\ Say(c, u, IF w.step = "station" THEN "impossible" ELSE "reply")
       /\ SetWizard(c, [w EXCEPT !.step = IF @ = "tokens" THEN "model" ELSE "station"])
    \/ ask[u].what = "cancel" /\ SetWizard(c, Nothing) /\ Say(c, u, "reply")

InWizard(u) == ask[u].what \in {"station", "model", "tokens", "back", "cancel"}

Handle(c) ==
    /\ poller[c].at = "handle"
    /\ LET u == poller[c].next
       IN IF ~known[c] THEN Say(c, u, "unauthorized") /\ UNCHANGED wizard
          ELSE \/ ask[u].what = "query" /\ Say(c, u, "reply") /\ UNCHANGED wizard
               \/ ask[u].what = "begin" /\ SetWizard(c, Begun) /\ Say(c, u, "reply")
               \/ ask[u].what = "test" /\ OrderTest(c, u, ask[u].station, ask[u].model) /\ UNCHANGED wizard
               \/ InWizard(u) /\ wizard[c] = Nothing /\ Say(c, u, "expired") /\ UNCHANGED wizard
               \/ InWizard(u) /\ wizard[c] # Nothing /\ Wizard(c, u, wizard[c])
    /\ UNCHANGED <<ask, granted, offset, dropped, known, paid, unlocked>>

\* As a bug: the identifier of the update itself is stored, Telegram sends it again.
StoreUnraised(c) ==
    /\ poller[c].at = "store"
    /\ LET u == poller[c].next
       IN /\ offset' = u
          /\ IF u < poller[c].last
             THEN poller' = [poller EXCEPT ![c].at = "handle", ![c].next = u + 1] /\ UNCHANGED lock
             ELSE Stop(c)
    /\ UNCHANGED <<ask, granted, dropped, known, wizard, running, answers, paid, faults, unlocked>>

\* An update is passed once it is handled; a failing write stops the round.
UpdateLastUpdateID(c) ==
    /\ poller[c].at = "store"
    /\ LET u == poller[c].next
       IN \/ /\ offset' = u + 1 /\ UNCHANGED faults
             /\ IF u < poller[c].last
                THEN poller' = [poller EXCEPT ![c].at = "handle", ![c].next = u + 1] /\ UNCHANGED lock
                ELSE Stop(c)
          \/ Fault /\ Stop(c) /\ UNCHANGED offset
    /\ UNCHANGED <<ask, granted, dropped, known, wizard, running, answers, paid, unlocked>>

\* Two inferences are paid for, under the lock of the station.
RunTest(c, u) ==
    /\ running[c][u] > 0
    /\ running' = [running EXCEPT ![c][u] = @ - 1] /\ paid' = [paid EXCEPT ![u] = @ + 1]
    /\ UNCHANGED <<ask, granted, offset, dropped, lock, poller, known, wizard, answers, faults, unlocked>>

Crash(c) ==
    /\ Fault /\ Stop(c) /\ known' = [known EXCEPT ![c] = FALSE]
    /\ SetWizard(c, Nothing) /\ running' = [running EXCEPT ![c] = [u \in Update |-> 0]]
    /\ UNCHANGED <<ask, granted, offset, dropped, answers, paid, unlocked>>

\* The session that holds the lock breaks, the poller goes on.
LoseLock(c) ==
    /\ lock = c /\ Fault /\ lock' = Free /\ unlocked' = TRUE
    /\ UNCHANGED <<ask, granted, offset, dropped, poller, known, wizard, running, answers, paid>>

Poll(c) == Lock(c) \/ GetUpdates(c) \/ Handle(c) \/ UpdateLastUpdateID(c)

Next ==
    \/ Revoke
    \/ \E c \in Poller : Poll(c) \/ Crash(c) \/ LoseLock(c)
    \/ \E c \in Poller, u \in Update : RunTest(c, u)

Spec == Init /\ [][Next]_vars

-----------------------------------------------------------------------------
\* Telegram forgets an update only after it was answered or refused for good,
\* pollers without their lock and offsets that move back included.
NothingLost == \A u \in Update : u < dropped => answers[u] # {}

\* While the lock is kept, a test is paid again only for a fault: an offset that
\* was not stored, a crash in between.
PaidOnce == ~unlocked => \A u \in Update : paid[u] <= 1 + faults
=============================================================================
