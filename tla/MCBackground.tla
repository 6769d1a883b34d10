---------------------------- MODULE MCBackground ----------------------------
(* Work in the background that shares no variable, in one state space: a     *)
(* behaviour is one of the sample buffer, of the alerts or of the bot's      *)
(* inbox, as "live" says; the others stay where they are.                    *)
EXTENDS CircuitBuffer

CONSTANTS Balance, Quality, Reconciler, QualityWorker, Subscriber, Dead, MaxChanges, AlertFaults,
          Poller, Station, LastUpdate, Nothing, PollFaults,
          Sees, Mapped, Asks   \* given the definitions below

VARIABLES live,
          samples, failing, rows, lock, reconciler, reporter, pusher, watermark, delivered, sent,
          clock, ticked, cleared, doubted, late, passed, changes, alertFaults,
          ask, granted, offset, dropped, pollLock, poller, known, wizard, running, answers, paid,
          pollFaults, unlocked

alertVars == <<samples, failing, rows, lock, reconciler, reporter, pusher, watermark, delivered, sent,
               clock, ticked, cleared, doubted, late, passed, changes, alertFaults>>
botVars == <<ask, granted, offset, dropped, pollLock, poller, known, wizard, running, answers, paid,
             pollFaults, unlocked>>
allVars == <<live, vars, alertVars, botVars>>

-----------------------------------------------------------------------------
(* Subscriber 1 may see everything, subscriber 3 the quality checks.         *)
MCSees == [s \in Subscriber |-> IF s = 1 THEN Balance \cup Quality ELSE Quality]

(* Station 2 maps another model, station 3 is disabled. A guided test, and   *)
(* updates after a first one that was answered.                              *)
MCMapped == [s \in Station |-> IF s = 1 THEN {"m1"} ELSE IF s = 2 THEN {"m2"} ELSE {}]
A(what) == [what |-> what]
AStation(s) == [what |-> "station", station |-> s]
AModel(m) == [what |-> "model", model |-> m]
ATest(s, m) == [what |-> "test", station |-> s, model |-> m]
Guided == <<A("begin"), AStation(1), AModel("m1"), A("tokens")>>
Chats == {<<A("query"), A("query"), ATest(1, "m1"), A("back")>>,
          <<A("query"), A("begin"), AStation(3), A("cancel")>>,
          <<A("query"), A("begin"), A("back"), ATest(2, "m1")>>}
MCAsks == UNION {{chat[u] : u \in 1..LastUpdate} : chat \in Chats \cup {Guided}}

Alerts == INSTANCE AlertFeed WITH MaxFaults <- AlertFaults, faults <- alertFaults, worker <- reporter
Bot == INSTANCE BotPoller WITH MaxFaults <- PollFaults, faults <- pollFaults, lock <- pollLock

\* A lock that is free is not the name of somebody who may hold it.
ASSUME LockAssumption == Alerts!Free \notin Reconciler /\ Bot!Free \notin Poller

-----------------------------------------------------------------------------
On(actors) == {a \in DOMAIN actors : actors[a] # Alerts!Off}
NoAlerts ==
    /\ On(reconciler) = {} /\ On(reporter) = {} /\ pusher = Alerts!Off
    /\ changes = 0 /\ alertFaults = 0 /\ watermark = 0

(* Two reconcilers; two quality workers and one reconciler; the push with a  *)
(* reconciler, with a quality worker and two faults, and with both.          *)
Left(c, f) == changes = MaxChanges - c /\ alertFaults = AlertFaults - f
AlertCases ==
    LET c == CHOOSE r \in Reconciler : TRUE
        w == CHOOSE q \in QualityWorker : TRUE
    IN  \/ On(reconciler) = Reconciler /\ On(reporter) = {w} /\ pusher = Alerts!Off /\ Left(3, 1) /\ watermark = 1
        \/ On(reconciler) = {c} /\ On(reporter) = QualityWorker /\ pusher = Alerts!Off /\ Left(2, 1) /\ watermark = 1
        \/ On(reconciler) = {c} /\ On(reporter) = {} /\ pusher = Alerts!Idle /\ Left(3, 1) /\ watermark = 1
        \/ On(reconciler) = {} /\ On(reporter) = {w} /\ pusher = Alerts!Idle /\ Left(2, 2)
        \/ On(reconciler) = {c} /\ On(reporter) = {w} /\ pusher = Alerts!Idle /\ Left(1, 0) /\ watermark = 1

MCInit ==
    /\ Init
    /\ \/ live \in {"buffer", "alerts", "bot"} /\ ask = Guided /\ offset = 1
       \/ live = "bot" /\ ask \in Chats /\ offset = 2
    /\ Bot!Init /\ Alerts!Init
    /\ IF live = "alerts" THEN AlertCases ELSE NoAlerts

BufferStep == live = "buffer" /\ UNCHANGED <<live, alertVars, botVars>>
AlertStep == live = "alerts" /\ UNCHANGED <<live, vars, botVars>>

MCNext ==
    \/ BufferStep /\ Next
    \/ AlertStep /\ Alerts!Next
    \/ live = "bot" /\ Bot!Next /\ UNCHANGED <<live, vars, alertVars>>

(* The fairness of the components, each where it is live.                    *)
MCSpec ==
    /\ MCInit /\ [][MCNext]_allVars
    /\ WF_allVars(BufferStep /\ Worker)
    /\ WF_allVars(AlertStep /\ Alerts!Reconciling)

-----------------------------------------------------------------------------
\* What is wrong is an active alert in the end, what is well is not (AlertFeed).
AlertsSettle == Alerts!AlertsSettle
\* The alert of a quality check recovers only if its cause was absent (AlertFeed).
NoFalseRecovery == Alerts!NoFalseRecovery
\* Past the watermark everybody was told (AlertFeed).
AllTold == Alerts!AllTold
\* Telegram forgets only what was answered or refused (BotPoller).
NothingLost == Bot!NothingLost
\* A test is paid again only for a fault (BotPoller).
PaidOnce == Bot!PaidOnce
=============================================================================
