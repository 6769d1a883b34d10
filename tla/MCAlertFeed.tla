----------------------------- MODULE MCAlertFeed -----------------------------
(* Subscribers 1 and 2 may see everything, subscriber 3 the quality checks;  *)
(* a cfg says which of them cannot be reached.                               *)
EXTENDS AlertFeed

MCSees == [s \in Subscriber |-> IF s = 3 THEN Quality ELSE Key]

(* One reconciler, one quality worker and the push, after the first tick.    *)
MCInit ==
    /\ Init
    /\ \A c \in Reconciler : reconciler[c] = Idle
    /\ \A w \in QualityWorker : worker[w] = Idle
    /\ pusher = Idle /\ watermark = 1 /\ changes = 0 /\ faults = 0

MCSpec == MCInit /\ [][Next]_vars /\ Fairness
=============================================================================
