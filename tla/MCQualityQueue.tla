--------------------------- MODULE MCQualityQueue ---------------------------
(* Small instances of QualityQueue for TLC. *)
EXTENDS QualityQueue

\* A run that ended before, by the attempts it was allowed.
Expired(c) == [channel |-> c, status |-> "expired", attempts |-> MaxAttempts,
               worker |-> Nobody, stale |-> FALSE]

\* Two runs and a fault, or the second of two runs and every fault.
MCInit ==
    /\ results = [r \in Runs |-> [s \in Stages |-> 0]]
    /\ execs = {}
    /\ process = [w \in Workers |-> "up"]
    /\ scan = [w \in Workers |-> {}]
    /\ \/ runs = [r \in {} |-> {}] /\ faults = MaxFaults - 1
       \/ runs = [r \in {1} |-> Expired(CHOOSE c \in Channels : TRUE)] /\ faults = 0

MCSpec == MCInit /\ [][Next]_vars /\ Fairness
=============================================================================
