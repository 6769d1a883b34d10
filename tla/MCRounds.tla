------------------------------ MODULE MCRounds ------------------------------
(* The rounds of the checkers beside a request that makes a gateway build its *)
(* snapshot; no change from elsewhere.                                        *)
EXTENDS MCRouting

RoundsInit ==
    /\ NoCase /\ live = "log" /\ Init /\ Quiet
    /\ Left(MaxRounds, 0, MaxFaults) /\ request = Asking(CHOOSE g \in Gateway : TRUE, CHOOSE g \in Gateway : TRUE)

RoundsSpec == RoundsInit /\ [][MCNext]_allVars
=============================================================================
