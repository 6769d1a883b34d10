----------------------------- MODULE SampleLog -----------------------------
(***************************************************************************)
(* What internal/api/circuit_buffer.go promises its callers: a request's   *)
(* sample is either written on the spot or waits in line, the line is      *)
(* served first come first served, and every sample that leaves the line   *)
(* has been applied to the database or reported lost in the log.           *)
(***************************************************************************)
EXTENDS Sequences, SequencesExt

CONSTANT Samples

VARIABLES
    line,     \* samples accepted and not settled, oldest first
    outcome   \* what became of each sample

lineVars == <<line, outcome>>

Outcomes == {"new", "waiting", "applied", "lost"}

Init == line = <<>> /\ outcome = [s \in Samples |-> "new"]

Accept(s) ==
    /\ outcome[s] = "new"
    /\ line' = Append(line, s)
    /\ outcome' = [outcome EXCEPT ![s] = "waiting"]

\* The caller writes the sample itself when the line is full.
Bypass(s) ==
    /\ outcome[s] = "new"
    /\ outcome' = [outcome EXCEPT ![s] = "applied"] \/ outcome' = [outcome EXCEPT ![s] = "lost"]
    /\ UNCHANGED line

Serve(n) ==
    /\ line' = SubSeq(line, n + 1, Len(line))
    /\ outcome' = [s \in Samples |->
                      IF s \in ToSet(SubSeq(line, 1, n)) THEN "applied" ELSE outcome[s]]

GiveUp ==
    /\ line # <<>>
    /\ line' = Tail(line)
    /\ outcome' = [outcome EXCEPT ![Head(line)] = "lost"]

Next ==
    \/ \E s \in Samples : Accept(s) \/ Bypass(s)
    \/ \E n \in 1..Len(line) : Serve(n)
    \/ GiveUp

Spec == Init /\ [][Next]_lineVars
=============================================================================
