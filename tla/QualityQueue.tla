---------------------------- MODULE QualityQueue ----------------------------
(***************************************************************************)
(* The queue of quality checks (internal/quality/repository.go), the       *)
(* workers of the checker processes that serve it (worker.go), the stages  *)
(* they execute (executor.go) and the gateway's create and cancel requests *)
(* (internal/api/quality.go).                                              *)
(*                                                                         *)
(* Time is reduced to whether a heartbeat may be older than StaleAfter: it *)
(* may as soon as nobody lives to refresh it, and it is ("stale") after    *)
(* the owner's process was suspended for that long.  Stage results are     *)
(* reduced to the attempt that wrote them.                                 *)
(***************************************************************************)
EXTENDS Naturals, FiniteSets

CONSTANTS
    Channels,
    NumRuns,        \* bound: runs created, 1..NumRuns in creation order
    Workers,        \* worker ids, one per checker process, never used again
    NumStages,      \* stages of the depth asked for
    MaxConcurrent,  \* executions per worker
    MaxAttempts,    \* Worker.MaxAttempts
    MaxFaults       \* bound: crashes, suspensions and failed database calls

ASSUME QueueAssumption ==
    /\ {NumRuns, NumStages, MaxConcurrent, MaxAttempts} \subseteq Nat \ {0}
    /\ MaxFaults \in Nat

Runs == 1..NumRuns
Stages == 1..NumStages

VARIABLES
    runs,      \* quality_check_runs, those created so far
    results,   \* quality_check_results: the attempt that wrote it, 0 = no row
    execs,     \* executions going on in some process
    process,   \* the checker process of each worker: one that starts later, or
               \* takes the place of a dead one, is one that has not acted yet
    scan,      \* per worker, the rows RecoverStale has read and not yet treated
    faults

vars == <<runs, results, execs, process, scan, faults>>

ActiveStatus == {"queued", "running", "cancel_requested"}
FinalStatus == {"completed", "failed", "cancelled", "expired"}
Nobody == "nobody"

Run == [channel : Channels, status : ActiveStatus \cup FinalStatus, attempts : Nat,
        worker : Workers \cup {Nobody}, stale : BOOLEAN]

\* "next" is the stage to come; at "check" the cancel check before it is due,
\* at "stage" it is being executed, at "end" all of them are done.
Exec == [worker : Workers, run : Runs, attempt : Nat, next : 1..(NumStages + 1),
         at : {"check", "stage", "end"}]

StaleRead == [run : Runs, attempts : Nat, cancel : BOOLEAN]

Created == DOMAIN runs

TypeOK ==
    /\ \E n \in 0..NumRuns : Created = 1..n
    /\ \A r \in Created : runs[r] \in Run
    /\ results \in [Runs -> [Stages -> Nat]]
    /\ execs \subseteq Exec
    /\ process \in [Workers -> {"up", "dead"}]
    /\ scan \in [Workers -> SUBSET StaleRead]
    /\ faults \in 0..MaxFaults

Init ==
    /\ runs = [r \in {} |-> {}]
    /\ results = [r \in Runs |-> [s \in Stages |-> 0]]
    /\ execs = {}
    /\ process = [w \in Workers |-> "up"]
    /\ scan = [w \in Workers |-> {}]
    /\ faults = 0

Fault == faults < MaxFaults /\ faults' = faults + 1

Active(r) == runs[r].status \in ActiveStatus
Terminal(r) == r \in Created /\ runs[r].status \in FinalStatus

\* Mutant: the ownership predicate forgets the status.
HeldBy(w, r) == runs[r].worker = w

\* The predicate of UpsertResult, Complete, Fail and Cancel.
Owns(w, r) == runs[r].worker = w /\ runs[r].status \in {"running", "cancel_requested"}

SetStatus(r, status) == runs' = [runs EXCEPT ![r].status = status, ![r].stale = FALSE]

-----------------------------------------------------------------------------
(* Requests of the gateway                                                 *)

\* The unique index over active runs answers 409 to a second one.
Create(c) ==
    LET r == Cardinality(Created) + 1
    IN  /\ r <= NumRuns
        /\ \A q \in Created : runs[q].channel = c => Terminal(q)
        /\ runs' = [q \in 1..r |->
                      IF q \in Created THEN runs[q]
                      ELSE [channel |-> c, status |-> "queued", attempts |-> 0,
                            worker |-> Nobody, stale |-> FALSE]]
        /\ UNCHANGED <<results, execs, process, scan, faults>>

RequestCancel(r) ==
    /\ \/ runs[r].status = "queued" /\ SetStatus(r, "cancelled")
       \/ runs[r].status = "running" /\ runs' = [runs EXCEPT ![r].status = "cancel_requested"]
    /\ UNCHANGED <<results, execs, process, scan, faults>>

-----------------------------------------------------------------------------
(* The worker loop: claim and recover, one at a time                       *)

Claimable == {r \in Created : runs[r].status = "queued"}
Executing(w) == {e \in execs : e.worker = w}

Looping(w) == process[w] = "up" /\ scan[w] = {}

\* Reading the claimed row back may fail after the commit: nobody executes it.
ClaimNext(w) ==
    /\ Looping(w)
    /\ Cardinality(Executing(w)) < MaxConcurrent
    /\ \E r \in Claimable :
          /\ \A q \in Claimable : r <= q
          /\ runs' = [runs EXCEPT ![r].status = "running", ![r].worker = w,
                                  ![r].attempts = @ + 1, ![r].stale = FALSE]
          /\ \/ /\ execs' = execs \cup {[worker |-> w, run |-> r, next |-> 1, at |-> "check",
                                         attempt |-> runs[r].attempts + 1]}
                /\ UNCHANGED faults
             \/ Fault /\ UNCHANGED execs
    /\ UNCHANGED <<results, process, scan>>

\* Heartbeat refreshes a running row only: one whose cancellation was asked for
\* grows old under a living execution too.
Beating(r) ==
    /\ runs[r].status = "running"
    /\ \E e \in execs : e.run = r /\ e.worker = runs[r].worker
HeartbeatOld(r) == runs[r].stale \/ ~Beating(r)

\* The rows are locked only until the SELECT ends: it runs in no transaction.
RecoverScan(w) ==
    /\ Looping(w)
    /\ scan' = [scan EXCEPT ![w] =
          {[run |-> r, attempts |-> runs[r].attempts,
            cancel |-> runs[r].status = "cancel_requested"] :
              r \in {q \in Created : runs[q].status \in {"running", "cancel_requested"}
                                     /\ HeartbeatOld(q)}}]
    /\ scan'[w] # {}
    /\ UNCHANGED <<runs, results, execs, process, faults>>

OtherActive(r) == \E q \in Created \ {r} : runs[q].channel = runs[r].channel /\ Active(q)

\* Mutants: a run waiting for its cancellation is not treated; any run read as
\* stale is, whatever has become of it.
RecoveredStatusRunningOnly(read) ==
    LET status == runs[read.run].status
    IN  IF status # "running" THEN status
        ELSE IF read.attempts < MaxAttempts /\ ~OtherActive(read.run) THEN "queued"
        ELSE "expired"

RecoveredStatusUnchecked(read) ==
    IF read.cancel THEN "cancelled"
    ELSE IF read.attempts < MaxAttempts THEN "queued" ELSE "expired"

\* What the UPDATE chosen by the row read leaves: its WHERE asks for the
\* status read, and for nothing else the row said.
RecoveredStatus(read) ==
    LET status == runs[read.run].status
    IN  IF read.cancel THEN IF status = "cancel_requested" THEN "cancelled" ELSE status
        ELSE IF status # "running" THEN status
        ELSE IF read.attempts < MaxAttempts /\ ~OtherActive(read.run) THEN "queued"
        ELSE "expired"

RecoverStale(w) ==
    /\ process[w] = "up" /\ scan[w] # {}
    /\ scan' = [scan EXCEPT ![w] = {}]
    /\ \/ /\ runs' = [r \in Created |->
                LET reads == {s \in scan[w] : s.run = r}
                IN  IF \E s \in reads : RecoveredStatus(s) # runs[r].status
                    THEN [runs[r] EXCEPT !.status = RecoveredStatus(CHOOSE s \in reads : TRUE),
                                         !.worker = Nobody, !.stale = FALSE]
                    ELSE runs[r]]
          /\ UNCHANGED faults
       \/ Fault /\ UNCHANGED runs
    /\ UNCHANGED <<results, execs, process>>

-----------------------------------------------------------------------------
(* An execution                                                            *)

Ends(e) == execs' = execs \ {e}
Goes(e, to) == execs' = (execs \ {e}) \cup {to}

\* CancelIfRequested before each stage.
CheckCancel(e) ==
    /\ e.at = "check"
    /\ IF runs[e.run].worker = e.worker /\ runs[e.run].status = "cancel_requested"
       THEN SetStatus(e.run, "cancelled") /\ Ends(e)
       ELSE UNCHANGED runs /\ Goes(e, [e EXCEPT !.at = "stage"])
    /\ UNCHANGED <<results, process, scan, faults>>

\* Mutant: one stage too many.
AfterStageOffByOne(e) ==
    [e EXCEPT !.next = @ + 1, !.at = IF e.next > NumStages THEN "end" ELSE "check"]

AfterStage(e) == [e EXCEPT !.next = @ + 1, !.at = IF e.next = NumStages THEN "end" ELSE "check"]

\* UpsertResult: lost ownership ends the execution, a database error is only
\* logged.
StageDone(e) ==
    /\ e.at = "stage"
    /\ \/ /\ Owns(e.worker, e.run)
          /\ results' = [results EXCEPT ![e.run][e.next] = e.attempt]
          /\ Goes(e, AfterStage(e)) /\ UNCHANGED faults
       \/ /\ ~Owns(e.worker, e.run)
          /\ Ends(e) /\ UNCHANGED <<results, faults>>
       \/ Fault /\ Goes(e, AfterStage(e)) /\ UNCHANGED results
    /\ UNCHANGED <<runs, process, scan>>

Complete(e) ==
    /\ e.at = "end"
    /\ Ends(e)
    /\ IF Owns(e.worker, e.run) THEN SetStatus(e.run, "completed") ELSE UNCHANGED runs
    /\ UNCHANGED <<results, process, scan, faults>>

\* The channel cannot be loaded or resolved, or a database call of the
\* execution fails: cancelled if that was asked for in time, else failed; an
\* error there too leaves the row as it is.
GiveUp(e) ==
    /\ Fault
    /\ Ends(e)
    /\ \/ /\ Owns(e.worker, e.run)
          /\ \/ SetStatus(e.run, "failed")
             \/ runs[e.run].status = "cancel_requested" /\ SetStatus(e.run, "cancelled")
       \/ UNCHANGED runs
    /\ UNCHANGED <<results, process, scan>>

Heartbeat(e) ==
    /\ runs[e.run].worker = e.worker /\ runs[e.run].status = "running"
    /\ runs[e.run].stale
    /\ runs' = [runs EXCEPT ![e.run].stale = FALSE]
    /\ UNCHANGED <<results, execs, process, scan, faults>>

Execution(e) == CheckCancel(e) \/ StageDone(e) \/ Complete(e)

-----------------------------------------------------------------------------
(* Processes and time                                                      *)

\* Whatever crashes, some process is left or started in its place.
Crash(w) ==
    /\ Fault
    /\ process[w] = "up"
    /\ \E v \in Workers \ {w} : process[v] # "dead"
    /\ process' = [process EXCEPT ![w] = "dead"]
    /\ scan' = [scan EXCEPT ![w] = {}]
    /\ execs' = execs \ Executing(w)
    /\ UNCHANGED <<runs, results>>

\* The process, or its way to the database, stops for StaleAfter and goes on.
Suspend(w) ==
    /\ Fault
    /\ process[w] = "up"
    /\ runs' = [r \in Created |->
          IF Owns(w, r) THEN [runs[r] EXCEPT !.stale = TRUE] ELSE runs[r]]
    /\ UNCHANGED <<results, execs, process, scan>>

Next ==
    \/ \E c \in Channels : Create(c)
    \/ \E r \in Created : RequestCancel(r)
    \/ \E w \in Workers :
          ClaimNext(w) \/ RecoverScan(w) \/ RecoverStale(w) \/ Crash(w) \/ Suspend(w)
    \/ \E e \in execs : Execution(e) \/ GiveUp(e) \/ Heartbeat(e)

Spec == Init /\ [][Next]_vars

\* The loop of a live process goes on claiming and recovering, executions go
\* on (every upstream call has a timeout).
\* Strong fairness of claim and recovery: both tickers of the loop fire again
\* and again, whichever of them the loop takes first.
ExecutionStep == \E e \in execs : Execution(e)
Fairness ==
    /\ \A w \in Workers :
          WF_vars(RecoverStale(w)) /\ SF_vars(ClaimNext(w)) /\ SF_vars(RecoverScan(w))
    /\ WF_vars(ExecutionStep)

FairSpec == Spec /\ Fairness

-----------------------------------------------------------------------------
(* Properties                                                              *)

\* No channel has two active runs although only INSERT is guarded against it:
\* the requeue of RecoverStale never collides with the unique index, which
\* would undo its whole transaction (repository.go 433-459).
OneActivePerChannel ==
    \A r, q \in Created : r # q /\ runs[r].channel = runs[q].channel => Terminal(r) \/ Terminal(q)

\* What a run came to is final: neither an execution that lost it nor a
\* recovery that read it earlier changes its status or its results
\* (repository.go 242-274, 349-380, 428-488).
FinalIsFinal ==
    [][\A r \in Created : Terminal(r) =>
          runs'[r].status = runs[r].status /\ results'[r] = results[r]]_vars

\* A cancellation that was accepted is never undone: the run is not executed
\* again, whatever recovery had read before (repository.go 300-331, 455).
CancelSticks ==
    [][\A r \in Created : runs[r].status \in {"cancel_requested", "cancelled"} =>
          runs'[r].status \notin {"queued", "running"}]_vars

\* Every run comes to an end, across crashes, suspensions, cancellations and
\* failed writes (worker.go 52-55, repository.go 392-400).
EveryRunEnds == \A r \in Runs : [](r \in Created => <>Terminal(r))

\* "a run that was recovered may not go on writing results"
\* (repository.go 243-244): results come from the latest attempt.
ResultsOfLatestAttempt ==
    [][\A r \in Created, s \in Stages :
          results'[r][s] # results[r][s] => results'[r][s] = runs[r].attempts]_vars
=============================================================================
