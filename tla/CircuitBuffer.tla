--------------------------- MODULE CircuitBuffer ---------------------------
(***************************************************************************)
(* The asynchronous buffer between the proxy and the database              *)
(* (internal/api/circuit_buffer.go) and the shutdown of the gateway that   *)
(* ends it (cmd/gateway/main.go).  A sample stands for one request_history *)
(* row and the circuit update that goes with it; "applied" is the order in *)
(* which transactions committed them.                                      *)
(***************************************************************************)
EXTENDS Naturals, Sequences, FiniteSets, SequencesExt

CONSTANTS
    Samples,     \* samples of the finished requests
    QueueSize,   \* circuitBufferSize
    BatchSize,   \* circuitFlushBatch
    MaxFaults    \* bound: database errors

ASSUME SizeAssumption ==
    QueueSize \in Nat \ {0} /\ BatchSize \in Nat \ {0} /\ MaxFaults \in Nat

VARIABLES
    queue,     \* the channel b.q
    batch,     \* samples the worker has received and not flushed
    worker,    \* where the worker is: see WorkerStates
    phase,     \* which part of run() it is in: see Phases
    written,   \* samples the open transaction of the batch has written
    caller,    \* per sample, the request that produced it
    applied,   \* committed samples, in commit order
    lost,      \* samples the log reports lost
    doubtful,  \* samples of a batch whose commit took effect and reported an error
    server,    \* the gateway process
    faults     \* database errors so far

workerVars == <<batch, worker, phase, written>>
dbVars == <<applied, lost, doubtful, faults>>
vars == <<queue, workerVars, caller, dbVars, server>>

\* Waiting in select; writing the batch in one transaction; replaying it
\* sample by sample; gone.
WorkerStates == {"select", "write", "replay", "gone"}

\* The main loop; the drain after done was closed; its last flush.
Phases == {"serving", "draining", "last"}

TypeOK ==
    /\ queue \in Seq(Samples) /\ Len(queue) <= QueueSize
    /\ batch \in Seq(Samples) /\ Len(batch) <= BatchSize
    /\ worker \in WorkerStates
    /\ phase \in Phases
    /\ written \in 0..BatchSize
    /\ caller \in [Samples -> {"busy", "sync", "done"}]
    /\ applied \in Seq(Samples)
    /\ lost \subseteq Samples
    /\ doubtful \subseteq Samples
    /\ server \in {"up", "closed", "exited"}
    /\ faults \in 0..MaxFaults

Init ==
    /\ queue = <<>> /\ batch = <<>>
    /\ worker = "select" /\ phase = "serving" /\ written = 0
    /\ caller = [s \in Samples |-> "busy"]
    /\ applied = <<>> /\ lost = {} /\ doubtful = {}
    /\ server = "up" /\ faults = 0

Running == server # "exited"

Fault == faults < MaxFaults /\ faults' = faults + 1

-----------------------------------------------------------------------------
(* The database: one transaction over the samples in S, in order           *)

Commit(S) == applied' = applied \o S /\ UNCHANGED <<lost, doubtful, faults>>
RollBack(missed) == Fault /\ lost' = lost \cup missed /\ UNCHANGED <<applied, doubtful>>

\* The commit took effect and its answer was lost; a batch is then replayed.
CommitInDoubt(S, replayed) ==
    /\ Fault
    /\ applied' = applied \o S
    /\ doubtful' = doubtful \cup replayed
    /\ UNCHANGED lost

\* flushSync: a transaction of its own for one sample, logged when it fails.
FlushSync(s) == Commit(<<s>>) \/ RollBack({s}) \/ CommitInDoubt(<<s>>, {})

-----------------------------------------------------------------------------
(* The callers                                                             *)

Enqueue(s) ==
    /\ server = "up" /\ caller[s] = "busy"
    /\ \/ /\ Len(queue) < QueueSize
          /\ queue' = Append(queue, s)
          /\ caller' = [caller EXCEPT ![s] = "done"]
       \/ /\ Len(queue) >= QueueSize
          /\ caller' = [caller EXCEPT ![s] = "sync"]
          /\ UNCHANGED queue
    /\ UNCHANGED <<workerVars, dbVars, server>>

SyncByCaller(s) ==
    /\ Running /\ caller[s] = "sync"
    /\ FlushSync(s)
    /\ caller' = [caller EXCEPT ![s] = "done"]
    /\ UNCHANGED <<queue, workerVars, server>>

-----------------------------------------------------------------------------
(* The worker                                                              *)

\* flush of an empty batch returns at once.
AfterFlush == IF phase = "last" THEN "gone" ELSE "select"
StartFlush(b) == IF b = <<>> THEN "select" ELSE "write"

Selecting == Running /\ worker = "select"

Receive ==
    /\ Selecting /\ queue # <<>>
    /\ batch' = Append(batch, Head(queue))
    /\ queue' = Tail(queue)
    /\ worker' = IF Len(batch') >= BatchSize THEN "write" ELSE "select"
    /\ UNCHANGED <<phase, written, caller, dbVars, server>>

FlushTick ==
    /\ Selecting /\ phase = "serving" /\ batch # <<>>
    /\ worker' = "write"
    /\ UNCHANGED <<queue, batch, phase, written, caller, dbVars, server>>

SeeDone ==
    /\ Selecting /\ phase = "serving" /\ server = "closed"
    /\ phase' = "draining"
    /\ worker' = StartFlush(batch)
    /\ UNCHANGED <<queue, batch, written, caller, dbVars, server>>

LastFlush ==
    /\ Selecting /\ phase = "draining" /\ queue = <<>>
    /\ phase' = "last"
    /\ worker' = IF batch = <<>> THEN "gone" ELSE "write"
    /\ UNCHANGED <<queue, batch, written, caller, dbVars, server>>

Writing == Running /\ worker = "write"

\* Each sample is written before the next; a transaction that could not begin
\* fails at its first write.
WriteSample ==
    /\ Writing /\ written < Len(batch)
    /\ written' = written + 1
    /\ UNCHANGED <<queue, batch, worker, phase, caller, dbVars, server>>

Flushed == batch' = <<>> /\ written' = 0 /\ worker' = AfterFlush
Fallback == batch' = batch /\ written' = 0 /\ worker' = "replay"

\* Mutant: the batch is not reset after a commit.
CommitKeepingBatch ==
    /\ Writing /\ written = Len(batch)
    /\ Commit(batch)
    /\ batch' = batch /\ written' = 0 /\ worker' = AfterFlush
    /\ UNCHANGED <<queue, phase, caller, server>>

CommitBatch ==
    /\ Writing /\ written = Len(batch)
    /\ \/ Commit(batch) /\ Flushed
       \/ CommitInDoubt(batch, ToSet(batch)) /\ Fallback
    /\ UNCHANGED <<queue, phase, caller, server>>

\* Mutant: a batch that cannot be written is thrown away.
DropBatch ==
    /\ Writing
    /\ RollBack({}) /\ Flushed
    /\ UNCHANGED <<queue, phase, caller, server>>

\* begin, a statement or the commit fails and nothing of the batch stays.
FailBatch ==
    /\ Writing
    /\ RollBack({}) /\ Fallback
    /\ UNCHANGED <<queue, phase, caller, server>>

\* Mutant: the replay starts from the newest sample.
ReplayNewestFirst ==
    /\ Running /\ worker = "replay"
    /\ FlushSync(Last(batch))
    /\ batch' = Front(batch)
    /\ worker' = IF batch' = <<>> THEN AfterFlush ELSE "replay"
    /\ UNCHANGED <<queue, phase, written, caller, server>>

Replay ==
    /\ Running /\ worker = "replay"
    /\ FlushSync(Head(batch))
    /\ batch' = Tail(batch)
    /\ worker' = IF batch' = <<>> THEN AfterFlush ELSE "replay"
    /\ UNCHANGED <<queue, phase, written, caller, server>>

-----------------------------------------------------------------------------
(* The process                                                             *)

\* srv.Shutdown returned because no handler runs any more: Close.
Close ==
    /\ server = "up"
    /\ \A s \in Samples : caller[s] # "sync"
    /\ server' = "closed"
    /\ UNCHANGED <<queue, workerVars, caller, dbVars>>

\* main returns right after Close; or handlers outlive the ten seconds of
\* srv.Shutdown and the process ends without it.
Exit ==
    /\ Running
    /\ server' = "exited"
    /\ UNCHANGED <<queue, workerVars, caller, dbVars>>

Worker ==
    Receive \/ FlushTick \/ SeeDone \/ LastFlush \/ WriteSample
       \/ CommitBatch \/ FailBatch \/ Replay

Next ==
    \/ \E s \in Samples : Enqueue(s) \/ SyncByCaller(s)
    \/ Worker
    \/ Close
    \/ Exit

Spec == Init /\ [][Next]_vars

\* The worker goroutine is scheduled, its ticker fires and every database call
\* ends (ten and five second timeouts).
FairSpec == Spec /\ WF_vars(Worker)

-----------------------------------------------------------------------------
(* Properties                                                              *)

Settled(s) == s \in lost \/ s \in ToSet(applied)

\* The buffer keeps the promise of SampleLog: first come first served for the
\* queued samples whatever fails, nothing dropped in silence while the process
\* runs (circuit_buffer.go 5-10). What waits is the batch and the queue behind
\* it; a batch whose commit is in doubt is settled, its replay only repeats it.
Line == IF ToSet(batch) \subseteq doubtful THEN queue ELSE batch \o queue
Outcome ==
    [s \in Samples |->
        CASE s \in ToSet(applied) -> "applied"
          [] s \in lost \ ToSet(applied) -> "lost"
          [] s \in ToSet(Line) \ (lost \cup ToSet(applied)) -> "waiting"
          [] OTHER -> "new"]
Promise == INSTANCE SampleLog WITH line <- Line, outcome <- Outcome
KeepsPromise == Promise!Spec

\* A sample counts twice in the window the circuit is judged by only when the
\* batch that carried it committed and its answer was lost
\* (circuit_buffer.go 160-163): the replay is the only second writer, and it
\* writes once.
Times(s) == Cardinality({i \in 1..Len(applied) : applied[i] = s})
CountedOnce == \A s \in Samples : Times(s) <= IF s \in doubtful THEN 2 ELSE 1

\* A queued sample is applied or reported lost, by the worker or by the drain
\* after Close, unless the process ends first (circuit_buffer.go 97-122).
QueuedSettles == \A s \in Samples : (caller[s] = "done" /\ Running) ~> (Settled(s) \/ ~Running)

\* "Close() drains the rest of the queue, a graceful shutdown loses no audit
\* sample" (circuit_buffer.go 10).
\* Close was called exactly when server passed through "closed".
GracefulExitLosesNothing ==
    [][server = "closed" /\ server' = "exited" => Line = <<>>]_vars
=============================================================================
