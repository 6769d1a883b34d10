-------------------------- MODULE QualityQueueProofs --------------------------
(***************************************************************************)
(* Theorems about the queue of quality checks, for any channels, workers,  *)
(* runs, stages, attempts and faults: one active run per channel, final    *)
(* runs stay what they are, cancellations are not undone.                  *)
(***************************************************************************)
EXTENDS QualityQueue, FiniteSetTheorems, TLAPS

Status == ActiveStatus \cup FinalStatus
Cancelling == {"cancel_requested", "cancelled"}

\* Runs are numbered in creation order, and what refers to a run refers to one
\* that exists.
Table == \E n \in 0..NumRuns : Created = 1..n
Placed(e) == e.run \in Created /\ (e.at # "end" => e.next <= NumStages)
Referring ==
    /\ \A e \in execs : Placed(e)
    /\ \A w \in Workers : \A s \in scan[w] : s.run \in Created
Shaped ==
    /\ Table
    /\ runs \in [Created -> Run]
    /\ results \in [Runs -> [Stages -> Nat]]
    /\ execs \subseteq Exec
    /\ process \in [Workers -> {"up", "dead"}]
    /\ scan \in [Workers -> SUBSET StaleRead]
    /\ faults \in 0..MaxFaults
    /\ Referring

QueueInv == Shaped /\ OneActivePerChannel

LEMMA ShapedIsType == Shaped => TypeOK
BY DEF Shaped, Table, TypeOK

\* What every step but the creation of a run does to the runs: each keeps its
\* channel, a final one its status, a cancelled one stays out of the queue.
Keeps(old, new) ==
    /\ new \in Run /\ new.channel = old.channel
    /\ old.status \in FinalStatus => new.status = old.status
    /\ old.status \in Cancelling => new.status \notin {"queued", "running"}
RunsKept == runs' \in [Created -> Run] /\ \A r \in Created : Keeps(runs[r], runs'[r])

\* Results of a final run are not written again.
ResultsKept ==
    /\ results' \in [Runs -> [Stages -> Nat]]
    /\ \A r \in Created : Terminal(r) => results'[r] = results[r]

\* Executions that go on, or are fewer, refer to the same runs.
ExecsKept ==
    /\ execs' \subseteq Exec
    /\ \A e \in execs' : e \in execs \/ (e.run \in Created /\ (e.at # "end" => e.next <= NumStages))

LEMMA NoRunChanges ==
  ASSUME Shaped, UNCHANGED runs
  PROVE  RunsKept
  BY DEF Shaped, RunsKept, Keeps, Run, Status, ActiveStatus, FinalStatus, Cancelling

LEMMA OneRunChanges ==
  ASSUME Shaped, NEW r \in Created, NEW x, Keeps(runs[r], x), runs' = [runs EXCEPT ![r] = x]
  PROVE  RunsKept
<1>1. \A q \in Created : Keeps(runs[q], runs[q])
  BY DEF Shaped, Keeps, Run, Status, ActiveStatus, FinalStatus, Cancelling
<1>2. x \in Run  BY DEF Keeps
<1> QED  BY <1>1, <1>2 DEF Shaped, RunsKept

\* A run with another status is a run.
LEMMA RunWith ==
  ASSUME NEW x \in Run, NEW s \in Status
  PROVE  LET y == [[x EXCEPT !.status = s] EXCEPT !.stale = FALSE]
         IN  y \in Run /\ y.status = s /\ y.channel = x.channel
  BY DEF Run, Status

LEMMA StatusSet ==
  ASSUME Shaped, NEW r \in Created, NEW s \in Status, SetStatus(r, s),
         runs[r].status \notin FinalStatus,
         runs[r].status \in Cancelling => s \notin {"queued", "running"}
  PROVE  RunsKept
<1> DEFINE x == [[runs[r] EXCEPT !.status = s] EXCEPT !.stale = FALSE]
<1>1. runs[r] \in Run  BY DEF Shaped
<1>2. x \in Run /\ x.status = s /\ x.channel = runs[r].channel  BY <1>1, RunWith
<1>3. runs' = [runs EXCEPT ![r] = x]  BY <1>1 DEF SetStatus, Shaped
<1> HIDE DEF x
<1>4. Keeps(runs[r], x)  BY <1>2 DEF Keeps
<1> QED  BY <1>3, <1>4, OneRunChanges

-----------------------------------------------------------------------------
LEMMA InitKeeps == Init => QueueInv
<1> SUFFICES ASSUME Init PROVE QueueInv  OBVIOUS
<1>1. Created = {}  BY DEF Init, Created
<1>2. Table
  <2>1. 0 \in 0..NumRuns /\ 1..0 = {}  BY QueueAssumption
  <2> QED  BY <1>1, <2>1 DEF Table
<1>3. runs \in [Created -> Run]  BY <1>1 DEF Init
<1>4. results \in [Runs -> [Stages -> Nat]] /\ process \in [Workers -> {"up", "dead"}] /\ faults \in 0..MaxFaults
  BY QueueAssumption DEF Init
<1>5. execs = {} /\ scan \in [Workers -> SUBSET StaleRead] /\ \A w \in Workers : scan[w] = {}
  BY DEF Init
<1>6. Shaped  BY <1>2, <1>3, <1>4, <1>5 DEF Shaped, Referring
<1>7. OneActivePerChannel  BY <1>1 DEF OneActivePerChannel
<1> QED  BY <1>6, <1>7 DEF QueueInv

LEMMA ActiveOrTerminal ==
  ASSUME Shaped, NEW r \in Created
  PROVE  Terminal(r) <=> ~Active(r)
  BY DEF Shaped, Terminal, Active, Run, ActiveStatus, FinalStatus

\* Claim, recovery and cancellation.
LEMMA CancelRequestKeeps ==
  ASSUME Shaped, NEW r \in Created, RequestCancel(r)
  PROVE  RunsKept
<1>1. CASE runs[r].status = "queued" /\ SetStatus(r, "cancelled")
  BY <1>1, StatusSet DEF Status, ActiveStatus, FinalStatus, Cancelling
<1>2. CASE runs[r].status = "running" /\ runs' = [runs EXCEPT ![r].status = "cancel_requested"]
  <2> DEFINE x == [runs[r] EXCEPT !.status = "cancel_requested"]
  <2>1. runs[r] \in Run  BY DEF Shaped
  <2>2. x \in Run /\ x.status = "cancel_requested" /\ x.channel = runs[r].channel
    BY <2>1 DEF Run, ActiveStatus
  <2>3. runs' = [runs EXCEPT ![r] = x]  BY <1>2
  <2> HIDE DEF x
  <2>4. Keeps(runs[r], x)  BY <1>2, <2>2 DEF Keeps, FinalStatus, Cancelling
  <2> QED  BY <2>3, <2>4, OneRunChanges
<1> QED  BY <1>1, <1>2 DEF RequestCancel

LEMMA ClaimKeeps ==
  ASSUME Shaped, NEW w \in Workers, ClaimNext(w)
  PROVE  RunsKept /\ ExecsKept /\ faults' \in 0..MaxFaults
<1>1. PICK r \in Claimable :
        /\ runs' = [runs EXCEPT ![r].status = "running", ![r].worker = w,
                                ![r].attempts = @ + 1, ![r].stale = FALSE]
        /\ \/ /\ execs' = execs \cup {[worker |-> w, run |-> r, next |-> 1, at |-> "check",
                                       attempt |-> runs[r].attempts + 1]}
              /\ UNCHANGED faults
           \/ Fault /\ UNCHANGED execs
  BY DEF ClaimNext
<1>2. r \in Created /\ runs[r].status = "queued" /\ runs[r] \in Run /\ runs[r].attempts \in Nat
      /\ runs[r].attempts + 1 \in Nat
  BY DEF Claimable, Shaped, Run
<1> DEFINE n == runs[r].attempts + 1
           x == [runs[r] EXCEPT !.status = "running", !.worker = w, !.attempts = n, !.stale = FALSE]
<1>3. RunsKept
  <2>1. runs' = [runs EXCEPT ![r] = x]  BY <1>1, <1>2 DEF Shaped
  <2>2. n \in Nat  BY <1>2
  <2> HIDE DEF n
  <2>3. x \in Run /\ x.status = "running" /\ x.channel = runs[r].channel
    BY <1>2, <2>2 DEF Run, ActiveStatus
  <2> HIDE DEF x
  <2>4. Keeps(runs[r], x)  BY <1>2, <2>3 DEF Keeps, FinalStatus, Cancelling
  <2> QED  BY <1>2, <2>1, <2>4, OneRunChanges
<1>4. r \in Runs
  BY <1>2, QueueAssumption DEF Shaped, Table, Runs
<1>5. ExecsKept
  <2> DEFINE e == [worker |-> w, run |-> r, next |-> 1, at |-> "check", attempt |-> n]
  <2>1. 1 \in 1..(NumStages + 1) /\ 1 <= NumStages  BY QueueAssumption
  <2>2. n \in Nat  BY <1>2
  <2>3. execs' \subseteq execs \cup {e}  BY <1>1
  <2> HIDE DEF n
  <2>4. e \in Exec /\ e.run = r /\ e.next = 1  BY <1>4, <2>1, <2>2 DEF Exec
  <2> HIDE DEF e
  <2> QED  BY <1>2, <2>1, <2>3, <2>4 DEF ExecsKept, Shaped
<1>6. faults' \in 0..MaxFaults  BY <1>1, QueueAssumption DEF Shaped, Fault
<1> QED  BY <1>3, <1>5, <1>6

\* What recovery makes of a run: a final one stays, a cancelled one stays out of
\* the queue, whatever the row said when it was read.
LEMMA Recovered ==
  ASSUME Shaped, NEW s, s.run \in Created
  PROVE  LET old == runs[s.run].status
         IN  /\ RecoveredStatus(s) \in Status
             /\ old \in FinalStatus => RecoveredStatus(s) = old
             /\ old \in Cancelling => RecoveredStatus(s) \notin {"queued", "running"}
<1>1. runs[s.run].status \in Status  BY DEF Shaped, Run, Status
<1> QED  BY <1>1 DEF RecoveredStatus, Status, ActiveStatus, FinalStatus, Cancelling

LEMMA RecoverKeeps ==
  ASSUME Shaped, NEW w \in Workers, RecoverStale(w)
  PROVE  RunsKept /\ faults' \in 0..MaxFaults
<1>1. faults' \in 0..MaxFaults
  <2>1. UNCHANGED faults \/ Fault  BY DEF RecoverStale
  <2> QED  BY <2>1, QueueAssumption DEF Shaped, Fault
<1>2. CASE UNCHANGED runs  BY <1>1, <1>2, NoRunChanges
<1> DEFINE reads(r) == {s \in scan[w] : s.run = r}
           new(r) == IF \E s \in reads(r) : RecoveredStatus(s) # runs[r].status
                     THEN [runs[r] EXCEPT !.status = RecoveredStatus(CHOOSE s \in reads(r) : TRUE),
                                          !.worker = Nobody, !.stale = FALSE]
                     ELSE runs[r]
<1>3. CASE runs' = [r \in Created |-> new(r)]
  <2>1. ASSUME NEW r \in Created PROVE Keeps(runs[r], new(r))
    <3>1. runs[r] \in Run  BY DEF Shaped
    <3>2. CASE ~ \E s \in reads(r) : RecoveredStatus(s) # runs[r].status
      <4>1. new(r) = runs[r]  BY <3>2
      <4> HIDE DEF new
      <4> QED
        BY <3>1, <4>1 DEF Keeps, Run, Status, ActiveStatus, FinalStatus, Cancelling
    <3>3. CASE \E s \in reads(r) : RecoveredStatus(s) # runs[r].status
      <4> DEFINE c == CHOOSE s \in reads(r) : TRUE
                 status == RecoveredStatus(c)
                 x == [runs[r] EXCEPT !.status = status, !.worker = Nobody, !.stale = FALSE]
      <4>1. c.run = r  BY <3>3
      <4>2. /\ status \in Status
            /\ runs[r].status \in FinalStatus => status = runs[r].status
            /\ runs[r].status \in Cancelling => status \notin {"queued", "running"}
        BY <4>1, Recovered
      <4>3. new(r) = x  BY <3>3
      <4> HIDE DEF status
      <4>4. x \in Run /\ x.status = status /\ x.channel = runs[r].channel
        BY <3>1, <4>2 DEF Run, Status
      <4> HIDE DEF new, x
      <4> QED  BY <4>2, <4>3, <4>4 DEF Keeps
    <3> QED  BY <3>2, <3>3
  <2> HIDE DEF new
  <2>2. runs' \in [Created -> Run]  BY <1>3, <2>1 DEF Keeps
  <2> QED  BY <1>1, <1>3, <2>1, <2>2 DEF RunsKept
<1> QED  BY <1>2, <1>3 DEF RecoverStale

-----------------------------------------------------------------------------
\* An execution. Only who holds the run, and while it is active, changes it.
LEMMA OwnedIsActive ==
  ASSUME NEW w, NEW r, Owns(w, r)
  PROVE  runs[r].status \notin FinalStatus /\ runs[r].status \notin {"queued", "cancelled"}
  BY DEF Owns, FinalStatus

LEMMA CheckKeeps ==
  ASSUME Shaped, NEW e \in execs, CheckCancel(e)
  PROVE  RunsKept /\ ExecsKept
<1>1. e \in Exec /\ e.run \in Created /\ e.next <= NumStages
  BY DEF Shaped, Referring, Placed, CheckCancel
<1>2. CASE runs[e.run].status = "cancel_requested" /\ SetStatus(e.run, "cancelled") /\ Ends(e)
  <2>1. RunsKept
    BY <1>1, <1>2, StatusSet DEF Status, ActiveStatus, FinalStatus, Cancelling
  <2> QED  BY <1>2, <2>1 DEF Ends, ExecsKept, Shaped
<1>3. CASE UNCHANGED runs /\ Goes(e, [e EXCEPT !.at = "stage"])
  <2> DEFINE x == [e EXCEPT !.at = "stage"]
  <2>1. x \in Exec /\ x.run = e.run /\ x.next = e.next  BY <1>1 DEF Exec
  <2>2. execs' = (execs \ {e}) \cup {x}  BY <1>3 DEF Goes
  <2> HIDE DEF x
  <2>3. ExecsKept  BY <1>1, <2>1, <2>2 DEF ExecsKept, Shaped
  <2> QED  BY <1>3, <2>3, NoRunChanges
<1> QED  BY <1>2, <1>3 DEF CheckCancel

LEMMA StageKeeps ==
  ASSUME Shaped, NEW e \in execs, StageDone(e)
  PROVE  RunsKept /\ ExecsKept /\ ResultsKept /\ faults' \in 0..MaxFaults
<1>1. e \in Exec /\ e.run \in Created /\ e.next \in 1..NumStages /\ e.attempt \in Nat /\ e.run \in Runs
  BY QueueAssumption DEF Shaped, Referring, Placed, StageDone, Exec
<1>2. RunsKept  BY NoRunChanges DEF StageDone
<1>3. ExecsKept
  <2> DEFINE x == AfterStage(e)
  <2>1. x \in Exec /\ x.run = e.run /\ (x.at # "end" => x.next <= NumStages)
    <3>1. e.next + 1 \in 1..(NumStages + 1)  BY <1>1, QueueAssumption
    <3>2. CASE e.next = NumStages
      <4>1. x = [e EXCEPT !.next = e.next + 1, !.at = "end"]  BY <3>2 DEF AfterStage
      <4>2. \A n \in 1..(NumStages + 1) : LET y == [e EXCEPT !.next = n, !.at = "end"]
                                          IN  y \in Exec /\ y.run = e.run /\ y.at = "end"
        BY <1>1 DEF Exec
      <4> HIDE DEF x
      <4> QED  BY <3>1, <4>1, <4>2
    <3>3. CASE e.next # NumStages
      <4>1. x = [e EXCEPT !.next = e.next + 1, !.at = "check"]  BY <3>3 DEF AfterStage
      <4>2. \A n \in 1..(NumStages + 1) : LET y == [e EXCEPT !.next = n, !.at = "check"]
                                          IN  y \in Exec /\ y.run = e.run /\ y.next = n
        BY <1>1 DEF Exec
      <4>3. e.next + 1 <= NumStages  BY <1>1, <3>3, QueueAssumption
      <4> HIDE DEF x
      <4> QED  BY <3>1, <4>1, <4>2, <4>3
    <3> QED  BY <3>2, <3>3
  <2>2. execs' = execs \ {e} \/ execs' = (execs \ {e}) \cup {x}
    BY DEF StageDone, Ends, Goes
  <2> HIDE DEF x
  <2> QED  BY <1>1, <2>1, <2>2 DEF ExecsKept, Shaped
<1>4. ResultsKept
  <2>1. CASE UNCHANGED results  BY <2>1 DEF ResultsKept, Shaped
  <2>2. CASE Owns(e.worker, e.run) /\ results' = [results EXCEPT ![e.run][e.next] = e.attempt]
    <3>1. ~Terminal(e.run)  BY <2>2, OwnedIsActive DEF Terminal
    <3>2. e.next \in Stages  BY <1>1 DEF Stages
    <3>3. results' \in [Runs -> [Stages -> Nat]]  BY <1>1, <2>2, <3>2 DEF Shaped
    <3>4. \A r \in Created : r # e.run => results'[r] = results[r]
      BY <1>1, <2>2, QueueAssumption DEF Shaped, Table, Runs
    <3> QED  BY <3>1, <3>3, <3>4 DEF ResultsKept
  <2> QED  BY <2>1, <2>2 DEF StageDone
<1>5. faults' \in 0..MaxFaults
  <2>1. UNCHANGED faults \/ Fault  BY DEF StageDone
  <2> QED  BY <2>1, QueueAssumption DEF Shaped, Fault
<1> QED  BY <1>2, <1>3, <1>4, <1>5

LEMMA EndKeeps ==
  ASSUME Shaped, NEW e \in execs, Complete(e) \/ GiveUp(e)
  PROVE  RunsKept /\ ExecsKept /\ faults' \in 0..MaxFaults
<1>1. e.run \in Created  BY DEF Shaped, Referring, Placed
<1>2. ExecsKept  BY DEF Complete, GiveUp, Ends, ExecsKept, Shaped
<1>3. UNCHANGED runs \/ (Owns(e.worker, e.run) /\
         \/ SetStatus(e.run, "completed") \/ SetStatus(e.run, "failed")
         \/ SetStatus(e.run, "cancelled"))
  BY DEF Complete, GiveUp
<1>4. RunsKept
  <2>1. CASE UNCHANGED runs  BY <2>1, NoRunChanges
  <2>2. CASE Owns(e.worker, e.run)
    <3>1. runs[e.run].status \notin FinalStatus  BY <2>2, OwnedIsActive
    <3>2. {"completed", "failed", "cancelled"} \subseteq Status
      BY DEF Status, FinalStatus
    <3> QED  BY <1>1, <1>3, <2>1, <3>1, <3>2, StatusSet
  <2> QED  BY <1>3, <2>1, <2>2
<1>5. faults' \in 0..MaxFaults
  <2>1. UNCHANGED faults \/ Fault  BY DEF Complete, GiveUp
  <2> QED  BY <2>1, QueueAssumption DEF Shaped, Fault
<1> QED  BY <1>2, <1>4, <1>5

\* The flag of the heartbeat is nothing the properties see.
LEMMA StaleKeeps ==
  ASSUME Shaped, \/ \E e \in execs : Heartbeat(e)
                 \/ \E w \in Workers : Suspend(w)
  PROVE  RunsKept /\ faults' \in 0..MaxFaults
<1>1. \A x \in Run, b \in BOOLEAN : Keeps(x, [x EXCEPT !.stale = b])
  BY DEF Keeps, Run, Status, ActiveStatus, FinalStatus, Cancelling
<1>2. CASE \E e \in execs : Heartbeat(e)
  <2>1. PICK e \in execs : Heartbeat(e)  BY <1>2
  <2>2. e.run \in Created /\ runs[e.run] \in Run  BY DEF Shaped, Referring, Placed
  <2>3. Keeps(runs[e.run], [runs[e.run] EXCEPT !.stale = FALSE])  BY <1>1, <2>2
  <2>4. runs' = [runs EXCEPT ![e.run] = [runs[e.run] EXCEPT !.stale = FALSE]] /\ UNCHANGED faults
    BY <2>1 DEF Heartbeat
  <2> QED  BY <2>2, <2>3, <2>4, OneRunChanges DEF Shaped
<1>3. CASE \E w \in Workers : Suspend(w)
  <2>1. PICK w \in Workers : Suspend(w)  BY <1>3
  <2> DEFINE new(r) == IF Owns(w, r) THEN [runs[r] EXCEPT !.stale = TRUE] ELSE runs[r]
  <2>2. runs' = [r \in Created |-> new(r)]  BY <2>1 DEF Suspend
  <2>3. ASSUME NEW r \in Created PROVE Keeps(runs[r], new(r))
    <3>1. runs[r] \in Run  BY DEF Shaped
    <3>2. Keeps(runs[r], runs[r])
      BY <3>1 DEF Keeps, Run, Status, ActiveStatus, FinalStatus, Cancelling
    <3> QED  BY <1>1, <3>1, <3>2
  <2> HIDE DEF new
  <2>4. RunsKept  BY <2>2, <2>3 DEF RunsKept, Keeps
  <2>5. Fault  BY <2>1 DEF Suspend
  <2> QED  BY <2>4, <2>5, QueueAssumption DEF Shaped, Fault
<1> QED  BY <1>2, <1>3

-----------------------------------------------------------------------------
\* Rows read by recovery exist.
ScanKept ==
    /\ scan' \in [Workers -> SUBSET StaleRead]
    /\ \A w \in Workers : \A s \in scan'[w] : s.run \in Created

LEMMA ScanKeeps ==
  ASSUME Shaped, NEW w \in Workers, RecoverScan(w)
  PROVE  ScanKept
<1> DEFINE old == {q \in Created : runs[q].status \in {"running", "cancel_requested"} /\ HeartbeatOld(q)}
           read(r) == [run |-> r, attempts |-> runs[r].attempts, cancel |-> runs[r].status = "cancel_requested"]
           reads == {read(r) : r \in old}
<1>1. scan' = [scan EXCEPT ![w] = reads]  BY DEF RecoverScan
<1>2. ASSUME NEW r \in Created PROVE read(r) \in StaleRead /\ read(r).run \in Created
  <2>1. r \in Runs /\ runs[r].attempts \in Nat
    BY QueueAssumption DEF Shaped, Table, Runs, Run
  <2> QED  BY <1>2, <2>1 DEF StaleRead
<1> HIDE DEF read
<1>3. reads \in SUBSET StaleRead /\ \A s \in reads : s.run \in Created  BY <1>2
<1> HIDE DEF reads
<1>4. scan' \in [Workers -> SUBSET StaleRead]  BY <1>1, <1>3 DEF Shaped
<1>5. \A v \in Workers : scan'[v] = reads \/ scan'[v] = scan[v]  BY <1>1 DEF Shaped
<1> QED  BY <1>3, <1>4, <1>5 DEF ScanKept, Shaped, Referring

ProcessKept == process' \in [Workers -> {"up", "dead"}] /\ faults' \in 0..MaxFaults
EverythingKept == RunsKept /\ ResultsKept /\ ExecsKept /\ ScanKept /\ ProcessKept

LEMMA Rest ==
  ASSUME Shaped
  PROVE  /\ UNCHANGED results => ResultsKept
         /\ UNCHANGED execs => ExecsKept
         /\ UNCHANGED scan => ScanKept
         /\ UNCHANGED process => process' \in [Workers -> {"up", "dead"}]
         /\ UNCHANGED faults \/ Fault => faults' \in 0..MaxFaults
<1>1. UNCHANGED results => ResultsKept  BY DEF Shaped, ResultsKept
<1>2. UNCHANGED execs => ExecsKept  BY DEF Shaped, ExecsKept
<1>3. UNCHANGED scan => ScanKept  BY DEF Shaped, Referring, ScanKept
<1>4. UNCHANGED process => process' \in [Workers -> {"up", "dead"}]  BY DEF Shaped
<1>5. UNCHANGED faults \/ Fault => faults' \in 0..MaxFaults
  BY QueueAssumption DEF Shaped, Fault
<1> QED  BY <1>1, <1>2, <1>3, <1>4, <1>5

\* Every step but the creation of a run keeps everything.
LEMMA StepKeeps ==
  ASSUME Shaped, [Next]_vars, \A c \in Channels : ~Create(c)
  PROVE  EverythingKept
<1>1. ASSUME NEW r \in Created, RequestCancel(r) PROVE EverythingKept
  BY <1>1, CancelRequestKeeps, Rest DEF RequestCancel, EverythingKept, ProcessKept
<1>2. ASSUME NEW w \in Workers, ClaimNext(w) PROVE EverythingKept
  <2>1. UNCHANGED <<results, process, scan>>  BY <1>2 DEF ClaimNext
  <2> QED  BY <1>2, <2>1, ClaimKeeps, Rest DEF EverythingKept, ProcessKept
<1>3. ASSUME NEW w \in Workers, RecoverScan(w) PROVE EverythingKept
  <2>1. UNCHANGED <<runs, results, execs, process, faults>>  BY <1>3 DEF RecoverScan
  <2> QED  BY <1>3, <2>1, ScanKeeps, NoRunChanges, Rest DEF EverythingKept, ProcessKept
<1>4. ASSUME NEW w \in Workers, RecoverStale(w) PROVE EverythingKept
  <2>1. UNCHANGED <<results, execs, process>> /\ scan' = [scan EXCEPT ![w] = {}]
    BY <1>4 DEF RecoverStale
  <2>2. ScanKept  BY <2>1 DEF Shaped, Referring, ScanKept
  <2> QED  BY <1>4, <2>1, <2>2, RecoverKeeps, Rest DEF EverythingKept, ProcessKept
<1>5. ASSUME NEW w \in Workers, Crash(w) PROVE EverythingKept
  <2>1. /\ UNCHANGED <<runs, results>> /\ Fault /\ scan' = [scan EXCEPT ![w] = {}]
        /\ execs' = execs \ Executing(w) /\ process' = [process EXCEPT ![w] = "dead"]
    BY <1>5 DEF Crash
  <2>2. ScanKept  BY <2>1 DEF Shaped, Referring, ScanKept
  <2>3. ExecsKept  BY <2>1 DEF Shaped, ExecsKept
  <2>4. process' \in [Workers -> {"up", "dead"}]  BY <2>1 DEF Shaped
  <2> QED  BY <2>1, <2>2, <2>3, <2>4, NoRunChanges, Rest DEF EverythingKept, ProcessKept
<1>6. ASSUME (\E w \in Workers : Suspend(w)) \/ (\E e \in execs : Heartbeat(e))
      PROVE  EverythingKept
  <2>1. UNCHANGED <<results, execs, process, scan>>  BY <1>6 DEF Suspend, Heartbeat
  <2> QED  BY <1>6, <2>1, StaleKeeps, Rest DEF EverythingKept, ProcessKept
<1>7. ASSUME NEW e \in execs, CheckCancel(e) PROVE EverythingKept
  <2>1. UNCHANGED <<results, process, scan, faults>>  BY <1>7 DEF CheckCancel
  <2> QED  BY <1>7, <2>1, CheckKeeps, Rest DEF EverythingKept, ProcessKept
<1>8. ASSUME NEW e \in execs, StageDone(e) PROVE EverythingKept
  <2>1. UNCHANGED <<process, scan>>  BY <1>8 DEF StageDone
  <2> QED  BY <1>8, <2>1, StageKeeps, Rest DEF EverythingKept, ProcessKept
<1>9. ASSUME NEW e \in execs, Complete(e) \/ GiveUp(e) PROVE EverythingKept
  <2>1. UNCHANGED <<results, process, scan>>  BY <1>9 DEF Complete, GiveUp
  <2> QED  BY <1>9, <2>1, EndKeeps, Rest DEF EverythingKept, ProcessKept
<1>10. CASE UNCHANGED vars
  BY <1>10, NoRunChanges, Rest DEF vars, EverythingKept, ProcessKept
<1> QED
  BY <1>1, <1>2, <1>3, <1>4, <1>5, <1>6, <1>7, <1>8, <1>9, <1>10 DEF Next, Execution

LEMMA KeptIsShaped ==
  ASSUME QueueInv, EverythingKept
  PROVE  QueueInv'
<1>1. Created' = Created  BY DEF EverythingKept, RunsKept, Created
<1>2. Shaped'
  <2>1. Table'  BY <1>1 DEF QueueInv, Shaped, Table
  <2>2. Referring'
    BY <1>1 DEF QueueInv, Shaped, Referring, Placed, EverythingKept, ExecsKept, ScanKept
  <2> QED
    BY <1>1, <2>1, <2>2 DEF Shaped, EverythingKept, RunsKept, ResultsKept, ExecsKept, ScanKept, ProcessKept
<1>3. \A r \in Created : Terminal(r) => Terminal(r)'
  BY <1>1 DEF EverythingKept, RunsKept, Keeps, Terminal
<1>4. OneActivePerChannel'
  BY <1>1, <1>3 DEF QueueInv, OneActivePerChannel, EverythingKept, RunsKept, Keeps
<1> QED  BY <1>2, <1>4 DEF QueueInv

\* A new run takes the next number, and only on a channel whose runs are final.
LEMMA CreateKeeps ==
  ASSUME QueueInv, NEW c \in Channels, Create(c)
  PROVE  /\ QueueInv'
         /\ \A r \in Created : runs'[r] = runs[r] /\ results'[r] = results[r]
<1>1. PICK n \in 0..NumRuns : Created = 1..n  BY DEF QueueInv, Shaped, Table
<1>2. n \in Nat  BY QueueAssumption
<1>3. Cardinality(Created) = n
  <2>1. Cardinality(1..n) = IF 1 > n THEN 0 ELSE n - 1 + 1  BY <1>2, FS_Interval
  <2> QED  BY <1>1, <1>2, <2>1
<1> DEFINE new == [channel |-> c, status |-> "queued", attempts |-> 0, worker |-> Nobody, stale |-> FALSE]
<1>4. /\ n + 1 <= NumRuns
      /\ \A q \in Created : runs[q].channel = c => Terminal(q)
      /\ runs' = [q \in 1..(n + 1) |-> IF q \in Created THEN runs[q] ELSE new]
      /\ UNCHANGED <<results, execs, process, scan, faults>>
  BY <1>3 DEF Create
<1>5. new \in Run /\ new.channel = c  BY DEF Run, ActiveStatus
<1> HIDE DEF new
<1>6. Created' = 1..(n + 1)  BY <1>4 DEF Created
<1>7. \A q \in Created : q \in 1..(n + 1) /\ runs'[q] = runs[q]
  BY <1>1, <1>2, <1>4
<1>8. /\ runs'[n + 1] = new
      /\ \A q \in 1..(n + 1) : q \in Created \/ q = n + 1
  BY <1>1, <1>2, <1>4
<1>9. runs' \in [Created' -> Run]
  BY <1>4, <1>5, <1>6 DEF QueueInv, Shaped
<1>10. Shaped'
  <2>1. Table'  BY <1>2, <1>4, <1>6, QueueAssumption DEF Table
  <2>2. Referring'  BY <1>4, <1>6, <1>7 DEF QueueInv, Shaped, Referring, Placed
  <2> QED  BY <1>4, <1>9, <2>1, <2>2 DEF QueueInv, Shaped
<1>11. \A q \in Created : Terminal(q) => Terminal(q)'
  BY <1>6, <1>7 DEF Terminal
<1>12. OneActivePerChannel'
  <2> SUFFICES ASSUME NEW r \in Created', NEW q \in Created', r # q, runs'[r].channel = runs'[q].channel
               PROVE  Terminal(r)' \/ Terminal(q)'
    BY DEF OneActivePerChannel
  <2>1. CASE r \in Created /\ q \in Created
    BY <2>1, <1>7, <1>11 DEF QueueInv, OneActivePerChannel
  <2>2. CASE r \in Created /\ q = n + 1
    BY <2>2, <1>4, <1>5, <1>7, <1>8, <1>11
  <2>3. CASE r = n + 1 /\ q \in Created
    BY <2>3, <1>4, <1>5, <1>7, <1>8, <1>11
  <2> QED  BY <1>6, <1>8, <2>1, <2>2, <2>3
<1> QED  BY <1>4, <1>7, <1>10, <1>12 DEF QueueInv

LEMMA NextKeeps ==
  ASSUME QueueInv, [Next]_vars
  PROVE  QueueInv'
<1>1. CASE \E c \in Channels : Create(c)  BY <1>1, CreateKeeps
<1>2. CASE \A c \in Channels : ~Create(c)
  BY <1>2, StepKeeps, KeptIsShaped DEF QueueInv
<1> QED  BY <1>1, <1>2

-----------------------------------------------------------------------------
\* Runs, results, executions and what recovery has read keep their types
\* (repository.go, worker.go, executor.go).
THEOREM TypeCorrect == Spec => []TypeOK
<1>1. Init => QueueInv  BY InitKeeps
<1>2. QueueInv /\ [Next]_vars => QueueInv'  BY NextKeeps
<1>3. QueueInv => TypeOK  BY ShapedIsType DEF QueueInv
<1> QED  BY <1>1, <1>2, <1>3, PTL DEF Spec

\* No channel ever has two active runs, for any number of workers, runs and
\* faults: recovery requeues active runs only, so it cannot collide with the
\* unique index (repository.go 433-459).
THEOREM OneActiveAlways == Spec => []OneActivePerChannel
<1>1. Init => QueueInv  BY InitKeeps
<1>2. QueueInv /\ [Next]_vars => QueueInv'  BY NextKeeps
<1>3. QueueInv => OneActivePerChannel  BY DEF QueueInv
<1> QED  BY <1>1, <1>2, <1>3, PTL DEF Spec

\* What a run came to is final: no execution that lost it and no recovery that
\* read it earlier changes its status or its results (repository.go 242-274,
\* 349-380, 428-488).
THEOREM FinalStays == Spec => FinalIsFinal
<1> DEFINE Final == \A r \in Created : Terminal(r) =>
                       runs'[r].status = runs[r].status /\ results'[r] = results[r]
<1>1. Init => QueueInv  BY InitKeeps
<1>2. QueueInv /\ [Next]_vars => QueueInv'  BY NextKeeps
<1>3. QueueInv /\ [Next]_vars => [Final]_vars
  <2> SUFFICES ASSUME QueueInv, [Next]_vars PROVE Final  OBVIOUS
  <2>1. CASE \E c \in Channels : Create(c)  BY <2>1, CreateKeeps
  <2>2. CASE \A c \in Channels : ~Create(c)
    <3>1. EverythingKept  BY <2>2, StepKeeps DEF QueueInv
    <3> QED  BY <3>1 DEF EverythingKept, RunsKept, Keeps, ResultsKept, Terminal
  <2> QED  BY <2>1, <2>2
<1> QED  BY <1>1, <1>2, <1>3, PTL DEF Spec, FinalIsFinal

\* A cancellation that was accepted is never undone: neither recovery, whatever
\* it had read before, nor a claim puts the run back to work (repository.go
\* 300-331, 455).
THEOREM CancelledStays == Spec => CancelSticks
<1> DEFINE Stuck == \A r \in Created : runs[r].status \in {"cancel_requested", "cancelled"} =>
                       runs'[r].status \notin {"queued", "running"}
<1>1. Init => QueueInv  BY InitKeeps
<1>2. QueueInv /\ [Next]_vars => QueueInv'  BY NextKeeps
<1>3. QueueInv /\ [Next]_vars => [Stuck]_vars
  <2> SUFFICES ASSUME QueueInv, [Next]_vars PROVE Stuck  OBVIOUS
  <2>1. CASE \E c \in Channels : Create(c)  BY <2>1, CreateKeeps
  <2>2. CASE \A c \in Channels : ~Create(c)
    <3>1. EverythingKept  BY <2>2, StepKeeps DEF QueueInv
    <3> QED  BY <3>1 DEF EverythingKept, RunsKept, Keeps, Cancelling
  <2> QED  BY <2>1, <2>2
<1> QED  BY <1>1, <1>2, <1>3, PTL DEF Spec, CancelSticks
=============================================================================
