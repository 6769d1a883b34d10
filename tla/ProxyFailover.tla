--------------------------- MODULE ProxyFailover ---------------------------
(***************************************************************************)
(* The failover loop of the gateway (internal/api/proxy.go): a request     *)
(* tries its candidates in the order the router gave, may change candidate *)
(* until the client has received a byte, and takes one of the few probe    *)
(* slots of a half-open channel, counted in Redis                          *)
(* (internal/router/circuit_probe.go; a gateway configured without Redis   *)
(* counts nothing, and is not modelled).                                   *)
(*                                                                         *)
(* A report is the sample an attempt leaves: its error class, and whether  *)
(* it also updates the circuit or is only written to the history.          *)
(***************************************************************************)
EXTENDS Naturals, Sequences, FiniteSets, SequencesExt

CONSTANTS
    Requests,
    Channels,
    HalfOpen,      \* channels whose circuit is half open for this bucket
    Limit,         \* half_open_probe_count
    MaxAttempts    \* RouteResult.MaxAttempts

ASSUME FailoverAssumption ==
    /\ IsFiniteSet(Channels) /\ HalfOpen \subseteq Channels
    /\ Limit \in Nat \ {0} /\ MaxAttempts \in Nat \ {0}

VARIABLES
    req,      \* the handler of each request
    order,    \* RouteResult.CandidateOrder of each request
    reports,  \* the samples its attempts left, oldest first
    slots,    \* the Redis counter of each half-open channel, 0 = no key
    expires,  \* whether that key has a time to live
    overrun   \* channels whose key expired under a probe still in flight

vars == <<req, order, reports, slots, expires, overrun>>
redisVars == <<slots, expires, overrun>>

\* At the head of the loop; in callUpstream; forwarding a stream; buffering a
\* response; answered.
Places == {"pick", "call", "stream", "read", "done"}

Handler == [at : Places, index : Nat, calls : Nat, probe : BOOLEAN, streaming : BOOLEAN,
            committed : BOOLEAN, gone : BOOLEAN]

\* Classes "upstream" (timeout, network_error, ...) and "client_canceled".
Sample == [class : {"ok", "upstream", "client_canceled"}, charged : BOOLEAN]

TypeOK ==
    /\ req \in [Requests -> Handler]
    /\ \A r \in Requests : req[r].index \in 1..(Cardinality(Channels) + 1)
    /\ order \in [Requests -> SetToSeqs(Channels)]
    /\ reports \in [Requests -> Seq(Sample)]
    /\ slots \in [Channels -> 0..Limit]
    /\ expires \in [Channels -> BOOLEAN]
    /\ overrun \subseteq HalfOpen

Init ==
    /\ req \in [Requests -> [at : {"pick"}, index : {1}, calls : {0}, probe : {FALSE},
                             streaming : BOOLEAN, committed : {FALSE}, gone : {FALSE}]]
    /\ order \in [Requests -> SetToSeqs(Channels)]
    /\ reports = [r \in Requests |-> <<>>]
    /\ slots = [c \in Channels |-> 0]
    /\ expires = [c \in Channels |-> FALSE]
    /\ overrun = {}

Channel(r) == order[r][req[r].index]
Move(r, to) == req' = [req EXCEPT ![r] = to]

-----------------------------------------------------------------------------
(* Probe slots in Redis                                                    *)

\* Mutants: the counter is compared before it is incremented; the key is left
\* without a time to live.
ReserveBeyondLimit(c) ==
    /\ slots[c] <= Limit
    /\ slots' = [slots EXCEPT ![c] = IF @ = Limit THEN @ ELSE @ + 1]
    /\ expires' = [expires EXCEPT ![c] = TRUE]

ReserveForever(c) ==
    /\ slots[c] < Limit
    /\ slots' = [slots EXCEPT ![c] = @ + 1]
    /\ UNCHANGED expires

ReserveHalfOpenProbe(c) ==
    /\ slots[c] < Limit
    /\ slots' = [slots EXCEPT ![c] = @ + 1]
    /\ expires' = [expires EXCEPT ![c] = @ \/ slots[c] = 0]

\* Released with the request's own context: once the client is gone the call
\* fails, and its error is ignored; so is any other error of Redis.
ReleaseHalfOpenProbe(r) ==
    \/ /\ req[r].probe /\ ~req[r].gone /\ slots[Channel(r)] > 0
       /\ slots' = [slots EXCEPT ![Channel(r)] = @ - 1]
       /\ expires' = [expires EXCEPT ![Channel(r)] = @ /\ slots[Channel(r)] > 1]
       /\ UNCHANGED overrun
    \/ UNCHANGED redisVars

Probing(c) == {r \in Requests : req[r].probe /\ req[r].at # "done" /\ Channel(r) = c}

Expire(c) ==
    /\ slots[c] > 0 /\ expires[c]
    /\ slots' = [slots EXCEPT ![c] = 0]
    /\ expires' = [expires EXCEPT ![c] = FALSE]
    /\ overrun' = IF Probing(c) # {} THEN overrun \cup {c} ELSE overrun
    /\ UNCHANGED <<req, order, reports>>

-----------------------------------------------------------------------------
(* Steps of the loop                                                       *)

Picking(r) == req[r].at = "pick"

OutOfCandidates(r) == req[r].index > Len(order[r]) \/ req[r].index > MaxAttempts

\* No candidate left, the attempts used up, or (not before the first one) the
\* total time budget: 503.
AllFailed(r) ==
    /\ Picking(r)
    /\ OutOfCandidates(r) \/ req[r].index > 1
    /\ Move(r, [req[r] EXCEPT !.at = "done"])
    /\ UNCHANGED <<order, reports, redisVars>>

TryClosed(r) ==
    /\ Picking(r) /\ ~OutOfCandidates(r) /\ Channel(r) \notin HalfOpen
    /\ Move(r, [req[r] EXCEPT !.at = "call", !.calls = @ + 1])
    /\ UNCHANGED <<order, reports, redisVars>>

TryHalfOpen(r) ==
    /\ Picking(r) /\ ~OutOfCandidates(r) /\ Channel(r) \in HalfOpen
    /\ ~req[r].gone
    /\ ReserveHalfOpenProbe(Channel(r))
    /\ Move(r, [req[r] EXCEPT !.at = "call", !.calls = @ + 1, !.probe = TRUE])
    /\ UNCHANGED <<order, reports, overrun>>

\* Mutant: a refused reservation is not rolled back.
SkipRaisingCounter(r) ==
    /\ Picking(r) /\ ~OutOfCandidates(r) /\ Channel(r) \in HalfOpen
    /\ slots' = [slots EXCEPT ![Channel(r)] = @ + 1]
    /\ Move(r, [req[r] EXCEPT !.index = @ + 1])
    /\ UNCHANGED <<order, reports, expires, overrun>>

\* No slot left, or Redis did not answer: then the script may have run all
\* the same, and nobody releases the slot it took.
SkipCandidate(r) ==
    /\ Picking(r) /\ ~OutOfCandidates(r) /\ Channel(r) \in HalfOpen
    /\ ReserveHalfOpenProbe(Channel(r)) \/ UNCHANGED <<slots, expires>>
    /\ Move(r, [req[r] EXCEPT !.index = @ + 1])
    /\ UNCHANGED <<order, reports, overrun>>

Answer(r) ==
    /\ req[r].at = "call"
    /\ Move(r, [req[r] EXCEPT !.at = IF req[r].streaming THEN "stream" ELSE "read"])
    /\ UNCHANGED <<order, reports, redisVars>>

Report(r, class, charged) ==
    reports' = [reports EXCEPT ![r] = Append(@, [class |-> class, charged |-> charged])]

NextCandidate(r) == [req[r] EXCEPT !.at = "pick", !.index = @ + 1, !.probe = FALSE]
Answered(r) == [req[r] EXCEPT !.at = "done"]

FailAttempt(r, class, retry) ==
    /\ ReleaseHalfOpenProbe(r)
    /\ Report(r, class, TRUE)
    /\ Move(r, IF retry THEN NextCandidate(r) ELSE Answered(r))
    /\ UNCHANGED order

SucceedAttempt(r) ==
    /\ ReleaseHalfOpenProbe(r)
    /\ Report(r, "ok", TRUE)
    /\ Move(r, Answered(r))
    /\ UNCHANGED order

\* The upstream answers 429 or 5xx, or nothing within the first byte budget;
\* or it answers another 4xx, which no other candidate would cure.
CallFails(r) == req[r].at = "call" /\ \E retry \in BOOLEAN : FailAttempt(r, "upstream", retry)

\* The request's context, cancelled with the client, cancels the call.
CallCanceled(r) ==
    req[r].at = "call" /\ req[r].gone /\ FailAttempt(r, "client_canceled", FALSE)

Forwarding(r) == req[r].at = "stream"

FirstByte(r) ==
    /\ Forwarding(r) /\ ~req[r].committed
    /\ Move(r, [req[r] EXCEPT !.committed = TRUE])
    /\ UNCHANGED <<order, reports, redisVars>>

StreamEnds(r) ==
    /\ Forwarding(r)
    /\ IF req[r].committed THEN SucceedAttempt(r) ELSE FailAttempt(r, "upstream", TRUE)

\* Mutant: a broken stream is always retried.
StreamRetried(r) == Forwarding(r) /\ FailAttempt(r, "upstream", TRUE)

\* Reading from the upstream fails.  The cause may be the client: its context
\* is the call's too; the class is the same.
StreamBreaks(r) == Forwarding(r) /\ FailAttempt(r, "upstream", ~req[r].committed)

\* Mutant: a client that left is not even written to the history.
StreamWriteFailsSilently(r) ==
    /\ Forwarding(r) /\ req[r].gone
    /\ Move(r, Answered(r)) /\ UNCHANGED <<order, reports, redisVars>>

\* Writing to the client fails: before the first byte as any failure, after it
\* for the history only, and then without the release.
StreamWriteFails(r) ==
    /\ Forwarding(r) /\ req[r].gone
    /\ IF req[r].committed
       THEN /\ Report(r, "client_canceled", FALSE)
            /\ Move(r, Answered(r)) /\ UNCHANGED <<order, redisVars>>
       ELSE FailAttempt(r, "upstream", TRUE)

ReadEnds(r) == req[r].at = "read" /\ SucceedAttempt(r)

\* Broken or unreadable body, or no first byte in time: next candidate, unless
\* the client is gone.  A cancelled read ends the request: the client left, or
\* the read timeout interrupted a read after the first byte.
ReadFails(r) ==
    /\ req[r].at = "read"
    /\ \/ FailAttempt(r, "upstream", TRUE)
       \/ req[r].gone /\ FailAttempt(r, "upstream", FALSE)
       \/ FailAttempt(r, "client_canceled", FALSE)

ClientLeaves(r) ==
    /\ req[r].at # "done" /\ ~req[r].gone
    /\ Move(r, [req[r] EXCEPT !.gone = TRUE])
    /\ UNCHANGED <<order, reports, redisVars>>

Loop(r) == AllFailed(r) \/ TryClosed(r) \/ TryHalfOpen(r) \/ SkipCandidate(r)
Attempt(r) ==
    \/ Answer(r) \/ CallFails(r) \/ CallCanceled(r)
    \/ FirstByte(r) \/ StreamEnds(r) \/ StreamBreaks(r) \/ StreamWriteFails(r)
    \/ ReadEnds(r) \/ ReadFails(r)
Handle(r) == Loop(r) \/ Attempt(r)

Next ==
    \/ \E r \in Requests : Handle(r) \/ ClientLeaves(r)
    \/ \E c \in Channels : Expire(c)

Spec == Init /\ [][Next]_vars

\* Every upstream call and read is bounded by a timeout, and Redis lets keys
\* with a time to live expire.
FairSpec ==
    /\ Spec
    /\ \A r \in Requests : WF_vars(Handle(r))
    /\ \A c \in Channels : WF_vars(Expire(c))

-----------------------------------------------------------------------------
(* Properties                                                              *)

\* Every upstream call leaves exactly one sample, on every path out of the
\* attempt (proxy.go 366-486).
Open(r) == req[r].at \in {"call", "stream", "read"}
OneReportPerCall ==
    \A r \in Requests : Len(reports[r]) + (IF Open(r) THEN 1 ELSE 0) = req[r].calls

\* What the client has begun to receive comes from one channel: after the
\* first byte there is no other call, and no sample but the attempt's own
\* (proxy.go 393-427).
NoSwitchAfterFirstByte ==
    [][\A r \in Requests : req[r].committed => req'[r].calls = req[r].calls /\ ~Picking(r)']_vars

\* A half-open channel never carries more probes than slots are counted for,
\* whichever way requests end and whatever releases Redis loses, as long as
\* no probe outlives the key (circuit_probe.go 15-35).
ProbesWithinLimit ==
    \A c \in HalfOpen \ overrun : Cardinality(Probing(c)) <= slots[c] /\ slots[c] <= Limit

\* Slots lost to a disconnected client or to Redis come back: a half-open
\* channel can be probed again and again (circuit_probe.go 11-19).
SlotsComeBack == \A c \in HalfOpen : []<>(slots[c] < Limit)
=============================================================================
