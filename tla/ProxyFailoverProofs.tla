------------------------- MODULE ProxyFailoverProofs -------------------------
(***************************************************************************)
(* Theorems about the failover loop, for any requests, channels, limits    *)
(* and numbers of attempts: each call leaves one sample, nothing follows   *)
(* the first byte, and no more probes run than slots are counted for.      *)
(***************************************************************************)
EXTENDS ProxyFailover, FiniteSetTheorems, SequenceTheorems, TLAPS

N == Cardinality(Channels)
Calling == {"call", "stream", "read"}
Owed(h) == IF h.at \in Calling THEN 1 ELSE 0

\* A handler h that has left n samples is where it can be: a slot is only kept
\* through an attempt, what has reached the client is a stream, and a sample is
\* owed for the attempt under way.
Fit(h, n) ==
    /\ h \in Handler
    /\ h.index \in 1..(N + 1)
    /\ h.at \in Calling => h.index <= N
    /\ h.at = "pick" => ~h.probe
    /\ h.committed => h.at \in {"stream", "done"}
    /\ n + Owed(h) = h.calls

\* Only channels that are half open have slots, and a key that counts some has a
\* time to live.
Slots ==
    /\ slots \in [Channels -> 0..Limit]
    /\ \A c \in Channels \ HalfOpen : slots[c] = 0
    /\ expires \in [Channels -> BOOLEAN]
    /\ \A c \in Channels : slots[c] > 0 => expires[c]
    /\ overrun \subseteq HalfOpen

Shaped ==
    /\ req = [r \in Requests |-> req[r]]
    /\ \A r \in Requests : Fit(req[r], Len(reports[r]))
    /\ order \in [Requests -> SetToSeqs(Channels)]
    /\ reports \in [Requests -> Seq(Sample)]
    /\ Slots

\* Whoever probes holds a slot, but on channels whose key expired too early.
Counted ==
    \A c \in HalfOpen :
        /\ IsFiniteSet(Probing(c))
        /\ c \notin overrun => Cardinality(Probing(c)) <= slots[c]

FailoverInv == Shaped /\ Counted

LEMMA ChannelCount == N \in Nat
BY FailoverAssumption, FS_CardinalityType DEF N

\* The candidates are the channels, each once.
LEMMA OrderLength ==
  ASSUME Shaped, NEW r \in Requests
  PROVE  Len(order[r]) = N /\ \A i \in 1..N : order[r][i] \in Channels
<1>1. order[r] \in [1..N -> Channels]  BY DEF Shaped, SetToSeqs, N
<1>2. DOMAIN order[r] = 1..N  BY <1>1
<1>3. order[r] \in Seq(Channels)  BY <1>1, ChannelCount, SeqDef
<1>4. Len(order[r]) = N  BY <1>2, <1>3, ChannelCount, LenProperties
<1> QED  BY <1>1, <1>4

LEMMA FitIsType ==
  ASSUME Shaped
  PROVE  TypeOK /\ OneReportPerCall
<1>1. req \in [Requests -> Handler]  BY DEF Shaped, Fit
<1>2. \A r \in Requests : req[r].index \in 1..(Cardinality(Channels) + 1)
  BY DEF Shaped, Fit, N
<1>3. TypeOK  BY <1>1, <1>2 DEF Shaped, Slots, TypeOK
<1>4. OneReportPerCall  BY DEF Shaped, Fit, OneReportPerCall, Open, Owed, Calling
<1> QED  BY <1>3, <1>4

LEMMA InitKeeps == Init => FailoverInv
<1> SUFFICES ASSUME Init PROVE FailoverInv  OBVIOUS
<1> DEFINE H == [at : {"pick"}, index : {1}, calls : {0}, probe : {FALSE},
                 streaming : BOOLEAN, committed : {FALSE}, gone : {FALSE}]
<1>1. req \in [Requests -> H]  BY DEF Init
<1>2. ASSUME NEW h \in H PROVE Fit(h, 0)
  <2>1. h.at = "pick" /\ h.index = 1 /\ h.calls = 0  BY <1>2
  <2>2. ~h.probe /\ ~h.committed  BY <1>2
  <2>3. /\ h = [at |-> h.at, index |-> h.index, calls |-> h.calls, probe |-> h.probe,
                streaming |-> h.streaming, committed |-> h.committed, gone |-> h.gone]
        /\ h.probe \in {FALSE} /\ h.streaming \in BOOLEAN /\ h.committed \in {FALSE} /\ h.gone \in {FALSE}
    BY <1>2
  <2> HIDE DEF H
  <2>4. h.probe \in BOOLEAN /\ h.committed \in BOOLEAN /\ h.gone \in BOOLEAN  BY <2>3
  <2>5. h \in Handler  BY <2>1, <2>3, <2>4 DEF Handler, Places
  <2> QED  BY <2>1, <2>2, <2>5, ChannelCount DEF Fit, Owed, Calling
<1>3. \A r \in Requests : reports[r] = <<>> /\ Len(reports[r]) = 0  BY DEF Init
<1>4. Shaped
  <2>1. reports \in [Requests -> Seq(Sample)]  BY DEF Init
  <2>2. Slots  BY FailoverAssumption DEF Init, Slots
  <2>3. \A r \in Requests : Fit(req[r], Len(reports[r]))
    <3> HIDE DEF H
    <3> QED  BY <1>1, <1>2, <1>3
  <2> QED  BY <1>1, <2>1, <2>2, <2>3 DEF Init, Shaped
<1>5. Counted
  <2>1. \A r \in Requests : ~req[r].probe  BY <1>1
  <2>2. \A c \in HalfOpen : Probing(c) = {}  BY <2>1 DEF Probing
  <2>3. \A c \in HalfOpen : slots[c] = 0  BY FailoverAssumption DEF Init
  <2> QED  BY <2>2, <2>3, FS_EmptySet DEF Counted
<1> QED  BY <1>4, <1>5 DEF FailoverInv

-----------------------------------------------------------------------------
\* What one handler's step does to the others: nothing.

\* Request r goes to h and leaves at most one sample.
Steps(r, h) ==
    /\ req' = [req EXCEPT ![r] = h]
    /\ reports' \in [Requests -> Seq(Sample)]
    /\ \A q \in Requests \ {r} : reports'[q] = reports[q]
    /\ Fit(h, Len(reports'[r]))
    /\ UNCHANGED order

Probes(h, r, c) == h.probe /\ h.at # "done" /\ order[r][h.index] = c

LEMMA ShapeKept ==
  ASSUME Shaped, NEW r \in Requests, NEW h, Steps(r, h), Slots'
  PROVE  Shaped'
<1>1. /\ req' = [q \in Requests |-> req'[q]]
      /\ req'[r] = h /\ \A q \in Requests \ {r} : req'[q] = req[q]
  BY DEF Shaped, Steps
<1>2. \A q \in Requests : Fit(req'[q], Len(reports'[q]))
  BY <1>1 DEF Shaped, Steps
<1>3. order' \in [Requests -> SetToSeqs(Channels)]  BY DEF Shaped, Steps
<1> QED  BY <1>1, <1>2, <1>3 DEF Shaped, Steps

LEMMA ProbingAfter ==
  ASSUME Shaped, NEW r \in Requests, NEW h, Steps(r, h), NEW c
  PROVE  Probing(c)' = (Probing(c) \ {r}) \cup (IF Probes(h, r, c) THEN {r} ELSE {})
<1>1. req'[r] = h /\ \A q \in Requests \ {r} : req'[q] = req[q]
  BY DEF Shaped, Steps
<1>2. order' = order  BY DEF Steps
<1>3. Probing(c)' = {q \in Requests : req'[q].probe /\ req'[q].at # "done" /\ order[q][req'[q].index] = c}
  BY <1>2 DEF Probing, Channel
<1> QED  BY <1>1, <1>3 DEF Probing, Channel, Probes

\* A slot taken has a time to live and is the only one that changes.
LEMMA TakingASlot ==
  ASSUME Slots, NEW d \in HalfOpen, ReserveHalfOpenProbe(d), UNCHANGED overrun
  PROVE  /\ Slots'
         /\ \A c \in Channels : slots'[c] = IF c = d THEN slots[c] + 1 ELSE slots[c]
<1>1. /\ d \in Channels /\ slots[d] < Limit /\ slots' = [slots EXCEPT ![d] = @ + 1]
      /\ expires' = [expires EXCEPT ![d] = @ \/ slots[d] = 0]
  BY FailoverAssumption DEF ReserveHalfOpenProbe
<1>2. slots' \in [Channels -> 0..Limit] /\ expires' \in [Channels -> BOOLEAN]
  BY <1>1, FailoverAssumption DEF Slots
<1>3. \A c \in Channels \ {d} : slots'[c] = slots[c] /\ expires'[c] = expires[c]
  BY <1>1 DEF Slots
<1>4. expires'[d]
  <2>1. expires'[d] = (expires[d] \/ slots[d] = 0) /\ slots[d] \in Nat
    BY <1>1, FailoverAssumption DEF Slots
  <2>2. slots[d] > 0 => expires[d]  BY <1>1 DEF Slots
  <2>3. slots[d] = 0 \/ slots[d] > 0  BY <2>1
  <2> QED  BY <2>1, <2>2, <2>3, Zenon
<1>5. slots'[d] = slots[d] + 1  BY <1>1 DEF Slots
<1>6. Slots'  BY <1>2, <1>3, <1>4, FailoverAssumption DEF Slots
<1> QED  BY <1>3, <1>5, <1>6

\* No slot is given back, and r probes no more than before.
LEMMA NoSlotBack ==
  ASSUME FailoverInv, NEW r \in Requests, NEW h, Steps(r, h), Slots', UNCHANGED overrun,
         \A c \in HalfOpen : slots'[c] >= slots[c],
         \A c \in HalfOpen : Probes(h, r, c) => r \in Probing(c)
  PROVE  FailoverInv'
<1>1. Shaped'  BY ShapeKept DEF FailoverInv
<1>2. ASSUME NEW c \in HalfOpen PROVE Probing(c)' \subseteq Probing(c)
  BY ProbingAfter, <1>2 DEF FailoverInv
<1>3. ASSUME NEW c \in HalfOpen
      PROVE  IsFiniteSet(Probing(c)') /\ Cardinality(Probing(c)') <= Cardinality(Probing(c))
  BY <1>2, <1>3, FS_Subset DEF FailoverInv, Counted
<1>4. ASSUME NEW c \in HalfOpen
      PROVE  /\ Cardinality(Probing(c)) \in Nat /\ Cardinality(Probing(c)') \in Nat
             /\ slots[c] \in Nat /\ slots'[c] \in Nat
  BY <1>3, <1>4, FS_CardinalityType, FailoverAssumption DEF FailoverInv, Counted, Shaped, Slots
<1>5. Counted'
  BY <1>3, <1>4 DEF FailoverInv, Counted
<1> QED  BY <1>1, <1>5 DEF FailoverInv

\* No slot is taken or given back either.
LEMMA KeepSlots ==
  ASSUME FailoverInv, NEW r \in Requests, NEW h, Steps(r, h), UNCHANGED redisVars,
         \A c \in HalfOpen : Probes(h, r, c) => r \in Probing(c)
  PROVE  FailoverInv'
<1>1. Slots'  BY DEF FailoverInv, Shaped, Slots, redisVars
<1>2. \A c \in HalfOpen : slots'[c] >= slots[c]
  BY FailoverAssumption DEF FailoverInv, Shaped, Slots, redisVars
<1> QED  BY <1>1, <1>2, NoSlotBack DEF redisVars

\* The attempt ends: its slot goes back, or the release does not reach Redis.
LEMMA EndAttempt ==
  ASSUME FailoverInv, NEW r \in Requests, NEW h, Steps(r, h), ReleaseHalfOpenProbe(r),
         req[r].at \in Calling, h.at \in {"pick", "done"}
  PROVE  FailoverInv'
<1>1. \A c : ~Probes(h, r, c)  BY DEF Steps, Fit, Probes
<1>2. CASE UNCHANGED redisVars  BY <1>1, <1>2, KeepSlots
<1>3. CASE /\ req[r].probe /\ slots[Channel(r)] > 0
           /\ slots' = [slots EXCEPT ![Channel(r)] = @ - 1]
           /\ expires' = [expires EXCEPT ![Channel(r)] = @ /\ slots[Channel(r)] > 1]
           /\ UNCHANGED overrun
  <2> DEFINE d == Channel(r)
  <2>1. d \in Channels
    BY OrderLength, ChannelCount DEF FailoverInv, Shaped, Fit, Calling, Channel
  <2>2. Slots'  BY <1>3, <2>1, FailoverAssumption DEF FailoverInv, Shaped, Slots
  <2>3. Shaped'  BY <2>2, ShapeKept DEF FailoverInv
  <2>4. ASSUME NEW c \in HalfOpen PROVE Probing(c)' = Probing(c) \ {r}
    BY <1>1, <2>4, ProbingAfter DEF FailoverInv
  <2>5. r \in Probing(d)  BY <1>3 DEF Probing, Calling
  <2>6. ASSUME NEW c \in HalfOpen
        PROVE  IsFiniteSet(Probing(c)') /\ (c \notin overrun' => Cardinality(Probing(c)') <= slots'[c])
    <3>1. IsFiniteSet(Probing(c)) /\ Cardinality(Probing(c)) \in Nat
      BY <2>6, FS_CardinalityType DEF FailoverInv, Counted
    <3>2. /\ IsFiniteSet(Probing(c)')
          /\ Cardinality(Probing(c)') = IF r \in Probing(c) THEN Cardinality(Probing(c)) - 1
                                        ELSE Cardinality(Probing(c))
      BY <2>4, <2>6, <3>1, FS_RemoveElement
    <3>3. c \in Channels /\ slots[c] \in Nat
      BY <2>6, FailoverAssumption DEF FailoverInv, Shaped, Slots
    <3>4. slots'[c] = IF c = d THEN slots[c] - 1 ELSE slots[c]
      BY <1>3, <3>3 DEF FailoverInv, Shaped, Slots
    <3>5. overrun' = overrun /\ (c \notin overrun => Cardinality(Probing(c)) <= slots[c])
      BY <1>3, <2>6 DEF FailoverInv, Counted
    <3> HIDE DEF d
    <3> QED  BY <2>5, <3>1, <3>2, <3>3, <3>4, <3>5
  <2> QED  BY <2>3, <2>6 DEF FailoverInv, Counted
<1> QED  BY <1>2, <1>3 DEF ReleaseHalfOpenProbe

-----------------------------------------------------------------------------
\* The steps of the loop.

\* A handler that calls or goes on is a handler.
LEMMA Called ==
  ASSUME NEW h \in Handler, NEW n \in Nat, NEW p \in BOOLEAN
  PROVE  /\ [h EXCEPT !.at = "call", !.calls = n] \in Handler
         /\ [h EXCEPT !.at = "call", !.calls = n, !.probe = p] \in Handler
         /\ [h EXCEPT !.at = "pick", !.index = n, !.probe = p] \in Handler
<1>1. "call" \in Places /\ "pick" \in Places  BY DEF Places
<1>2. [h EXCEPT !.at = "call", !.calls = n] \in Handler  BY <1>1 DEF Handler
<1>3. [h EXCEPT !.at = "call", !.calls = n, !.probe = p] \in Handler  BY <1>1 DEF Handler
<1>4. [h EXCEPT !.at = "pick", !.index = n, !.probe = p] \in Handler  BY <1>1 DEF Handler
<1> QED  BY <1>2, <1>3, <1>4

LEMMA LoopKeeps ==
  ASSUME FailoverInv, NEW r \in Requests, Loop(r)
  PROVE  FailoverInv'
<1>1. /\ req[r] \in Handler /\ Fit(req[r], Len(reports[r])) /\ req[r].at = "pick" /\ ~req[r].probe
      /\ ~req[r].committed /\ req[r].index \in Nat /\ req[r].calls \in Nat /\ Len(reports[r]) = req[r].calls
  BY DEF FailoverInv, Shaped, Fit, Loop, AllFailed, TryClosed, TryHalfOpen, SkipCandidate, Picking,
         Owed, Calling, Handler
<1>2. ~OutOfCandidates(r) => req[r].index <= N /\ Channel(r) \in Channels
  BY <1>1, OrderLength, ChannelCount DEF OutOfCandidates, FailoverInv, Channel, Fit
<1>3. UNCHANGED reports => reports' \in [Requests -> Seq(Sample)] /\ Len(reports'[r]) = req[r].calls
  BY <1>1 DEF FailoverInv, Shaped
<1>4. CASE AllFailed(r)
  <2> DEFINE h == [req[r] EXCEPT !.at = "done"]
  <2>1. /\ h \in Handler /\ h.at = "done" /\ h.index = req[r].index /\ h.calls = req[r].calls
        /\ h.probe = req[r].probe
    BY <1>1 DEF Handler, Places
  <2>2. req' = [req EXCEPT ![r] = h] /\ UNCHANGED <<order, reports, redisVars>>
    BY <1>4 DEF AllFailed, Move
  <2> HIDE DEF h
  <2>3. Fit(h, Len(reports'[r]))  BY <1>1, <1>3, <2>1, <2>2 DEF Fit, Owed, Calling
  <2>4. Steps(r, h)  BY <1>3, <2>2, <2>3 DEF Steps
  <2> QED  BY <1>1, <2>1, <2>2, <2>4, KeepSlots DEF Probes
<1>5. CASE TryClosed(r)
  <2> DEFINE h == [req[r] EXCEPT !.at = "call", !.calls = @ + 1]
  <2>1. /\ h \in Handler /\ h.at = "call" /\ h.index = req[r].index /\ h.calls = req[r].calls + 1
        /\ h.probe = req[r].probe /\ h.committed = req[r].committed
    <3>1. req[r].calls + 1 \in Nat  BY <1>1
    <3>2. h \in Handler  BY <1>1, <3>1, Called
    <3> QED  BY <1>1, <3>2 DEF Handler
  <2>2. req' = [req EXCEPT ![r] = h] /\ UNCHANGED <<order, reports, redisVars>>
    BY <1>5 DEF TryClosed, Move
  <2>3. req[r].index <= N  BY <1>2, <1>5 DEF TryClosed
  <2> HIDE DEF h
  <2>4. Fit(h, Len(reports'[r]))  BY <1>1, <1>3, <2>1, <2>2, <2>3 DEF Fit, Owed, Calling
  <2>5. Steps(r, h)  BY <1>3, <2>2, <2>4 DEF Steps
  <2> QED  BY <1>1, <2>1, <2>2, <2>5, KeepSlots DEF Probes
<1>6. CASE SkipCandidate(r)
  <2> DEFINE h == [req[r] EXCEPT !.index = @ + 1]
  <2>1. /\ h \in Handler /\ h.at = "pick" /\ h.index = req[r].index + 1 /\ h.calls = req[r].calls
        /\ h.probe = req[r].probe /\ h.committed = req[r].committed
    BY <1>1 DEF Handler, Places
  <2>2. /\ req' = [req EXCEPT ![r] = h] /\ UNCHANGED <<order, reports, overrun>>
        /\ Channel(r) \in HalfOpen
        /\ ReserveHalfOpenProbe(Channel(r)) \/ UNCHANGED <<slots, expires>>
    BY <1>6 DEF SkipCandidate, Move
  <2>3. req[r].index <= N  BY <1>2, <1>6 DEF SkipCandidate
  <2> HIDE DEF h
  <2>4. Fit(h, Len(reports'[r]))
    BY <1>1, <1>3, <2>1, <2>2, <2>3, ChannelCount DEF Fit, Owed, Calling
  <2>5. Steps(r, h)  BY <1>3, <2>2, <2>4 DEF Steps
  <2>6. CASE UNCHANGED <<slots, expires>>
    BY <1>1, <2>1, <2>2, <2>5, <2>6, KeepSlots DEF Probes, redisVars
  <2>7. CASE ReserveHalfOpenProbe(Channel(r))
    <3>1. /\ Slots'
          /\ \A c \in Channels : slots'[c] = IF c = Channel(r) THEN slots[c] + 1 ELSE slots[c]
      BY <2>2, <2>7, TakingASlot DEF FailoverInv, Shaped
    <3>2. \A c \in HalfOpen : slots'[c] >= slots[c]
      <4>1. \A c \in HalfOpen : c \in Channels /\ slots[c] \in Nat
        BY FailoverAssumption DEF FailoverInv, Shaped, Slots
      <4>2. \A n \in Nat : n >= n /\ n + 1 >= n  OBVIOUS
      <4> QED  BY <3>1, <4>1, <4>2
    <3>3. \A c \in HalfOpen : ~Probes(h, r, c)  BY <1>1, <2>1 DEF Probes
    <3> QED  BY <2>2, <2>5, <3>1, <3>2, <3>3, NoSlotBack
  <2> QED  BY <2>2, <2>6, <2>7
<1>7. CASE TryHalfOpen(r)
  <2> DEFINE d == Channel(r)
             h == [req[r] EXCEPT !.at = "call", !.calls = @ + 1, !.probe = TRUE]
  <2>1. /\ h \in Handler /\ h.at = "call" /\ h.index = req[r].index /\ h.calls = req[r].calls + 1
        /\ h.committed = req[r].committed
    <3>1. req[r].calls + 1 \in Nat  BY <1>1
    <3>2. h \in Handler  BY <1>1, <3>1, Called
    <3> QED  BY <1>1, <3>2 DEF Handler
  <2>2. /\ req' = [req EXCEPT ![r] = h] /\ UNCHANGED <<order, reports, overrun>>
        /\ d \in HalfOpen /\ ReserveHalfOpenProbe(d)
    BY <1>7 DEF TryHalfOpen, Move
  <2>3. req[r].index <= N /\ d \in Channels  BY <1>2, <1>7 DEF TryHalfOpen
  <2>4. order[r][req[r].index] = d  BY DEF Channel
  <2> HIDE DEF h
  <2>5. Fit(h, Len(reports'[r]))  BY <1>1, <1>3, <2>1, <2>2, <2>3 DEF Fit, Owed, Calling
  <2>6. Steps(r, h)  BY <1>3, <2>2, <2>5 DEF Steps
  <2> HIDE DEF d
  <2>7. /\ Slots'
        /\ \A c \in Channels : slots'[c] = IF c = d THEN slots[c] + 1 ELSE slots[c]
    BY <2>2, TakingASlot DEF FailoverInv, Shaped
  <2>8. Shaped'  BY <2>6, <2>7, ShapeKept DEF FailoverInv
  <2>9. ASSUME NEW c \in HalfOpen
        PROVE  IsFiniteSet(Probing(c)') /\ (c \notin overrun' => Cardinality(Probing(c)') <= slots'[c])
    <3>1. IsFiniteSet(Probing(c)) /\ Cardinality(Probing(c)) \in Nat
      BY <2>9, FS_CardinalityType DEF FailoverInv, Counted
    <3>2. r \notin Probing(c)  BY <1>1 DEF Probing
    <3>3. Probing(c)' \subseteq Probing(c) \cup (IF c = d THEN {r} ELSE {})
      BY <2>1, <2>4, <2>6, ProbingAfter DEF FailoverInv, Probes
    <3>4. CASE c = d
      <4>1. /\ IsFiniteSet(Probing(c) \cup {r})
            /\ Cardinality(Probing(c) \cup {r}) = Cardinality(Probing(c)) + 1
        BY <3>1, <3>2, FS_AddElement
      <4>2. IsFiniteSet(Probing(c)') /\ Cardinality(Probing(c)') <= Cardinality(Probing(c)) + 1
        BY <3>3, <3>4, <4>1, FS_Subset
      <4>3. Cardinality(Probing(c)') \in Nat  BY <4>2, FS_CardinalityType
      <4>4. slots'[c] = slots[c] + 1 /\ slots[c] \in Nat
        BY <2>3, <2>7, <3>4, FailoverAssumption DEF FailoverInv, Shaped, Slots
      <4>5. overrun' = overrun /\ (c \notin overrun => Cardinality(Probing(c)) <= slots[c])
        BY <2>2, <2>9 DEF FailoverInv, Counted
      <4> QED  BY <3>1, <4>2, <4>3, <4>4, <4>5
    <3>5. CASE c # d
      <4>1. Probing(c)' \subseteq Probing(c)  BY <3>3, <3>5
      <4>2. IsFiniteSet(Probing(c)') /\ Cardinality(Probing(c)') <= Cardinality(Probing(c))
        BY <3>1, <4>1, FS_Subset
      <4>3. Cardinality(Probing(c)') \in Nat  BY <4>2, FS_CardinalityType
      <4>4. c \in Channels /\ slots'[c] = slots[c] /\ slots[c] \in Nat
        BY <2>7, <2>9, <3>5, FailoverAssumption DEF FailoverInv, Shaped, Slots
      <4>5. overrun' = overrun /\ (c \notin overrun => Cardinality(Probing(c)) <= slots[c])
        BY <2>2, <2>9 DEF FailoverInv, Counted
      <4> QED  BY <3>1, <4>2, <4>3, <4>4, <4>5
    <3> QED  BY <3>4, <3>5
  <2> QED  BY <2>8, <2>9 DEF FailoverInv, Counted
<1> QED  BY <1>4, <1>5, <1>6, <1>7 DEF Loop

\* An attempt that ends leaves its sample and goes to the next candidate, unless
\* the client has begun to receive, or to the end.
Ending(r, h) ==
    \/ h = NextCandidate(r) /\ ~req[r].committed
    \/ h = Answered(r)

LEMMA EndSteps ==
  ASSUME FailoverInv, NEW r \in Requests, req[r].at \in Calling, NEW class, NEW charged,
         [class |-> class, charged |-> charged] \in Sample,
         NEW h, Ending(r, h), Report(r, class, charged), Move(r, h), UNCHANGED order
  PROVE  Steps(r, h) /\ h.at \in {"pick", "done"}
<1>1. /\ req[r] \in Handler /\ Fit(req[r], Len(reports[r])) /\ req[r].index \in 1..N
      /\ Len(reports[r]) + 1 = req[r].calls /\ reports[r] \in Seq(Sample)
  BY DEF FailoverInv, Shaped, Fit, Calling, Owed
<1>2. Len(reports[r]) \in Nat  BY <1>1, LenProperties
<1>3. /\ reports' \in [Requests -> Seq(Sample)] /\ Len(reports'[r]) = req[r].calls
      /\ \A q \in Requests \ {r} : reports'[q] = reports[q]
  <2> DEFINE sample == [class |-> class, charged |-> charged]
  <2>1. reports' = [reports EXCEPT ![r] = Append(reports[r], sample)]  BY DEF Report
  <2> HIDE DEF sample
  <2>2. Append(reports[r], sample) \in Seq(Sample) /\ Len(Append(reports[r], sample)) = Len(reports[r]) + 1
    BY <1>1, AppendProperties DEF sample
  <2> QED  BY <1>1, <2>1, <2>2 DEF FailoverInv, Shaped
<1>4. CASE h = NextCandidate(r) /\ ~req[r].committed
  <2>1. /\ h \in Handler /\ h.at = "pick" /\ h.index = req[r].index + 1 /\ h.calls = req[r].calls
        /\ h.committed = req[r].committed
    <3>1. req[r].index + 1 \in Nat  BY <1>1, ChannelCount
    <3>2. h \in Handler  BY <1>1, <1>4, <3>1, Called DEF NextCandidate
    <3> QED  BY <1>1, <1>4, <3>2 DEF NextCandidate, Handler
  <2>2. ~h.probe  BY <1>1, <1>4 DEF NextCandidate, Handler
  <2>3. Fit(h, Len(reports'[r]))
    BY <1>1, <1>3, <1>4, <2>1, <2>2, ChannelCount DEF Fit, Owed, Calling, Handler
  <2> QED  BY <1>3, <2>1, <2>3 DEF Steps, Move
<1>5. CASE h = Answered(r)
  <2>1. /\ h \in Handler /\ h.at = "done" /\ h.index = req[r].index /\ h.calls = req[r].calls
    BY <1>1, <1>5 DEF Answered, Handler, Places
  <2>2. Fit(h, Len(reports'[r]))
    BY <1>1, <1>3, <2>1, ChannelCount DEF Fit, Owed, Calling, Handler
  <2> QED  BY <1>3, <2>1, <2>2 DEF Steps, Move
<1> QED  BY <1>4, <1>5 DEF Ending

\* Every way an attempt ends, in the terms of the two lemmas before.
LEMMA EndsOnce ==
  ASSUME NEW r \in Requests,
         \/ CallFails(r) \/ CallCanceled(r) \/ StreamEnds(r) \/ StreamBreaks(r)
         \/ ReadEnds(r) \/ ReadFails(r) \/ (StreamWriteFails(r) /\ ~req[r].committed),
         req[r].committed => req[r].at \in {"stream", "done"}
  PROVE  /\ req[r].at \in Calling
         /\ ReleaseHalfOpenProbe(r) /\ UNCHANGED order
         /\ \E class \in {"ok", "upstream", "client_canceled"} :
               /\ Report(r, class, TRUE)
               /\ \E h : Ending(r, h) /\ Move(r, h)
<1> DEFINE Failed == \E class \in {"ok", "upstream", "client_canceled"} :
                        FailAttempt(r, class, FALSE) \/ (FailAttempt(r, class, TRUE) /\ ~req[r].committed)
<1>1. ASSUME Failed \/ SucceedAttempt(r)
      PROVE  /\ ReleaseHalfOpenProbe(r) /\ UNCHANGED order
             /\ \E class \in {"ok", "upstream", "client_canceled"} :
                   Report(r, class, TRUE) /\ \E h : Ending(r, h) /\ Move(r, h)
  BY <1>1 DEF FailAttempt, SucceedAttempt, Ending
<1>2. CASE CallFails(r)
  BY <1>1, <1>2 DEF CallFails, Calling
<1>3. CASE CallCanceled(r)
  BY <1>1, <1>3 DEF CallCanceled, Calling
<1>4. CASE StreamEnds(r)
  BY <1>1, <1>4 DEF StreamEnds, Forwarding, Calling
<1>5. CASE StreamBreaks(r)
  BY <1>1, <1>5 DEF StreamBreaks, Forwarding, Calling, FailAttempt, Ending
<1>6. CASE StreamWriteFails(r) /\ ~req[r].committed
  BY <1>1, <1>6 DEF StreamWriteFails, Forwarding, Calling
<1>7. CASE ReadEnds(r)
  BY <1>1, <1>7 DEF ReadEnds, Calling
<1>8. CASE ReadFails(r)
  BY <1>1, <1>8 DEF ReadFails, Calling
<1> QED  BY <1>2, <1>3, <1>4, <1>5, <1>6, <1>7, <1>8

LEMMA AttemptKeeps ==
  ASSUME FailoverInv, NEW r \in Requests, Attempt(r) \/ ClientLeaves(r)
  PROVE  FailoverInv'
<1>1. /\ req[r] \in Handler /\ Fit(req[r], Len(reports[r])) /\ req[r].index \in Nat
      /\ (req[r].committed => req[r].at \in {"stream", "done"})
      /\ reports \in [Requests -> Seq(Sample)]
  BY DEF FailoverInv, Shaped, Fit, Handler
<1>2. CASE \/ CallFails(r) \/ CallCanceled(r) \/ StreamEnds(r) \/ StreamBreaks(r)
           \/ ReadEnds(r) \/ ReadFails(r) \/ (StreamWriteFails(r) /\ ~req[r].committed)
  <2>1. PICK class \in {"ok", "upstream", "client_canceled"} :
             Report(r, class, TRUE) /\ \E h : Ending(r, h) /\ Move(r, h)
    BY <1>1, <1>2, EndsOnce
  <2>2. req[r].at \in Calling /\ ReleaseHalfOpenProbe(r) /\ UNCHANGED order
    BY <1>1, <1>2, EndsOnce
  <2>3. [class |-> class, charged |-> TRUE] \in Sample  BY DEF Sample
  <2>4. PICK h : Ending(r, h) /\ Move(r, h)  BY <2>1
  <2>5. Steps(r, h) /\ h.at \in {"pick", "done"}  BY <2>1, <2>2, <2>3, <2>4, EndSteps
  <2> QED  BY <2>2, <2>5, EndAttempt
<1>3. CASE StreamWriteFails(r) /\ req[r].committed
  <2>1. /\ req[r].at \in Calling /\ UNCHANGED <<order, redisVars>>
        /\ Report(r, "client_canceled", FALSE) /\ Move(r, Answered(r))
    BY <1>3 DEF StreamWriteFails, Forwarding, Calling
  <2>2. [class |-> "client_canceled", charged |-> FALSE] \in Sample  BY DEF Sample
  <2>3. Steps(r, Answered(r))  BY <2>1, <2>2, EndSteps DEF Ending
  <2>4. Answered(r).at = "done"  BY <1>1 DEF Answered, Handler
  <2> QED  BY <2>1, <2>3, <2>4, KeepSlots DEF Probes
<1>4. CASE Answer(r) \/ FirstByte(r) \/ ClientLeaves(r)
  <2>1. PICK h : /\ Move(r, h) /\ UNCHANGED <<order, reports, redisVars>>
                 /\ \/ /\ h = [req[r] EXCEPT !.at = IF req[r].streaming THEN "stream" ELSE "read"]
                       /\ req[r].at = "call"
                    \/ h = [req[r] EXCEPT !.committed = TRUE] /\ req[r].at = "stream"
                    \/ h = [req[r] EXCEPT !.gone = TRUE] /\ req[r].at # "done"
    BY <1>4 DEF Answer, FirstByte, ClientLeaves, Forwarding
  <2>2. /\ h \in Handler /\ h.index = req[r].index /\ h.calls = req[r].calls
        /\ h.probe = req[r].probe
    BY <1>1, <2>1 DEF Handler, Places
  <2>3. /\ h.at \in Calling <=> req[r].at \in Calling
        /\ h.at = "pick" <=> req[r].at = "pick"
        /\ h.committed => h.at \in {"stream", "done"}
        /\ req[r].at # "done"
    BY <1>1, <2>1 DEF Handler, Calling, Fit
  <2>4. Fit(h, Len(reports[r]))  BY <1>1, <2>2, <2>3 DEF Fit, Owed
  <2>5. Steps(r, h)  BY <1>1, <2>1, <2>4 DEF Steps, Move
  <2>6. \A c \in HalfOpen : Probes(h, r, c) => r \in Probing(c)
    BY <2>2, <2>3 DEF Probes, Probing, Channel
  <2> QED  BY <2>1, <2>5, <2>6, KeepSlots
<1> QED  BY <1>2, <1>3, <1>4 DEF Attempt

LEMMA ExpireKeeps ==
  ASSUME FailoverInv, NEW d \in Channels, Expire(d)
  PROVE  FailoverInv'
<1>1. UNCHANGED <<req, order, reports>>  BY DEF Expire
<1>2. overrun' \subseteq overrun \cup {d} /\ overrun \subseteq overrun'  BY DEF Expire
<1>3. ASSUME NEW c \in HalfOpen
      PROVE  /\ IsFiniteSet(Probing(c)')
             /\ c \notin overrun' => Cardinality(Probing(c)') <= slots'[c]
  <2>1. Probing(c)' = Probing(c) /\ IsFiniteSet(Probing(c))
    BY <1>1, <1>3 DEF Probing, Channel, FailoverInv, Counted
  <2>2. CASE c = d /\ Probing(c) # {}
    BY <2>1, <2>2 DEF Expire
  <2>3. CASE c = d /\ Probing(c) = {}
    <3>1. slots'[c] = 0  BY <2>3 DEF Expire, FailoverInv, Shaped, Slots
    <3> QED  BY <2>1, <2>3, <3>1, FS_EmptySet
  <2>4. CASE c # d
    <3>1. slots'[c] = slots[c]
      BY <1>3, <2>4, FailoverAssumption DEF Expire, FailoverInv, Shaped
    <3> QED  BY <1>2, <1>3, <2>1, <3>1 DEF FailoverInv, Counted
  <2> QED  BY <2>2, <2>3, <2>4
<1>4. d \in HalfOpen  BY DEF Expire, FailoverInv, Shaped, Slots
<1>5. Slots'
  BY <1>2, <1>4, FailoverAssumption DEF Expire, FailoverInv, Shaped, Slots
<1>6. Shaped'  BY <1>1, <1>5 DEF FailoverInv, Shaped
<1> QED  BY <1>3, <1>6 DEF FailoverInv, Counted

LEMMA NextKeeps ==
  ASSUME FailoverInv, [Next]_vars
  PROVE  FailoverInv'
<1>1. ASSUME NEW r \in Requests, Handle(r) \/ ClientLeaves(r) PROVE FailoverInv'
  BY <1>1, LoopKeeps, AttemptKeeps DEF Handle
<1>2. ASSUME NEW c \in Channels, Expire(c) PROVE FailoverInv'
  BY <1>2, ExpireKeeps
<1>3. CASE UNCHANGED vars
  BY <1>3 DEF vars, FailoverInv, Shaped, Slots, Counted, Probing, Channel
<1> QED  BY <1>1, <1>2, <1>3 DEF Next

\* Handlers, samples and slots keep their types: no index leaves the list of
\* candidates, no counter goes below zero or beyond the limit (proxy.go 330-520).
THEOREM TypeCorrect == Spec => []TypeOK
<1>1. Init => FailoverInv  BY InitKeeps
<1>2. FailoverInv /\ [Next]_vars => FailoverInv'  BY NextKeeps
<1>3. FailoverInv => TypeOK  BY FitIsType DEF FailoverInv
<1> QED  BY <1>1, <1>2, <1>3, PTL DEF Spec

\* Every upstream call leaves exactly one sample, whichever way its attempt ends,
\* for any number of requests and candidates (proxy.go 366-486).
THEOREM CallsAreReported == Spec => []OneReportPerCall
<1>1. Init => FailoverInv  BY InitKeeps
<1>2. FailoverInv /\ [Next]_vars => FailoverInv'  BY NextKeeps
<1>3. FailoverInv => OneReportPerCall  BY FitIsType DEF FailoverInv
<1> QED  BY <1>1, <1>2, <1>3, PTL DEF Spec

\* A half-open channel never carries more probes than slots are counted for, for
\* any limit, whatever releases are lost and in whatever order requests end,
\* unless a probe outlives the key (circuit_probe.go 15-35).
THEOREM ProbesStayWithinLimit == Spec => []ProbesWithinLimit
<1>1. Init => FailoverInv  BY InitKeeps
<1>2. FailoverInv /\ [Next]_vars => FailoverInv'  BY NextKeeps
<1>3. FailoverInv => ProbesWithinLimit
  BY FailoverAssumption DEF FailoverInv, Counted, Shaped, Slots, ProbesWithinLimit
<1> QED  BY <1>1, <1>2, <1>3, PTL DEF Spec

\* A slot that is never given back is not lost for ever: whatever reservations,
\* releases and expiries came before, a counter above zero has a time to live
\* (circuit_probe.go 20-28). SlotsComeBack rests on this.
THEOREM TakenSlotsExpire == Spec => [](\A c \in Channels : slots[c] > 0 => expires[c])
<1>1. Init => FailoverInv  BY InitKeeps
<1>2. FailoverInv /\ [Next]_vars => FailoverInv'  BY NextKeeps
<1>3. FailoverInv => \A c \in Channels : slots[c] > 0 => expires[c]
  BY DEF FailoverInv, Shaped, Slots
<1> QED  BY <1>1, <1>2, <1>3, PTL DEF Spec

\* Once the client has received a byte, there is no other call and no other
\* candidate, in any step of any request (proxy.go 393-427).
THEOREM FirstByteCommits == Spec => NoSwitchAfterFirstByte
<1> DEFINE Committed == \A r \in Requests : req[r].committed => req'[r].calls = req[r].calls /\ ~Picking(r)'
<1>1. Init => FailoverInv  BY InitKeeps
<1>2. FailoverInv /\ [Next]_vars => FailoverInv'  BY NextKeeps
<1>3. FailoverInv /\ FailoverInv' /\ [Next]_vars => [Committed]_vars
  <2> SUFFICES ASSUME FailoverInv, FailoverInv', Next, NEW q \in Requests, req[q].committed
               PROVE  req'[q].calls = req[q].calls /\ ~Picking(q)'
    OBVIOUS
  <2>1. req[q] \in Handler /\ req[q].at \in {"stream", "done"}
    BY DEF FailoverInv, Shaped, Fit
  <2>2. CASE \E c \in Channels : Expire(c)
    BY <2>1, <2>2 DEF Expire, Picking
  <2>3. CASE \E r \in Requests : Handle(r) \/ ClientLeaves(r)
    <3>1. PICK r \in Requests : Handle(r) \/ ClientLeaves(r)  BY <2>3
    <3>2. \E h : Move(r, h)
      BY <3>1 DEF Handle, Loop, Attempt, AllFailed, TryClosed, TryHalfOpen, SkipCandidate, Answer,
         CallFails, CallCanceled, FirstByte, StreamEnds, StreamBreaks, StreamWriteFails, ReadEnds,
         ReadFails, FailAttempt, SucceedAttempt, ClientLeaves
    <3>3. CASE q # r
      <4>1. req'[q] = req[q]  BY <3>2, <3>3 DEF Move, FailoverInv, Shaped
      <4> QED  BY <2>1, <4>1 DEF Picking
    <3>4. CASE q = r
      <4>1. \/ Move(r, Answered(r)) \/ Move(r, [req[r] EXCEPT !.committed = TRUE])
            \/ Move(r, [req[r] EXCEPT !.gone = TRUE])
        BY <2>1, <3>1, <3>4 DEF Handle, Loop, Attempt, AllFailed, TryClosed, TryHalfOpen,
           SkipCandidate, Picking, Answer, CallFails, CallCanceled, FirstByte, StreamEnds,
           StreamBreaks, StreamWriteFails, ReadEnds, ReadFails, FailAttempt, SucceedAttempt,
           ClientLeaves, Forwarding
      <4>2. req'[q].calls = req[q].calls /\ req'[q].at \in {req[q].at, "done"}
        BY <2>1, <3>4, <4>1 DEF Move, Answered, Handler, FailoverInv, Shaped
      <4> QED  BY <2>1, <4>2 DEF Picking
    <3> QED  BY <3>3, <3>4
  <2> QED  BY <2>2, <2>3 DEF Next
<1> QED  BY <1>1, <1>2, <1>3, PTL DEF Spec, NoSwitchAfterFirstByte
=============================================================================
