------------------------ MODULE CircuitBreakerProofs ------------------------
(* Theorems about CircuitBreaker, for every value of its constants. *)
EXTENDS CircuitBreaker, FiniteSetTheorems, TLAPS

Config == [ConfigFields -> Nat \ {0}]

(* The effective configuration of a bucket is complete and positive. *)
LEMMA ConfigType ==
    ASSUME NEW b \in Buckets
    PROVE  EffectiveConfig(b) \in Config
<1>1. CASE b = Global
  BY <1>1, ConfigAssumption DEF EffectiveConfig, Config
<1>2. CASE b # Global
  <2>1. b \in Groups
    BY <1>2 DEF Buckets
  <2>2. \A f \in ConfigFields : GroupConfig[b][f] \in Nat /\ GlobalConfig[f] \in Nat \ {0}
    BY <2>1, ConfigAssumption
  <2> QED
    BY <1>2, <2>2 DEF EffectiveConfig, Config
<1> QED
  BY <1>1, <1>2

(* Cooling durations are natural numbers, whatever the level. *)
LEMMA CoolingType ==
    ASSUME NEW level \in Nat, NEW cfg \in Config
    PROVE  CoolingAtLevel(level, cfg) \in Nat
<1>1. cfg["maxCooling"] \in Nat
  BY DEF Config, ConfigFields
<1>2. Len(CoolingBackoff) \in Nat \ {0}
  BY ConfigAssumption
<1>3. Least(level + 1, Len(CoolingBackoff)) \in 1..Len(CoolingBackoff)
  BY <1>2 DEF Least
<1>4. CoolingBackoff[Least(level + 1, Len(CoolingBackoff))] \in Nat
  BY <1>3, ConfigAssumption
<1> QED
  BY <1>1, <1>4 DEF CoolingAtLevel, Least

LEMMA BumpType ==
    ASSUME NEW n \in 0..CountCap
    PROVE  Bump(n) \in 0..CountCap
BY BoundAssumption DEF Bump, Least

(* The transition keeps a row well formed: in particular the time-driven     *)
(* half_open is never stored.                                                *)
LEMMA TransitionType ==
    ASSUME NEW r \in Row, NEW ok \in BOOLEAN, NEW shouldOpen \in BOOLEAN,
           NEW failures \in 0..CountCap, NEW successes \in 0..CountCap,
           NEW cfg \in Config
    PROVE  Transition(r, ok, failures, successes, shouldOpen, cfg) \in Row
<1> DEFINE effective == EffectiveState(r.state, r.cooling)
<1>1. /\ r.state \in StoredStates /\ r.cooling \in Nat
      /\ r.coolingLevel \in 0..Len(CoolingBackoff)
  BY DEF Row
<1>2. Len(CoolingBackoff) \in Nat \ {0} /\ CountCap \in Nat
  BY ConfigAssumption, BoundAssumption
<1>3. cfg["initialCooling"] \in Nat
  BY DEF Config, ConfigFields
<1>4. NextCooling(failures, cfg) \in Nat
  BY CoolingType, <1>2 DEF NextCooling
<1>5. CoolingAtLevel(r.coolingLevel + 1, cfg) \in Nat
  BY CoolingType, <1>1, <1>2
<1>6. NextLevel(r.coolingLevel) \in 0..Len(CoolingBackoff)
  BY <1>1, <1>2 DEF NextLevel, Least
<1>7. RecoverySuccessThreshold \in Nat
  BY ConfigAssumption
<1> DEFINE To(state, cooling, level) ==
             [state |-> state, cooling |-> cooling, failureCount |-> failures,
              successCount |-> successes, coolingLevel |-> level]
<1>8. \A state \in StoredStates, cooling \in Nat, level \in 0..Len(CoolingBackoff) :
         To(state, cooling, level) \in Row
  BY DEF Row
<1>9. {"closed", "open", "degraded"} \subseteq StoredStates
  BY DEF StoredStates
<1> HIDE DEF To
<1>10. \/ Transition(r, ok, failures, successes, shouldOpen, cfg) = To("open", cfg["initialCooling"], 0)
       \/ Transition(r, ok, failures, successes, shouldOpen, cfg) = To("degraded", 0, r.coolingLevel)
       \/ Transition(r, ok, failures, successes, shouldOpen, cfg)
            = To("open", NextCooling(failures, cfg), r.coolingLevel)
       \/ Transition(r, ok, failures, successes, shouldOpen, cfg) = To("closed", 0, 0)
       \/ Transition(r, ok, failures, successes, shouldOpen, cfg)
            = To("open", CoolingAtLevel(r.coolingLevel + 1, cfg), NextLevel(r.coolingLevel))
       \/ Transition(r, ok, failures, successes, shouldOpen, cfg) = To(r.state, 0, r.coolingLevel)
  BY DEF Transition, To
<1> QED
  BY <1>1, <1>2, <1>3, <1>4, <1>5, <1>6, <1>8, <1>9, <1>10

(* What the transition does with the counters and when it closes or opens a  *)
(* row (circuit.go 166-201).                                                 *)
LEMMA TransitionCounts ==
    ASSUME NEW r, NEW ok, NEW failures, NEW successes, NEW shouldOpen, NEW cfg
    PROVE  Transition(r, ok, failures, successes, shouldOpen, cfg).successCount = successes
BY DEF Transition

LEMMA TransitionCloses ==
    ASSUME NEW r \in Row, NEW ok \in BOOLEAN, NEW shouldOpen \in BOOLEAN,
           NEW failures, NEW successes, NEW cfg, r.state \in {"open", "degraded"},
           Transition(r, ok, failures, successes, shouldOpen, cfg).state = "closed"
    PROVE  successes >= RecoverySuccessThreshold
BY DEF Transition, EffectiveState

LEMMA TransitionOpens ==
    ASSUME NEW r \in Row, NEW ok \in BOOLEAN, NEW shouldOpen \in BOOLEAN,
           NEW failures, NEW successes, NEW cfg, r.state # "open",
           Transition(r, ok, failures, successes, shouldOpen, cfg).state = "open"
    PROVE  shouldOpen \/ r.state = "half_open"
BY DEF Transition, EffectiveState

(* A verdict is a truth value.                                               *)
LEMMA VerdictBoolean ==
    ASSUME NEW k, NEW h, NEW v \in MayOpen(k, h)
    PROVE  v \in BOOLEAN
BY DEF MayOpen, Verdicts, Trips

LEMMA PrebuiltType ==
    ASSUME NEW r \in Row
    PROVE  Prebuilt(r) \in Row /\ Prebuilt(r).state # "none"
           /\ Prebuilt(r).successCount = r.successCount
           /\ Prebuilt(r).failureCount = r.failureCount
           /\ (r.state # "none" => Prebuilt(r) = r)
           /\ (r.state = "none" => Prebuilt(r).state = "closed")
BY DEF Prebuilt, Row, StoredStates

(* The row update of one report, in full.                                    *)
LEMMA UpdateRowStep ==
    ASSUME TypeOK, NEW k \in Keys, NEW ok \in BOOLEAN, NEW shouldOpen \in BOOLEAN,
           UpdateRow(k, ok, shouldOpen)
    PROVE  /\ rows' \in [Keys -> Row]
           /\ \A q \in Keys \ {k} : rows'[q] = rows[q]
           /\ rows'[k].successCount = IF ok THEN Bump(rows[k].successCount) ELSE 0
           /\ rows[k].state \in {"open", "degraded"} /\ rows'[k].state = "closed"
                => rows'[k].successCount >= RecoverySuccessThreshold
           /\ Opens(k) => shouldOpen
<1> DEFINE r == Prebuilt(rows[k])
           failures == IF ok THEN 0 ELSE Bump(r.failureCount)
           successes == IF ok THEN Bump(r.successCount) ELSE 0
           cfg == EffectiveConfig(k[2])
<1>1. rows[k] \in Row
  BY DEF TypeOK
<1>2. /\ r \in Row /\ r.state # "none" /\ r.successCount = rows[k].successCount
      /\ (rows[k].state # "none" => r = rows[k])
      /\ (rows[k].state = "none" => r.state = "closed")
  BY <1>1, PrebuiltType
<1>3. r.failureCount \in 0..CountCap /\ r.successCount \in 0..CountCap
  BY <1>2 DEF Row
<1>4. failures \in 0..CountCap /\ successes \in 0..CountCap
  <2>1. CountCap \in Nat
    BY BoundAssumption
  <2>2. Bump(r.failureCount) \in 0..CountCap /\ Bump(r.successCount) \in 0..CountCap
    BY <1>3, BumpType
  <2> QED
    BY <2>1, <2>2
<1>5. cfg \in Config
  BY ConfigType DEF Keys
<1>6. rows' = [rows EXCEPT ![k] = Transition(r, ok, failures, successes, shouldOpen, cfg)]
  BY DEF UpdateRow
<1>7. Transition(r, ok, failures, successes, shouldOpen, cfg) \in Row
  BY <1>2, <1>4, <1>5, TransitionType
<1>8. rows \in [Keys -> Row]
  BY DEF TypeOK
<1>9. rows'[k] = Transition(r, ok, failures, successes, shouldOpen, cfg)
  BY <1>6, <1>8
<1>10. rows'[k].successCount = successes
  BY <1>9, TransitionCounts
<1>11. rows[k].state \in {"open", "degraded"} /\ rows'[k].state = "closed"
          => rows'[k].successCount >= RecoverySuccessThreshold
  BY <1>2, <1>9, <1>10, TransitionCloses
<1>12. r.state # "half_open"
  BY <1>2 DEF Row, StoredStates
<1>13. Opens(k) => shouldOpen
  BY <1>2, <1>9, <1>12, TransitionOpens DEF Opens
<1> QED
  BY <1>2, <1>6, <1>7, <1>8, <1>10, <1>11, <1>13

-----------------------------------------------------------------------------
(* Type correctness.                                                         *)

LEMMA RecordedType ==
    ASSUME TypeOK, NEW k \in Keys, NEW ok \in BOOLEAN, NEW joined \in BOOLEAN
    PROVE  Recorded(k, ok, joined) \in Seq(Sample)
<1>1. [model |-> k[1], bucket |-> k[2], origin |-> k[2],
       ok |-> ok, age |-> 0, joined |-> joined] \in Sample
  BY DEF Keys, Sample
<1> QED
  BY <1>1 DEF Recorded, TypeOK

LEMMA FinishType ==
    ASSUME TypeOK, NEW k \in Keys, Finish(k)
    PROVE  inflight' \in [Keys -> 0..MaxInflight] /\ deleted' \subseteq Deletable
BY BoundAssumption DEF Finish, TypeOK

LEMMA RowOperators ==
    ASSUME NEW r \in Row
    PROVE  /\ Cooled(r) \in Row /\ ResetRow(r) \in Row
           /\ Cooled(r).state = r.state /\ Cooled(r).successCount = r.successCount
           /\ ResetRow(r).successCount \in {0, r.successCount}
           /\ ResetRow(r).state # "open"
<1>1. CountCap \in Nat
  BY BoundAssumption
<1>2. PICK m \in Nat : m = IF r.cooling > 0 THEN r.cooling - 1 ELSE 0
  BY DEF Row
<1>3. Cooled(r) = [r EXCEPT !.cooling = m]
  BY <1>2 DEF Cooled
<1>4. Cooled(r) \in Row /\ Cooled(r).state = r.state /\ Cooled(r).successCount = r.successCount
  BY <1>3 DEF Row
<1>5. CASE r.state = "none"
  BY <1>4, <1>5 DEF ResetRow
<1>6. CASE r.state # "none"
  <2>1. ResetRow(r) = [r EXCEPT !.state = "closed", !.cooling = 0,
                                !.failureCount = 0, !.successCount = 0]
    BY <1>6 DEF ResetRow
  <2>2. ResetRow(r) \in Row
    <3>1. ResetRow(r) = [state |-> "closed", cooling |-> 0, failureCount |-> 0,
                         successCount |-> 0, coolingLevel |-> r.coolingLevel]
      BY <2>1 DEF Row
    <3>2. 0 \in 0..CountCap /\ r.coolingLevel \in 0..Len(CoolingBackoff)
      BY <1>1 DEF Row
    <3> QED
      BY <3>1, <3>2 DEF Row, StoredStates
  <2>3. ResetRow(r).successCount = 0 /\ ResetRow(r).state = "closed"
    BY <2>1 DEF Row
  <2> QED
    BY <1>4, <2>2, <2>3
<1> QED
  BY <1>5, <1>6

LEMMA SampleOperators ==
    ASSUME NEW s \in Sample, NEW g
    PROVE  /\ Older(s) \in Sample /\ Ungrouped(s, g) \in Sample
           /\ \A f \in {"model", "origin", "ok"} :
                 Older(s)[f] = s[f] /\ Ungrouped(s, g)[f] = s[f]
           /\ Older(s).bucket = s.bucket
BY DEF Older, Ungrouped, Sample, Buckets

LEMMA TypeStep == TypeOK /\ [Next]_vars => TypeOK'
<1> SUFFICES ASSUME TypeOK, [Next]_vars PROVE TypeOK'
  OBVIOUS
<1>1. ASSUME NEW k \in Keys, Start(k) PROVE TypeOK'
  BY <1>1, BoundAssumption DEF Start, TypeOK
<1>2. ASSUME NEW k \in Keys, NEW joined \in BOOLEAN, ReportSuccess(k, joined) PROVE TypeOK'
  <2>1. history' \in Seq(Sample)
    BY <1>2, RecordedType DEF ReportSuccess
  <2>2. rows' \in [Keys -> Row]
    BY <1>2, UpdateRowStep DEF ReportSuccess
  <2> QED
    BY <1>2, <2>1, <2>2, FinishType DEF ReportSuccess, Reportable, TypeOK
<1>3. ASSUME NEW k \in Keys, NEW joined \in BOOLEAN, ReportFailure(k, joined) PROVE TypeOK'
  <2>1. history' \in Seq(Sample)
    BY <1>3, RecordedType DEF ReportFailure
  <2>2. PICK v \in MayOpen(k, history') : UpdateRow(k, FALSE, v)
    BY <1>3 DEF ReportFailure
  <2>3. v \in BOOLEAN
    BY VerdictBoolean
  <2>4. rows' \in [Keys -> Row]
    BY <2>2, <2>3, UpdateRowStep
  <2> QED
    BY <1>3, <2>1, <2>4, FinishType DEF ReportFailure, Reportable, TypeOK
<1>4. ASSUME NEW k \in Keys, ReportEarlyCancel(k) PROVE TypeOK'
  <2>1. PICK v \in MayOpen(k, history) : UpdateRow(k, FALSE, v)
    BY <1>4 DEF ReportEarlyCancel
  <2>2. v \in BOOLEAN
    BY VerdictBoolean
  <2>3. rows' \in [Keys -> Row]
    BY <2>1, <2>2, UpdateRowStep
  <2> QED
    BY <1>4, <2>3, FinishType DEF ReportEarlyCancel, TypeOK
<1>5. ASSUME NEW k \in Keys, ReportCanceled(k) \/ LoseSample(k) PROVE TypeOK'
  BY <1>5, FinishType DEF ReportCanceled, LoseSample, TypeOK
<1>6. CASE ResetCircuit
  BY <1>6, RowOperators DEF ResetCircuit, TypeOK
<1>7. ASSUME NEW g \in Deletable, DeleteGroup(g) PROVE TypeOK'
  <2>1. Len(history) \in Nat /\ \A i \in 1..Len(history) : history[i] \in Sample
    BY DEF TypeOK
  <2>2. \A i \in 1..Len(history) : Ungrouped(history[i], g) \in Sample
    BY <2>1, SampleOperators
  <2>3. history' \in Seq(Sample)
    BY <1>7, <2>1, <2>2 DEF DeleteGroup
  <2> QED
    BY <1>7, <2>3 DEF DeleteGroup, TypeOK
<1>8. CASE Tick
  <2>1. rows' \in [Keys -> Row]
    BY <1>8, RowOperators DEF Tick, TypeOK
  <2>2. PICK n \in 0..Len(history) :
            history' = [i \in 1..(Len(history) - n) |-> Older(history[i + n])]
    BY <1>8 DEF Tick
  <2>3. Len(history) \in Nat /\ \A i \in 1..Len(history) : history[i] \in Sample
    BY DEF TypeOK
  <2>4. \A i \in 1..(Len(history) - n) : Older(history[i + n]) \in Sample
    <3> SUFFICES ASSUME NEW i \in 1..(Len(history) - n) PROVE Older(history[i + n]) \in Sample
      OBVIOUS
    <3>1. history[i + n] \in Sample
      BY <2>3
    <3> QED
      BY <3>1, SampleOperators
  <2>5. history' \in Seq(Sample)
    BY <2>2, <2>3, <2>4
  <2> QED
    BY <1>8, <2>1, <2>5 DEF Tick, TypeOK
<1>9. CASE UNCHANGED vars
  BY <1>9 DEF vars, TypeOK
<1> QED
  BY <1>1, <1>2, <1>3, <1>4, <1>5, <1>6, <1>7, <1>8, <1>9 DEF Next, Report

LEMMA TypeInit == Init => TypeOK
BY BoundAssumption DEF Init, TypeOK, Row, NoRow, StoredStates

(* Every reachable row, sample and counter is well formed.                   *)
THEOREM TypeCorrect == Spec => []TypeOK
BY TypeInit, TypeStep, PTL DEF Spec

-----------------------------------------------------------------------------
(* A circuit opens only on its own failures.                                 *)

(* Every sample is in the bucket it was written for, or was moved to the     *)
(* global bucket when its group was deleted.                                 *)
Provenance ==
    \A i \in 1..Len(history) :
        \/ history[i].bucket = history[i].origin
        \/ history[i].bucket = Global /\ history[i].origin \in deleted

LEMMA ProvenanceStep == TypeOK /\ Provenance /\ [Next]_vars => Provenance'
<1> SUFFICES ASSUME TypeOK, Provenance, [Next]_vars PROVE Provenance'
  OBVIOUS
<1>0. Len(history) \in Nat /\ \A i \in 1..Len(history) : history[i] \in Sample
  BY DEF TypeOK
<1>1. ASSUME NEW k \in Keys, NEW ok \in BOOLEAN, NEW joined \in BOOLEAN,
             history' = Recorded(k, ok, joined), deleted' = deleted
      PROVE  Provenance'
  <2>1. /\ Len(history') = Len(history) + 1
        /\ \A i \in 1..Len(history) : history'[i] = history[i]
        /\ history'[Len(history) + 1].bucket = history'[Len(history) + 1].origin
    BY <1>0, <1>1 DEF Recorded, TypeOK
  <2> QED
    BY <1>0, <1>1, <2>1 DEF Provenance
<1>2. ASSUME history' = history, deleted' = deleted PROVE Provenance'
  BY <1>2 DEF Provenance
<1>3. ASSUME NEW g \in Deletable, DeleteGroup(g) PROVE Provenance'
  <2>1. Len(history') = Len(history)
        /\ \A i \in 1..Len(history) : history'[i] = Ungrouped(history[i], g)
    BY <1>0, <1>3 DEF DeleteGroup
  <2>2. ASSUME NEW i \in 1..Len(history)
        PROVE  \/ history'[i].bucket = history'[i].origin
               \/ history'[i].bucket = Global /\ history'[i].origin \in deleted'
    <3>1. history[i] \in Sample
      BY <1>0
    <3>2. CASE history[i].bucket = g
      <4>1. history'[i].bucket = Global /\ history'[i].origin = history[i].origin
        BY <2>1, <3>1, <3>2 DEF Ungrouped, Sample
      <4>2. history[i].origin = g \/ history[i].origin \in deleted
        BY <3>2 DEF Provenance
      <4> QED
        BY <1>3, <4>1, <4>2 DEF DeleteGroup
    <3>3. CASE history[i].bucket # g
      BY <1>3, <2>1, <3>3 DEF Ungrouped, Provenance, DeleteGroup
    <3> QED
      BY <3>2, <3>3
  <2> QED
    BY <2>1, <2>2 DEF Provenance
<1>4. ASSUME Tick PROVE Provenance'
  <2>1. PICK n \in 0..Len(history) :
            history' = [i \in 1..(Len(history) - n) |-> Older(history[i + n])]
    BY <1>4 DEF Tick
  <2>2. Len(history') = Len(history) - n
    BY <1>0, <2>1
  <2>3. ASSUME NEW i \in 1..Len(history')
        PROVE  \/ history'[i].bucket = history'[i].origin
               \/ history'[i].bucket = Global /\ history'[i].origin \in deleted'
    <3>1. i + n \in 1..Len(history) /\ history'[i] = Older(history[i + n])
      BY <1>0, <2>1, <2>2
    <3>2. history[i + n] \in Sample
      BY <1>0, <3>1
    <3>3. /\ history'[i].bucket = history[i + n].bucket
          /\ history'[i].origin = history[i + n].origin
      BY <3>1, <3>2 DEF Older, Sample
    <3> QED
      BY <1>4, <3>1, <3>3 DEF Provenance, Tick
  <2> QED
    BY <2>3 DEF Provenance
<1>5. CASE UNCHANGED vars
  BY <1>2, <1>5 DEF vars
<1>6. ASSUME NEW k \in Keys, Start(k) \/ Report(k) PROVE Provenance'
  BY <1>1, <1>2, <1>6 DEF Start, Report, ReportSuccess, ReportFailure, ReportEarlyCancel,
     ReportCanceled, LoseSample, Reportable, Finish
<1>7. CASE ResetCircuit
  BY <1>2, <1>7 DEF ResetCircuit
<1> QED
  BY <1>3, <1>4, <1>5, <1>6, <1>7 DEF Next

(* A verdict to open rests on openMinFailures failures of the key.           *)
LEMMA VerdictEvidence ==
    ASSUME NEW k \in Keys, NEW h \in Seq(Sample), TRUE \in MayOpen(k, h)
    PROVE  Cardinality(Failures(h, Of(h, k))) >= EffectiveConfig(k[2])["openMinFailures"]
<1> DEFINE cfg == EffectiveConfig(k[2])
<1>0. cfg["openMinFailures"] \in Nat
  BY ConfigType DEF Keys, Config, ConfigFields
<1>1. PICK W \in RecentRows(h, k, cfg["minSamples"]) : Trips(h, W, cfg)
  BY DEF MayOpen, Verdicts
<1>2. Cardinality(Failures(h, W)) >= cfg["openMinFailures"]
  BY <1>1 DEF Trips
<1>3. Failures(h, W) \subseteq Failures(h, Of(h, k))
  BY DEF RecentRows, Failures
<1>4. IsFiniteSet(1..Len(h))
  BY FS_Interval
<1>5. Failures(h, Of(h, k)) \subseteq 1..Len(h)
  BY DEF Failures, Of
<1>6. IsFiniteSet(Failures(h, Of(h, k)))
  BY <1>4, <1>5, FS_Subset
<1>7. /\ Cardinality(Failures(h, W)) <= Cardinality(Failures(h, Of(h, k)))
      /\ Cardinality(Failures(h, W)) \in Nat /\ Cardinality(Failures(h, Of(h, k))) \in Nat
  BY <1>3, <1>6, FS_Subset, FS_CardinalityType
<1> QED
  BY <1>0, <1>2, <1>7

LEMMA EvidenceIsOwn ==
    ASSUME TypeOK', Provenance', deleted' = deleted, NEW k \in Keys, TRUE \in MayOpen(k, history')
    PROVE  HasOwnFailures(k)
<1> DEFINE h == history'
           own == Failures(h, Own(h, k) \cup Inherited(h, k))
<1>1. h \in Seq(Sample)
  BY DEF TypeOK
<1>2. Cardinality(Failures(h, Of(h, k))) >= EffectiveConfig(k[2])["openMinFailures"]
  BY <1>1, VerdictEvidence
<1>3. Of(h, k) \subseteq Own(h, k) \cup Inherited(h, k)
  BY DEF Of, Own, Inherited, Provenance, Keys
<1>4. Failures(h, Of(h, k)) \subseteq own
  BY <1>3 DEF Failures
<1>5. own \subseteq 1..Len(h)
  BY DEF Failures, Own, Inherited, Of
<1>6. IsFiniteSet(own)
  <2>1. Len(h) \in Nat
    BY <1>1
  <2>2. IsFiniteSet(1..Len(h))
    BY <2>1, FS_Interval
  <2> QED
    BY <1>5, <2>2, FS_Subset
<1>7. /\ Cardinality(Failures(h, Of(h, k))) <= Cardinality(own)
      /\ Cardinality(Failures(h, Of(h, k))) \in Nat /\ Cardinality(own) \in Nat
  BY <1>4, <1>6, FS_Subset, FS_CardinalityType
<1>8. EffectiveConfig(k[2])["openMinFailures"] \in Nat
  BY ConfigType DEF Keys, Config, ConfigFields
<1> QED
  BY <1>2, <1>7, <1>8 DEF HasOwnFailures

(* Which steps change a row's state, and how.                                *)
LEMMA OpensStep ==
    ASSUME TypeOK, TypeOK', Provenance', [Next]_vars, NEW k \in Keys, Opens(k)
    PROVE  HasOwnFailures(k)
<1>1. ASSUME rows' = rows PROVE FALSE
  BY <1>1 DEF Opens
<1>2. ASSUME NEW q \in Keys, NEW joined \in BOOLEAN, ReportSuccess(q, joined) PROVE FALSE
  BY <1>2, UpdateRowStep DEF ReportSuccess, Opens
<1>3. ASSUME NEW q \in Keys, NEW joined \in BOOLEAN, ReportFailure(q, joined)
      PROVE  HasOwnFailures(k)
  <2>1. PICK v \in MayOpen(q, history') : UpdateRow(q, FALSE, v)
    BY <1>3 DEF ReportFailure
  <2>2. v \in BOOLEAN
    BY VerdictBoolean
  <2>3. q = k /\ v
    BY <2>1, <2>2, UpdateRowStep DEF Opens
  <2>4. deleted' = deleted
    BY <1>3 DEF ReportFailure, Reportable, Finish
  <2> QED
    BY <2>1, <2>2, <2>3, <2>4, EvidenceIsOwn
<1>4. ASSUME NEW q \in Keys, ReportEarlyCancel(q) PROVE HasOwnFailures(k)
  <2>1. PICK v \in MayOpen(q, history) : UpdateRow(q, FALSE, v)
    BY <1>4 DEF ReportEarlyCancel
  <2>2. v \in BOOLEAN
    BY VerdictBoolean
  <2>3. q = k /\ v
    BY <2>1, <2>2, UpdateRowStep DEF Opens
  <2>4. deleted' = deleted /\ history' = history
    BY <1>4 DEF ReportEarlyCancel, Finish
  <2>5. TRUE \in MayOpen(k, history')
    BY <2>1, <2>2, <2>3, <2>4
  <2> QED
    BY <2>4, <2>5, EvidenceIsOwn
<1>5. CASE ResetCircuit
  BY <1>5, RowOperators DEF ResetCircuit, Opens, TypeOK
<1>6. CASE Tick
  BY <1>6, RowOperators DEF Tick, Opens, TypeOK
<1> QED
  BY <1>1, <1>2, <1>3, <1>4, <1>5, <1>6 DEF Next, Report, Start, ReportCanceled, LoseSample,
     DeleteGroup, vars

(* A circuit opens only on failures of its own model and bucket.             *)
THEOREM OpensOnlyOnOwnFailures == Spec => OpensOnOwnFailures
<1>1. Init => TypeOK /\ Provenance
  BY TypeInit DEF Init, Provenance
<1>2. TypeOK /\ Provenance /\ [Next]_vars => TypeOK' /\ Provenance'
  BY TypeStep, ProvenanceStep
<1>3. TypeOK /\ Provenance /\ TypeOK' /\ Provenance' /\ [Next]_vars
        => [\A k \in Keys : Opens(k) => HasOwnFailures(k)]_vars
  BY OpensStep
<1> QED
  BY <1>1, <1>2, <1>3, PTL DEF Spec, OpensOnOwnFailures

-----------------------------------------------------------------------------
(* A circuit closes only after the recovery threshold.                       *)

(* success_count counts consecutive successes: that many at least follow     *)
(* every own failure still in the window.                                    *)
CountInv == \A k \in Keys : RecoveredBy(history, k, rows[k].successCount)

(* Appending a sample.                                                       *)
LEMMA RecoveryGrows ==
    ASSUME NEW h \in Seq(Sample), NEW s \in Sample, NEW k \in Keys, NEW n \in Nat,
           RecoveredBy(h, k, n), s.ok \/ <<s.model, s.origin>> # k
    PROVE  /\ RecoveredBy(Append(h, s), k, n)
           /\ <<s.model, s.origin>> = k => RecoveredBy(Append(h, s), k, n + 1)
<1> DEFINE g == Append(h, s)
           After(hh, i) == {j \in Own(hh, k) : i < j /\ hh[j].ok}
<1>1. /\ Len(g) = Len(h) + 1 /\ Len(h) \in Nat
      /\ \A i \in 1..Len(h) : g[i] = h[i]
      /\ g[Len(h) + 1] = s
  OBVIOUS
<1>2. k = <<k[1], k[2]>>
  BY DEF Keys
<1>3. Failures(g, Own(g, k)) \subseteq Failures(h, Own(h, k))
  BY <1>1, <1>2 DEF Failures, Own
<1>4. ASSUME NEW i \in Failures(g, Own(g, k))
      PROVE  /\ Cardinality(After(g, i)) >= n
             /\ <<s.model, s.origin>> = k => Cardinality(After(g, i)) >= n + 1
  <2>1. i \in 1..Len(h) /\ Cardinality(After(h, i)) >= n
    BY <1>3 DEF RecoveredBy, Failures, Own
  <2>2. After(h, i) \subseteq 1..Len(h)
    BY DEF Own
  <2>3. IsFiniteSet(After(h, i))
    <3>1. IsFiniteSet(1..Len(h))
      BY <1>1, FS_Interval
    <3> QED
      BY <2>2, <3>1, FS_Subset
  <2>4. CASE <<s.model, s.origin>> # k
    <3>1. After(g, i) = After(h, i)
      BY <1>1, <1>2, <2>4 DEF Own
    <3> QED
      BY <2>1, <2>4, <3>1
  <2>5. CASE <<s.model, s.origin>> = k
    <3>1. After(g, i) = After(h, i) \cup {Len(h) + 1}
      BY <1>1, <1>2, <2>1, <2>5 DEF Own
    <3>2. Len(h) + 1 \notin After(h, i)
      BY <1>1, <2>2
    <3>3. Cardinality(After(g, i)) = Cardinality(After(h, i)) + 1
      BY <2>3, <3>1, <3>2, FS_AddElement
    <3>4. Cardinality(After(h, i)) \in Nat
      BY <2>3, FS_CardinalityType
    <3> HIDE DEF After
    <3> QED
      BY <2>1, <3>3, <3>4
  <2> QED
    BY <2>4, <2>5
<1> QED
  BY <1>4 DEF RecoveredBy

(* Nothing has to recover for zero successes.                                *)
LEMMA RecoveryZero ==
    ASSUME NEW h \in Seq(Sample), NEW k
    PROVE  RecoveredBy(h, k, 0)
<1> SUFFICES ASSUME NEW i \in Failures(h, Own(h, k))
             PROVE  Cardinality({j \in Own(h, k) : i < j /\ h[j].ok}) >= 0
  BY DEF RecoveredBy
<1>1. {j \in Own(h, k) : i < j /\ h[j].ok} \subseteq 1..Len(h)
  BY DEF Own
<1>2. IsFiniteSet(1..Len(h))
  BY FS_Interval
<1>3. Cardinality({j \in Own(h, k) : i < j /\ h[j].ok}) \in Nat
  BY <1>1, <1>2, FS_Subset, FS_CardinalityType
<1> QED
  BY <1>3

(* The oldest samples leaving the window does not hurt: what follows a       *)
(* remaining failure remains.                                                *)
LEMMA RecoveryShifts ==
    ASSUME NEW h \in Seq(Sample), NEW n \in 0..Len(h), NEW k \in Keys, NEW m \in Nat,
           RecoveredBy(h, k, m)
    PROVE  RecoveredBy([i \in 1..(Len(h) - n) |-> Older(h[i + n])], k, m)
<1> DEFINE g == [i \in 1..(Len(h) - n) |-> Older(h[i + n])]
           After(hh, i) == {j \in Own(hh, k) : i < j /\ hh[j].ok}
<1>1. Len(h) \in Nat /\ \A i \in 1..Len(h) : h[i] \in Sample
  OBVIOUS
<1>2. Len(g) = Len(h) - n
  BY <1>1
<1>3. ASSUME NEW i \in 1..(Len(h) - n)
      PROVE  /\ i + n \in 1..Len(h)
             /\ g[i].model = h[i + n].model /\ g[i].origin = h[i + n].origin
             /\ g[i].ok = h[i + n].ok
  <2>1. i + n \in 1..Len(h) /\ h[i + n] \in Sample /\ g[i] = Older(h[i + n])
    BY <1>1
  <2> QED
    BY <2>1 DEF Older, Sample
<1>4. ASSUME NEW i \in Failures(g, Own(g, k))
      PROVE  Cardinality(After(g, i)) >= m
  <2>1. i \in 1..(Len(h) - n) /\ i + n \in Failures(h, Own(h, k))
    BY <1>2, <1>3, <1>4 DEF Failures, Own
  <2>2. Cardinality(After(h, i + n)) >= m
    BY <2>1 DEF RecoveredBy
  <2> DEFINE shift == [j \in After(g, i) |-> j + n]
  <2>3. IsFiniteSet(After(g, i))
    <3>1. After(g, i) \subseteq 1..Len(g) /\ Len(g) \in Int
      BY <1>1, <1>2 DEF Own
    <3>2. IsFiniteSet(1..Len(g))
      BY <3>1, FS_Interval
    <3> QED
      BY <3>1, <3>2, FS_Subset
  <2>4. \A j \in After(g, i) : j + n \in After(h, i + n)
    BY <1>1, <1>2, <1>3, <2>1 DEF Own
  <2>5. \A j \in After(h, i + n) : j - n \in After(g, i)
    <3> SUFFICES ASSUME NEW j \in After(h, i + n) PROVE j - n \in After(g, i)
      OBVIOUS
    <3>1. j \in 1..Len(h) /\ i + n < j
      BY DEF Own
    <3>2. j - n \in 1..(Len(h) - n) /\ i < j - n /\ (j - n) + n = j
      BY <1>1, <2>1, <3>1
    <3> QED
      BY <1>2, <1>3, <3>1, <3>2 DEF Own
  <2>6. shift \in Bijection(After(g, i), After(h, i + n))
    <3>1. After(g, i) \subseteq Int /\ After(h, i + n) \subseteq Int /\ n \in Int
      BY <1>1, <1>2 DEF Own
    <3>2. \A j \in After(h, i + n) : (j - n) + n = j
      BY <3>1
    <3>3. \A a, b \in After(g, i) : a + n = b + n => a = b
      BY <3>1
    <3>4. shift \in [After(g, i) -> After(h, i + n)]
      BY <2>4
    <3>5. \A j \in After(h, i + n) : \E a \in After(g, i) : shift[a] = j
      BY <2>5, <3>2
    <3> QED
      BY <3>3, <3>4, <3>5 DEF Bijection, Injection, Surjection, IsInjective
  <2>7. Cardinality(After(g, i)) = Cardinality(After(h, i + n))
    BY <2>3, <2>6, FS_Bijection DEF ExistsBijection
  <2> QED
    BY <2>2, <2>7
<1> QED
  BY <1>4 DEF RecoveredBy

(* A weaker demand is met as well.                                           *)
LEMMA RecoveryWeakens ==
    ASSUME NEW h \in Seq(Sample), NEW k, NEW n \in Nat, NEW m \in 0..n, RecoveredBy(h, k, n)
    PROVE  RecoveredBy(h, k, m)
<1> SUFFICES ASSUME NEW i \in Failures(h, Own(h, k))
             PROVE  Cardinality({j \in Own(h, k) : i < j /\ h[j].ok}) >= m
  BY DEF RecoveredBy
<1> DEFINE after == {j \in Own(h, k) : i < j /\ h[j].ok}
<1>1. after \subseteq 1..Len(h)
  BY DEF Own
<1>2. IsFiniteSet(1..Len(h))
  BY FS_Interval
<1>3. Cardinality(after) \in Nat
  BY <1>1, <1>2, FS_Subset, FS_CardinalityType
<1>4. Cardinality(after) >= n
  BY DEF RecoveredBy
<1> HIDE DEF after
<1>5. Cardinality(after) >= m
  BY <1>3, <1>4
<1> QED
  BY <1>5 DEF after

LEMMA CountStep == TypeOK /\ CountInv /\ [Next]_vars => CountInv'
<1> SUFFICES ASSUME TypeOK, CountInv, [Next]_vars, NEW k \in Keys
             PROVE  RecoveredBy(history', k, rows'[k].successCount)
  BY DEF CountInv
<1>0. /\ history \in Seq(Sample) /\ history' \in Seq(Sample)
      /\ rows[k] \in Row /\ rows[k].successCount \in Nat
      /\ RecoveredBy(history, k, rows[k].successCount)
  <2>1. CountCap \in Nat
    BY BoundAssumption
  <2> QED
    BY <2>1, TypeStep DEF TypeOK, Row, CountInv
<1>1. ASSUME rows'[k] = rows[k], history' = history
      PROVE  RecoveredBy(history', k, rows'[k].successCount)
  BY <1>0, <1>1
<1>2. ASSUME NEW q \in Keys, NEW joined \in BOOLEAN, ReportSuccess(q, joined)
      PROVE  RecoveredBy(history', k, rows'[k].successCount)
  <2> DEFINE s == [model |-> q[1], bucket |-> q[2], origin |-> q[2],
                   ok |-> TRUE, age |-> 0, joined |-> joined]
  <2>1. s \in Sample /\ s.ok /\ <<s.model, s.origin>> = q
    BY DEF Keys, Sample
  <2>2. history' = Append(history, s)
    BY <1>2 DEF ReportSuccess, Recorded
  <2>3. /\ RecoveredBy(history', k, rows[k].successCount)
        /\ q = k => RecoveredBy(history', k, rows[k].successCount + 1)
    <3> HIDE DEF s
    <3> QED
      BY <1>0, <2>1, <2>2, RecoveryGrows
  <2>4. CASE q = k
    <3>1. rows'[k].successCount = Bump(rows[k].successCount)
      BY <1>2, <2>4, UpdateRowStep DEF ReportSuccess
    <3>2. Bump(rows[k].successCount) \in 0..(rows[k].successCount + 1)
      <4>1. CountCap \in Nat
        BY BoundAssumption
      <4> QED
        BY <1>0, <4>1 DEF Bump, Least
    <3> QED
      BY <1>0, <2>3, <2>4, <3>1, <3>2, RecoveryWeakens
  <2>5. CASE q # k
    <3>1. rows'[k] = rows[k]
      BY <1>2, <2>5, UpdateRowStep DEF ReportSuccess
    <3> QED
      BY <2>3, <3>1
  <2> QED
    BY <2>4, <2>5
<1>3. ASSUME NEW q \in Keys, NEW joined \in BOOLEAN, ReportFailure(q, joined)
      PROVE  RecoveredBy(history', k, rows'[k].successCount)
  <2>1. PICK v \in MayOpen(q, history') : UpdateRow(q, FALSE, v)
    BY <1>3 DEF ReportFailure
  <2>2. v \in BOOLEAN
    BY VerdictBoolean
  <2>3. CASE q = k
    <3>1. rows'[k].successCount = 0
      BY <2>1, <2>2, <2>3, UpdateRowStep
    <3> QED
      BY <1>0, <3>1, RecoveryZero
  <2>4. CASE q # k
    <3> DEFINE s == [model |-> q[1], bucket |-> q[2], origin |-> q[2],
                     ok |-> FALSE, age |-> 0, joined |-> joined]
    <3>1. s \in Sample /\ <<s.model, s.origin>> # k
      BY <2>4 DEF Keys, Sample
    <3>2. history' = Append(history, s)
      BY <1>3 DEF ReportFailure, Recorded
    <3>3. rows'[k] = rows[k]
      BY <2>1, <2>2, <2>4, UpdateRowStep
    <3> HIDE DEF s
    <3> QED
      BY <1>0, <3>1, <3>2, <3>3, RecoveryGrows
  <2> QED
    BY <2>3, <2>4
<1>4. ASSUME NEW q \in Keys, ReportEarlyCancel(q)
      PROVE  RecoveredBy(history', k, rows'[k].successCount)
  <2>1. PICK v \in MayOpen(q, history) : UpdateRow(q, FALSE, v)
    BY <1>4 DEF ReportEarlyCancel
  <2>2. v \in BOOLEAN /\ history' = history
    BY <1>4, VerdictBoolean DEF ReportEarlyCancel
  <2>3. CASE q = k
    <3>1. rows'[k].successCount = 0
      BY <2>1, <2>2, <2>3, UpdateRowStep
    <3> QED
      BY <1>0, <3>1, RecoveryZero
  <2>4. CASE q # k
    <3>1. rows'[k] = rows[k]
      BY <2>1, <2>2, <2>4, UpdateRowStep
    <3> QED
      BY <1>1, <2>2, <3>1
  <2> QED
    BY <2>3, <2>4
<1>5. CASE ResetCircuit
  <2>1. history' = history /\ rows'[k].successCount \in {0, rows[k].successCount}
    BY <1>0, <1>5, RowOperators DEF ResetCircuit
  <2> QED
    BY <1>0, <2>1, RecoveryZero
<1>6. ASSUME NEW g \in Deletable, DeleteGroup(g)
      PROVE  RecoveredBy(history', k, rows'[k].successCount)
  <2>1. /\ rows' = rows /\ Len(history') = Len(history)
        /\ \A i \in 1..Len(history) : history'[i] = Ungrouped(history[i], g)
    BY <1>0, <1>6 DEF DeleteGroup
  <2>2. \A i \in 1..Len(history) :
            /\ history'[i].model = history[i].model /\ history'[i].origin = history[i].origin
            /\ history'[i].ok = history[i].ok
    <3> SUFFICES ASSUME NEW i \in 1..Len(history)
                 PROVE  /\ history'[i].model = history[i].model
                        /\ history'[i].origin = history[i].origin
                        /\ history'[i].ok = history[i].ok
      OBVIOUS
    <3>1. history[i] \in Sample /\ history'[i] = Ungrouped(history[i], g)
      BY <1>0, <2>1
    <3> QED
      BY <3>1 DEF Ungrouped, Sample
  <2>3. Own(history', k) = Own(history, k)
    BY <2>1, <2>2 DEF Own
  <2>4. Failures(history', Own(history', k)) = Failures(history, Own(history, k))
    BY <2>2, <2>3 DEF Failures, Own
  <2>5. \A i : {j \in Own(history', k) : i < j /\ history'[j].ok}
                = {j \in Own(history, k) : i < j /\ history[j].ok}
    BY <2>2, <2>3 DEF Own
  <2> QED
    BY <1>0, <2>1, <2>4, <2>5 DEF RecoveredBy
<1>7. CASE Tick
  <2>1. PICK n \in 0..Len(history) :
            history' = [i \in 1..(Len(history) - n) |-> Older(history[i + n])]
    BY <1>7 DEF Tick
  <2>2. rows'[k].successCount = rows[k].successCount
    BY <1>0, <1>7, RowOperators DEF Tick
  <2> QED
    BY <1>0, <2>1, <2>2, RecoveryShifts
<1>8. CASE UNCHANGED vars
  BY <1>1, <1>8 DEF vars
<1> QED
  BY <1>1, <1>2, <1>3, <1>4, <1>5, <1>6, <1>7, <1>8 DEF Next, Report, Start, ReportCanceled, LoseSample

LEMMA ClosesStep ==
    ASSUME TypeOK, TypeOK', CountInv', [Next]_vars, NEW k \in Keys, Closes(k)
    PROVE  ResetCircuit \/ RecoveredBy(history', k, RecoverySuccessThreshold)
<1>1. ASSUME rows'[k].successCount >= RecoverySuccessThreshold
      PROVE  RecoveredBy(history', k, RecoverySuccessThreshold)
  <2>1. rows'[k].successCount \in Nat /\ RecoverySuccessThreshold \in Nat
    BY BoundAssumption, ConfigAssumption DEF TypeOK, Row
  <2>2. RecoveredBy(history', k, rows'[k].successCount) /\ history' \in Seq(Sample)
    BY DEF CountInv, TypeOK
  <2> QED
    BY <1>1, <2>1, <2>2, RecoveryWeakens
<1>2. ASSUME NEW q \in Keys, NEW ok \in BOOLEAN, NEW v \in BOOLEAN, UpdateRow(q, ok, v)
      PROVE  rows'[k].successCount >= RecoverySuccessThreshold
  BY <1>2, UpdateRowStep DEF Closes
<1>3. ASSUME NEW q \in Keys, Report(q)
      PROVE  rows' = rows \/ rows'[k].successCount >= RecoverySuccessThreshold
  <2>1. \A h : MayOpen(q, h) \subseteq BOOLEAN
    BY VerdictBoolean
  <2>2. \/ \E ok \in BOOLEAN, v \in BOOLEAN : UpdateRow(q, ok, v)
        \/ rows' = rows
    BY <1>3, <2>1 DEF Report, ReportSuccess, ReportFailure, ReportEarlyCancel,
       ReportCanceled, LoseSample
  <2> QED
    BY <1>2, <2>2
<1>4. ASSUME rows' = rows PROVE FALSE
  BY <1>4 DEF Closes
<1>5. CASE Tick
  BY <1>5, RowOperators DEF Tick, Closes, TypeOK
<1> QED
  BY <1>1, <1>3, <1>4, <1>5 DEF Next, Start, DeleteGroup, vars

(* Traffic closes a circuit only when recovery_success_threshold successes   *)
(* follow every failure still in the window.                                 *)
THEOREM ClosesAfterRecovery == Spec => ClosesOnlyAfterRecovery
<1>1. Init => TypeOK /\ CountInv
  <2> SUFFICES ASSUME Init PROVE TypeOK /\ CountInv
    OBVIOUS
  <2>1. TypeOK
    BY TypeInit
  <2>2. \A k \in Keys : rows[k].successCount = 0
    BY DEF Init, NoRow
  <2> QED
    BY <2>1, <2>2, RecoveryZero DEF TypeOK, CountInv
<1>2. TypeOK /\ CountInv /\ [Next]_vars => TypeOK' /\ CountInv'
  BY TypeStep, CountStep
<1>3. TypeOK /\ TypeOK' /\ CountInv' /\ [Next]_vars
        => [\A k \in Keys : Closes(k) =>
               ResetCircuit \/ RecoveredBy(history', k, RecoverySuccessThreshold)]_vars
  BY ClosesStep
<1> QED
  BY <1>1, <1>2, <1>3, PTL DEF Spec, ClosesOnlyAfterRecovery

-----------------------------------------------------------------------------
(* A success skips no state.                                                 *)

LEMMA TransitionOnSuccess ==
    ASSUME NEW r \in Row, r.state # "none", NEW failures, NEW successes, NEW cfg
    PROVE  OnTheWayBack(r, Transition(r, TRUE, failures, successes, FALSE, cfg))
<1> DEFINE new == Transition(r, TRUE, failures, successes, FALSE, cfg)
<1>1. CASE EffectiveState(r.state, r.cooling) = "half_open"
  <2>1. new.state = "degraded"
    BY <1>1 DEF Transition
  <2>2. r.state = "open" /\ r.cooling = 0
    BY <1>1 DEF EffectiveState, Row, StoredStates
  <2> QED
    BY <2>1, <2>2 DEF OnTheWayBack
<1>2. CASE EffectiveState(r.state, r.cooling) # "half_open"
  <2>1. EffectiveState(r.state, r.cooling) = r.state
    BY <1>2 DEF EffectiveState
  <2>2. new.state = r.state \/ (r.state = "degraded" /\ new.state = "closed")
    BY <1>2, <2>1 DEF Transition
  <2> QED
    BY <2>2 DEF OnTheWayBack
<1> QED
  BY <1>1, <1>2

LEMMA SuccessStep ==
    ASSUME TypeOK, NEW k \in Keys, NEW joined \in BOOLEAN, ReportSuccess(k, joined)
    PROVE  OnTheWayBack(rows[k], rows'[k])
<1> DEFINE r == Prebuilt(rows[k])
           new == Transition(r, TRUE, 0, Bump(r.successCount), FALSE, EffectiveConfig(k[2]))
<1>1. rows \in [Keys -> Row] /\ rows[k] \in Row
  BY DEF TypeOK
<1>2. /\ r \in Row /\ r.state # "none"
      /\ (rows[k].state # "none" => r = rows[k])
      /\ (rows[k].state = "none" => r.state = "closed")
  BY <1>1, PrebuiltType
<1>3. rows' = [rows EXCEPT ![k] = new]
  BY DEF ReportSuccess, UpdateRow
<1>4. rows'[k] = new
  BY <1>1, <1>3
<1>5. OnTheWayBack(r, new)
  BY <1>2, TransitionOnSuccess
<1>6. r.state = "closed" => new.state = "closed"
  BY DEF Transition, EffectiveState
<1> HIDE DEF r, new
<1> QED
  BY <1>2, <1>4, <1>5, <1>6 DEF OnTheWayBack

(* A reported success opens no row, makes one degraded only when it was half *)
(* open, and closed only when it was degraded, whatever row and history it   *)
(* meets and however late it comes.  A row that still cools loses its        *)
(* deadline by it (circuit.go 200): nothing is claimed here about that.      *)
THEOREM SuccessClimbsInOrder == Spec => SuccessSkipsNoState
<1>1. TypeOK => [\A k \in Keys, joined \in BOOLEAN :
                    ReportSuccess(k, joined) => OnTheWayBack(rows[k], rows'[k])]_vars
  BY SuccessStep
<1> QED
  BY <1>1, TypeInit, TypeStep, PTL DEF Spec, SuccessSkipsNoState
=============================================================================
