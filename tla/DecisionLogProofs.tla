-------------------------- MODULE DecisionLogProofs --------------------------
(***************************************************************************)
(* Theorems about snapshots and logged decisions, for any numbers of       *)
(* checkers, gateways, requests and channels, and any bounds: done changes *)
(* are seen, replays are exact, and with one checker no reader sees half a *)
(* round; and                                                              *)
(* about decisions, for any channels, policies and requests: strategies    *)
(* sort, nothing looks free, and a token's own cap holds.                  *)
(***************************************************************************)
EXTENDS MCRouting, FiniteSetTheorems, TLAPS

-----------------------------------------------------------------------------
(* Rounds                                                                  *)

Writing == [at : {"writing"}, epoch : Nat, todo : SUBSET Due]
IsWriting(c) == checker[c].at = "writing"

\* The round of the only checker is one ahead of the published epoch, and a
\* rebuild that has read the epoch is not ahead of it.
RoundInv ==
    /\ epoch \in Nat
    /\ checker \in [Checker -> {Off} \cup Writing]
    /\ \A c \in Checker : IsWriting(c) => checker[c].epoch = epoch + 1
    /\ \A g \in Gateway : builder[g].at > 1 => builder[g].epoch \in Nat /\ builder[g].epoch <= epoch

-----------------------------------------------------------------------------
(* Snapshots and decisions                                                 *)

Versions == [Watched -> Nat]
NoLater(v, w) == \A t \in Watched : v[t] <= w[t]

\* A rebuild has seen every table at least as new as when it began; nothing of
\* what was announced by then is missing.
DraftFields == {"at", "epoch", "prices", "channels", "began", "seen"}
GoodDraft(b) ==
    /\ DOMAIN b = DraftFields /\ b.at \in 1..(Statements + 2)
    /\ b.began \in Versions /\ b.seen \in Versions
    /\ NoLater(b.began, b.seen) /\ NoLater(b.began, announced)

\* What is cached was stored when all that is announced now had been announced:
\* announcing a change drops the entry.
GoodSnapshot(s) ==
    /\ s.sum = Content(s)
    /\ s.began \in Versions /\ s.seen \in Versions /\ s.stored \in Versions
    /\ NoLater(s.began, s.seen)

\* A decision is the route through the snapshot its checksum stands for.
DecisionFields == {"request", "group", "policy", "order", "sum", "asked", "began", "seen", "stored"}
GoodDecision(d) ==
    /\ DOMAIN d = DecisionFields
    /\ d.request \in Request
    /\ d.order = Route(d.sum, Ask[d.request], d.policy)
    /\ {d.began, d.seen, d.asked, d.stored} \subseteq Versions
    /\ NoLater(d.began, d.seen) /\ NoLater(d.asked, d.stored)

GoodRequest(q) ==
    \/ q.at \in {"new", "asking", "done"}
    \/ q.at = "waiting" /\ q.asked \in Versions /\ NoLater(q.asked, announced)
    \/ q.at = "routed" /\ GoodDecision(q.decision)

LogInv ==
    /\ version \in Versions /\ announced \in Versions /\ NoLater(announced, version)
    /\ \A o \in owed : o.table \in Watched /\ o.version \in Nat /\ o.version <= version[o.table]
    /\ builder = [g \in Gateway |-> builder[g]]
    /\ \A g \in Gateway : builder[g] = Idle \/ GoodDraft(builder[g])
    /\ cache # None => GoodSnapshot(cache) /\ cache.stored = announced
    /\ \A a \in archive : a.content = a.sum
    /\ request = [r \in Request |-> request[r]]
    /\ \A r \in Request : GoodRequest(request[r])
    /\ \A d \in decisions : GoodDecision(d)

-----------------------------------------------------------------------------
(* Drafts, snapshots and decisions                                         *)

LEMMA LaterStill ==
  ASSUME NEW u \in Versions, NEW v \in Versions, NEW w \in Versions, NoLater(u, v), NoLater(v, w)
  PROVE  NoLater(u, w)
<1> SUFFICES ASSUME NEW t \in Watched  PROVE u[t] <= w[t]  BY DEF NoLater
<1>1. u[t] \in Nat /\ v[t] \in Nat /\ w[t] \in Nat /\ u[t] <= v[t] /\ v[t] <= w[t]
  BY DEF Versions, NoLater
<1> QED  BY <1>1

LEMMA NotLaterItself ==
  ASSUME NEW v \in Versions  PROVE NoLater(v, v)
BY DEF Versions, NoLater

\* A statement adds what it reads; what the rebuild has seen only grows.
LEMMA LoadedIsDraft ==
  ASSUME LogInv, NEW b, GoodDraft(b), b.at \in 1..Statements, NEW d \in Loaded(b)
  PROVE  /\ DOMAIN d = DraftFields /\ d.at = b.at /\ d.began = b.began
         /\ d.seen \in Versions /\ NoLater(b.began, d.seen)
         /\ b.at = 1 => d.epoch = epoch
         /\ b.at # 1 => d.epoch = b.epoch
<1>1. /\ DOMAIN b = DraftFields /\ b.began \in Versions /\ b.seen \in Versions
      /\ NoLater(b.began, b.seen) /\ NoLater(b.began, announced)
      /\ version \in Versions /\ announced \in Versions /\ NoLater(announced, version)
  BY DEF GoodDraft, LogInv
<1>2. NoLater(b.began, version)  BY <1>1, LaterStill
<1>3. ASSUME NEW t \in Watched
      PROVE  /\ [b.seen EXCEPT ![t] = version[t]] \in Versions
             /\ NoLater(b.began, [b.seen EXCEPT ![t] = version[t]])
  BY <1>1, <1>2 DEF Versions, NoLater
<1>4. ASSUME NEW x, d = [b EXCEPT !.channels = x]
      PROVE  /\ DOMAIN d = DraftFields /\ d.at = b.at /\ d.began = b.began /\ d.seen = b.seen
             /\ d.epoch = b.epoch
  BY <1>1, <1>4 DEF DraftFields
<1>5. ASSUME NEW table, NEW field, d \in Overlay(b, table, field)
      PROVE  \E x : d = [b EXCEPT !.channels = x]
  BY <1>5 DEF Overlay
<1>6. b.at \in {1, 2, 3, 4, 5, 6, 7, 8, 9, 10}  BY DEF Statements
<1>7. CASE b.at = 1
  <2>1. d = [b EXCEPT !.epoch = epoch]  BY <1>7 DEF Loaded
  <2> QED  BY <1>1, <1>7, <2>1 DEF DraftFields
<1>8. CASE b.at = 2
  <2> DEFINE seen == [b.seen EXCEPT !["prices"] = version["prices"]]
  <2>1. d = [b EXCEPT !.prices = db.prices, !.seen = seen]  BY <1>8 DEF Loaded
  <2>2. seen \in Versions /\ NoLater(b.began, seen)  BY <1>3 DEF Watched
  <2> HIDE DEF seen
  <2> QED  BY <1>1, <1>8, <2>1, <2>2 DEF DraftFields
<1>9. CASE b.at = 3
  <2> DEFINE seen == [b.seen EXCEPT !["upstreams"] = version["upstreams"]]
             loaded == [c \in Channel |-> Health([db.upstreams[c] EXCEPT !.groups = {}])]
  <2>1. d = [b EXCEPT !.channels = loaded, !.seen = seen]  BY <1>9 DEF Loaded, LoadChannels
  <2>2. seen \in Versions /\ NoLater(b.began, seen)  BY <1>3 DEF Watched
  <2> HIDE DEF seen, loaded
  <2> QED  BY <1>1, <1>9, <2>1, <2>2 DEF DraftFields
<1>10. CASE b.at = 5
  <2>1. d \in Overlay(b, "alive", "alive")  BY <1>10 DEF Loaded, LoadAliveStatus
  <2> QED  BY <1>1, <1>10, <1>4, <1>5, <2>1
<1>11. CASE b.at = 6
  <2>1. d \in Overlay(b, "pricing", "declared")  BY <1>11 DEF Loaded, LoadDeclaredPrices
  <2> QED  BY <1>1, <1>11, <1>4, <1>5, <2>1
<1>12. CASE b.at = 7
  <2> DEFINE seen == [b.seen EXCEPT !["probed"] = version["probed"]]
  <2>1. d = [b EXCEPT !.channels = Measurement(b), !.seen = seen]
    BY <1>12 DEF Loaded, LoadProbeResults
  <2>2. seen \in Versions /\ NoLater(b.began, seen)  BY <1>3 DEF Watched
  <2> HIDE DEF seen
  <2> QED  BY <1>1, <1>12, <2>1, <2>2 DEF DraftFields
<1>13. CASE b.at \in {4, 8, 9, 10}
  <2>1. \E x : d = [b EXCEPT !.channels = x]
    <3>1. CASE b.at = 4  BY <3>1 DEF Loaded, LoadMembers
    <3>2. CASE b.at = 8  BY <3>2 DEF Loaded, LoadTtft
    <3>3. CASE b.at = 9  BY <3>3 DEF Loaded, LoadRequestHistory
    <3>4. CASE b.at = 10  BY <3>4 DEF Loaded, LoadCircuitStates
    <3> QED  BY <1>13, <3>1, <3>2, <3>3, <3>4
  <2>2. b.at # 1  BY <1>13
  <2>3. PICK x : d = [b EXCEPT !.channels = x]  BY <2>1
  <2> QED  BY <1>1, <1>4, <2>2, <2>3
<1> QED  BY <1>6, <1>7, <1>8, <1>9, <1>10, <1>11, <1>12, <1>13

\* A draft that is finished becomes a snapshot stored now.
LEMMA SnapshotIsGood ==
  ASSUME LogInv, NEW b, GoodDraft(b)
  PROVE  GoodSnapshot(Snapshot(b)) /\ Snapshot(b).stored = announced
BY DEF LogInv, GoodDraft, GoodSnapshot, Snapshot, Checksum, Content

\* The route depends on channels and prices, which the checksum stands for.
LEMMA RouteOfContent ==
  ASSUME NEW s, NEW req, NEW policy
  PROVE  Route(Content(s), req, policy) = Route(s, req, policy)
BY DEF Route, Content

LEMMA DecidedIsGood ==
  ASSUME LogInv, NEW s, GoodSnapshot(s), s.stored = announced,
         NEW r \in Request, request[r].at \in {"asking", "waiting"}
  PROVE  GoodRequest(Decided(r, s))
<1> DEFINE policy == request[r].policy
           order == Route(s, Ask[r], policy)
           asked == IF request[r].at = "asking" THEN announced ELSE request[r].asked
           d == [request |-> r, group |-> Ask[r].group, policy |-> policy, order |-> order,
                 sum |-> s.sum, asked |-> asked,
                 began |-> s.began, seen |-> s.seen, stored |-> s.stored]
<1>1. order = Route(s.sum, Ask[r], policy)  BY RouteOfContent DEF GoodSnapshot
<1>2. asked \in Versions /\ NoLater(asked, announced)
  BY NotLaterItself DEF LogInv, GoodRequest
<1>3. GoodDecision(d)
  <2> HIDE DEF policy, order, asked
  <2> QED  BY <1>1, <1>2 DEF GoodSnapshot, GoodDecision, DecisionFields
<1>4. Decided(r, s) = [at |-> "done"] \/ Decided(r, s) = [at |-> "routed", decision |-> d]
  BY DEF Decided
<1> HIDE DEF d
<1> QED  BY <1>3, <1>4 DEF GoodRequest

-----------------------------------------------------------------------------
(* What the steps do to them                                               *)

LEMMA LogStays ==
  ASSUME LogInv, UNCHANGED <<builder, cache, archive, request, decisions, owed, version, announced>>
  PROVE  LogInv'
BY DEF LogInv, GoodDraft, GoodRequest

\* A change that commits owes its invalidation.
LEMMA CommitKeeps ==
  ASSUME LogInv, NEW table \in Watched, NEW new, Commit(table, new),
         \A d \in decisions' : GoodDecision(d)
  PROVE  LogInv'
<1>1. /\ version' = [version EXCEPT ![table] = @ + 1]
      /\ owed' = owed \cup {[table |-> table, version |-> version[table] + 1]}
      /\ UNCHANGED <<builder, cache, archive, request, announced>>
  BY DEF Commit
<1>2. version \in Versions /\ announced \in Versions /\ NoLater(announced, version)
  BY DEF LogInv
<1>3. version' \in Versions /\ NoLater(version, version')
  BY <1>1, <1>2 DEF Versions, NoLater
<1>4. NoLater(announced', version')  BY <1>1, <1>2, <1>3, LaterStill
<1>5. ASSUME NEW o \in owed'
      PROVE  o.table \in Watched /\ o.version \in Nat /\ o.version <= version'[o.table]
  <2>1. CASE o \in owed
    <3>1. o.table \in Watched /\ o.version \in Nat /\ o.version <= version[o.table]
      BY <2>1 DEF LogInv
    <3>2. version[o.table] \in Nat /\ version'[o.table] \in Nat
          /\ version[o.table] <= version'[o.table]
      BY <1>2, <1>3, <3>1 DEF Versions, NoLater
    <3> QED  BY <3>1, <3>2
  <2>2. CASE o = [table |-> table, version |-> version[table] + 1]
    BY <1>1, <1>2, <2>2 DEF Versions
  <2> QED  BY <1>1, <2>1, <2>2
<1> QED  BY <1>1, <1>3, <1>4, <1>5 DEF LogInv, GoodDraft, GoodRequest

LEMMA AdministerKeeps ==
  ASSUME LogInv, Administer
  PROVE  LogInv'
<1>1. {"upstreams", "prices", "probed"} \subseteq Watched  BY DEF Watched
<1>2. ASSUME NEW table \in Watched, NEW new, Edit(table, new)  PROVE LogInv'
  BY <1>2, CommitKeeps DEF Edit, LogInv
<1>3. CASE DeleteGroup
  <2>1. Commit("upstreams", Ungrouped)
        /\ decisions' = {[d EXCEPT !.group = NoGroup] : d \in decisions}
    BY <1>3 DEF DeleteGroup
  <2>2. ASSUME NEW d \in decisions  PROVE GoodDecision([d EXCEPT !.group = NoGroup])
    <3>1. GoodDecision(d)  BY DEF LogInv
    <3> QED  BY <3>1 DEF GoodDecision, DecisionFields
  <2> QED  BY <1>1, <2>1, <2>2, CommitKeeps
<1>4. CASE ChangePolicy  BY <1>4, LogStays DEF ChangePolicy
<1> QED
  BY <1>1, <1>2, <1>3, <1>4
     DEF Administer, UpdateChannel, ManualProbe, SaveModelPrice, DeleteModelPrice

\* Announcing a change drops the cached entry.
LEMMA InvalidateKeeps ==
  ASSUME LogInv, NEW o \in owed, InvalidateSnapshotCache(o)
  PROVE  LogInv'
<1>1. owed' = owed \ {o} /\ UNCHANGED <<builder, archive, request, decisions, version>>
  BY DEF InvalidateSnapshotCache
<1>2. /\ o.table \in Watched /\ o.version \in Nat /\ o.version <= version[o.table]
      /\ version \in Versions /\ announced \in Versions /\ NoLater(announced, version)
  BY DEF LogInv
<1>3. CASE UNCHANGED <<cache, announced>>
  BY <1>1, <1>3 DEF LogInv, GoodDraft, GoodRequest
<1>4. CASE /\ cache' = None
           /\ announced' = [announced EXCEPT ![o.table] = IF @ < o.version THEN o.version ELSE @]
  <2>1. announced' \in Versions /\ NoLater(announced, announced') /\ NoLater(announced', version)
    <3>1. ASSUME NEW t \in Watched
          PROVE  /\ announced'[t] \in Nat /\ announced[t] <= announced'[t]
                 /\ announced'[t] <= version[t]
      <4>1. announced[t] \in Nat /\ version[t] \in Nat /\ announced[t] <= version[t]
        BY <1>2 DEF Versions, NoLater
      <4>2. CASE t = o.table  BY <1>2, <1>4, <4>1, <4>2 DEF Versions
      <4>3. CASE t # o.table  BY <1>2, <1>4, <4>1, <4>3 DEF Versions
      <4> QED  BY <4>2, <4>3
    <3>2. announced' = [t \in Watched |-> announced'[t]]  BY <1>2, <1>4 DEF Versions
    <3> QED  BY <3>1, <3>2 DEF Versions, NoLater
  <2>2. \A g \in Gateway : builder[g] = Idle \/ GoodDraft(builder[g])'
    <3> SUFFICES ASSUME NEW g \in Gateway, GoodDraft(builder[g])
                 PROVE  NoLater(builder[g].began, announced')
      BY <1>1 DEF LogInv, GoodDraft
    <3> QED  BY <1>2, <2>1, LaterStill DEF GoodDraft
  <2>3. \A r \in Request : GoodRequest(request[r])'
    <3> SUFFICES ASSUME NEW r \in Request, request[r].asked \in Versions,
                        NoLater(request[r].asked, announced)
                 PROVE  NoLater(request[r].asked, announced')
      BY <1>1 DEF LogInv, GoodRequest
    <3> QED  BY <1>2, <2>1, LaterStill
  <2> QED  BY <1>1, <1>2, <1>4, <2>1, <2>2, <2>3 DEF LogInv
<1> QED  BY <1>3, <1>4 DEF InvalidateSnapshotCache

LEMMA ReadTableKeeps ==
  ASSUME LogInv, NEW g \in Gateway, ReadTable(g)
  PROVE  LogInv'
<1> DEFINE b == builder[g]
<1>1. /\ b.at \in 1..Statements
      /\ UNCHANGED <<cache, archive, decisions, owed, version, announced>>
  BY DEF ReadTable
<1>2. GoodDraft(b)  BY <1>1 DEF LogInv, Idle, Statements
<1>3. builder = [h \in Gateway |-> builder[h]] /\ request = [r \in Request |-> request[r]]
  BY DEF LogInv
<1>4. b.at + 1 \in 1..(Statements + 2)  BY <1>1 DEF Statements
<1>5. ASSUME NEW x, builder' = [builder EXCEPT ![g] = x], x = Idle \/ GoodDraft(x),
             \A r \in Request : request'[r] = request[r] \/ request'[r] = [at |-> "done"],
             request' = [r \in Request |-> request'[r]]
      PROVE  LogInv'
  <2>1. \A h \in Gateway : builder'[h] = Idle \/ GoodDraft(builder'[h])
    BY <1>3, <1>5 DEF LogInv
  <2>2. \A r \in Request : GoodRequest(request'[r])  BY <1>5 DEF LogInv, GoodRequest
  <2>3. builder' = [h \in Gateway |-> builder'[h]]  BY <1>3, <1>5
  <2> QED  BY <1>1, <1>5, <2>1, <2>2, <2>3 DEF LogInv, GoodDraft, GoodRequest
<1>6. ASSUME NEW d \in Loaded(b), builder' = [builder EXCEPT ![g] = [d EXCEPT !.at = @ + 1]],
             request' = request
      PROVE  LogInv'
  <2> DEFINE x == [d EXCEPT !.at = @ + 1]
  <2>1. /\ DOMAIN d = DraftFields /\ d.at = b.at /\ d.began = b.began
        /\ d.seen \in Versions /\ NoLater(b.began, d.seen)
    BY <1>1, <1>2, LoadedIsDraft
  <2>2. /\ DOMAIN x = DraftFields /\ x.at = b.at + 1 /\ x.began = d.began /\ x.seen = d.seen
    BY <2>1 DEF DraftFields
  <2> HIDE DEF x
  <2>3. GoodDraft(x)  BY <1>2, <1>4, <2>1, <2>2 DEF GoodDraft
  <2> QED  BY <1>3, <1>5, <1>6, <2>3 DEF x
<1>7. CASE builder' = [builder EXCEPT ![g].at = @ + 1] /\ request' = request
  <2> DEFINE x == [b EXCEPT !.at = @ + 1]
  <2>1. DOMAIN x = DraftFields /\ x.at = b.at + 1 /\ x.began = b.began /\ x.seen = b.seen
    BY <1>2 DEF GoodDraft, DraftFields
  <2>2. builder' = [builder EXCEPT ![g] = x]  BY <1>7
  <2> HIDE DEF x
  <2>3. GoodDraft(x)  BY <1>2, <1>4, <2>1 DEF GoodDraft
  <2> QED  BY <1>3, <1>5, <1>7, <2>2, <2>3
<1>8. CASE /\ builder' = [builder EXCEPT ![g] = Idle]
           /\ request' = [r \in Request |-> IF r \in Waiting(g) THEN [at |-> "done"] ELSE request[r]]
  <2>1. /\ \A r \in Request : request'[r] = request[r] \/ request'[r] = [at |-> "done"]
        /\ request' = [r \in Request |-> request'[r]]
    BY <1>8
  <2> QED  BY <1>5, <1>8, <2>1
<1> QED  BY <1>6, <1>7, <1>8 DEF ReadTable

\* The archive holds contents under checksums that stand for them.
LEMMA ArchiveKeeps ==
  ASSUME LogInv, NEW g \in Gateway, ArchiveSnapshot(g)
  PROVE  LogInv'
<1> DEFINE b == builder[g]
           x == [b EXCEPT !.at = @ + 1]
<1>1. /\ b.at = Statements + 1 /\ builder' = [builder EXCEPT ![g] = x]
      /\ UNCHANGED <<cache, request, decisions, owed, version, announced>>
  BY DEF ArchiveSnapshot
<1>2. GoodDraft(b)  BY <1>1 DEF LogInv, Idle, Statements
<1>3. DOMAIN x = DraftFields /\ x.at = b.at + 1 /\ x.began = b.began /\ x.seen = b.seen
  BY <1>2 DEF GoodDraft, DraftFields
<1> HIDE DEF x
<1>4. b.at + 1 \in 1..(Statements + 2)  BY <1>1 DEF Statements
<1>5. GoodDraft(x)  BY <1>2, <1>3, <1>4 DEF GoodDraft
<1>6. \A a \in archive' : a.content = a.sum
  <2>1. \/ archive' = archive
        \/ archive' = archive \cup {[sum |-> Checksum(b), content |-> Content(b)]}
    BY DEF ArchiveSnapshot
  <2> QED  BY <2>1 DEF Checksum, LogInv
<1>7. /\ builder' = [h \in Gateway |-> builder'[h]]
      /\ \A h \in Gateway : builder'[h] = Idle \/ GoodDraft(builder'[h])
  BY <1>1, <1>5 DEF LogInv
<1> QED  BY <1>1, <1>6, <1>7 DEF LogInv, GoodDraft, GoodRequest

\* Whoever waited for the rebuild had asked before it was stored.
LEMMA StoreKeeps ==
  ASSUME LogInv, NEW g \in Gateway, StoreSnapshot(g)
  PROVE  LogInv'
<1> DEFINE b == builder[g]
<1>1. /\ b.at = Statements + 2 /\ builder' = [builder EXCEPT ![g] = Idle]
      /\ cache' = Snapshot(b)
      /\ request' = [r \in Request |-> IF r \in Waiting(g) THEN Decided(r, Snapshot(b)) ELSE request[r]]
      /\ UNCHANGED <<archive, decisions, owed, version, announced>>
  BY DEF StoreSnapshot, history
<1>2. GoodDraft(b)  BY <1>1 DEF LogInv, Idle, Statements
<1>3. GoodSnapshot(Snapshot(b)) /\ Snapshot(b).stored = announced
  BY <1>2, SnapshotIsGood
<1>4. \A r \in Request : GoodRequest(request'[r])
  <2>1. \A r \in Waiting(g) : GoodRequest(Decided(r, Snapshot(b)))
    BY <1>3, DecidedIsGood DEF Waiting
  <2> QED  BY <1>1, <2>1 DEF LogInv
<1>5. /\ builder' = [h \in Gateway |-> builder'[h]]
      /\ \A h \in Gateway : builder'[h] = Idle \/ GoodDraft(builder'[h])
      /\ request' = [r \in Request |-> request'[r]]
  BY <1>1 DEF LogInv
<1> QED  BY <1>1, <1>3, <1>4, <1>5 DEF LogInv, GoodDraft, GoodRequest

LEMMA HandleKeeps ==
  ASSUME LogInv, NEW r \in Request, Handle(r)
  PROVE  LogInv'
<1>1. request = [q \in Request |-> request[q]] /\ builder = [g \in Gateway |-> builder[g]]
  BY DEF LogInv
<1>2. ASSUME NEW x, GoodRequest(x), request' = [request EXCEPT ![r] = x],
             UNCHANGED <<cache, archive, owed, version, announced>>,
             builder' = [g \in Gateway |-> builder'[g]],
             \A g \in Gateway : builder'[g] = Idle \/ GoodDraft(builder'[g]),
             \A d \in decisions' : GoodDecision(d)
      PROVE  LogInv'
  <2>1. /\ request' = [q \in Request |-> request'[q]]
        /\ \A q \in Request : GoodRequest(request'[q])
    BY <1>1, <1>2 DEF LogInv
  <2> QED  BY <1>2, <2>1 DEF LogInv, GoodDraft, GoodRequest
<1>3. \A q : q = [at |-> "done"] => GoodRequest(q)  BY DEF GoodRequest
<1>3a. CASE LoadPolicyOf(r)
  <2>1. GoodRequest([at |-> "asking", gateway |-> request[r].gateway, policy |-> db.policy])
    BY DEF GoodRequest
  <2> QED  BY <1>1, <1>2, <1>3a, <2>1 DEF LoadPolicyOf, history, LogInv
<1>4. CASE RefuseGroup(r)  BY <1>1, <1>2, <1>3, <1>4 DEF RefuseGroup, history, LogInv
<1>5. CASE RouteFromCache(r)
  <2>1. GoodRequest(Decided(r, cache))
    BY <1>5, DecidedIsGood DEF RouteFromCache, LogInv
  <2> QED  BY <1>1, <1>2, <1>5, <2>1 DEF RouteFromCache, history, LogInv
<1>6. CASE JoinRebuild(r)
  <2> DEFINE g == request[r].gateway
             x == [at |-> "waiting", gateway |-> g, policy |-> request[r].policy, asked |-> announced]
             y == IF builder[g] = Idle THEN Reading ELSE builder[g]
  <2>1. /\ request' = [request EXCEPT ![r] = x]
        /\ builder' = [builder EXCEPT ![g] = y]
        /\ UNCHANGED <<cache, archive, decisions, owed, version, announced>>
    BY <1>1, <1>6 DEF JoinRebuild, history
  <2>2. GoodRequest(x)  BY NotLaterItself DEF LogInv, GoodRequest
  <2>3. GoodDraft(Reading)
    BY NotLaterItself DEF LogInv, GoodDraft, Reading, DraftFields, Statements
  <2> HIDE DEF x, g
  <2>4. /\ builder' = [h \in Gateway |-> builder'[h]]
        /\ \A h \in Gateway : builder'[h] = Idle \/ GoodDraft(builder'[h])
    BY <1>1, <2>1, <2>3 DEF LogInv
  <2> QED  BY <1>2, <2>1, <2>2, <2>4 DEF LogInv
<1>7. CASE LogDecision(r)
  <2>1. GoodDecision(request[r].decision)  BY <1>7 DEF LogDecision, LogInv, GoodRequest
  <2>2. \A d \in decisions' : GoodDecision(d)  BY <1>7, <2>1 DEF LogDecision, LogInv
  <2> QED  BY <1>1, <1>2, <1>3, <1>7, <2>2 DEF LogDecision, LogInv
<1> QED  BY <1>3a, <1>4, <1>5, <1>6, <1>7 DEF Handle

LEMMA LogInvStep == LogInv /\ [Next]_vars => LogInv'
<1> SUFFICES ASSUME LogInv, [Next]_vars  PROVE LogInv'  OBVIOUS
<1>1. ASSUME NEW c \in Checker, Round(c) \/ Crash(c)  PROVE LogInv'
  BY <1>1, LogStays DEF Round, BeginRound, PeekNextEpoch, WriteRow, PublishEpoch, Crash
<1>2. CASE Administer  BY <1>2, AdministerKeeps
<1>3. ASSUME NEW c \in Channel, Traffic(c)  PROVE LogInv'
  BY <1>3, LogStays DEF Traffic
<1>4. ASSUME NEW o \in owed, InvalidateSnapshotCache(o)  PROVE LogInv'
  BY <1>4, InvalidateKeeps
<1>5. ASSUME NEW g \in Gateway, Rebuild(g)  PROVE LogInv'
  BY <1>5, ReadTableKeeps, ArchiveKeeps, StoreKeeps DEF Rebuild
<1>6. ASSUME NEW r \in Request, Handle(r)  PROVE LogInv'
  BY <1>6, HandleKeeps
<1>7. CASE ExpireSnapshot
  BY <1>7 DEF ExpireSnapshot, history, LogInv, GoodDraft, GoodRequest
<1>8. CASE Cleanup
  <2>1. /\ decisions' \subseteq decisions /\ archive' \subseteq archive
        /\ UNCHANGED <<builder, cache, request, owed, version, announced>>
    BY <1>8 DEF Cleanup
  <2> QED  BY <2>1 DEF LogInv, GoodDraft, GoodRequest
<1>9. CASE UNCHANGED vars  BY <1>9, LogStays DEF vars
<1> QED  BY <1>1, <1>2, <1>3, <1>4, <1>5, <1>6, <1>7, <1>8, <1>9 DEF Next

LEMMA LogInvInitially == Init => LogInv
<1> SUFFICES ASSUME Init  PROVE LogInv  OBVIOUS
<1>1. version \in Versions /\ announced \in Versions /\ NoLater(announced, version)
  BY DEF Init, Versions, NoLater
<1>2. \A r \in Request : request[r].at \in {"new", "done"}  BY DEF Init
<1>3. request = [r \in Request |-> request[r]]  BY DEF Init
<1> QED  BY <1>1, <1>2, <1>3 DEF Init, LogInv, GoodRequest

-----------------------------------------------------------------------------
(* One checker's rounds                                                    *)

LEMMA WritingIs ==
  ASSUME RoundInv, NEW c \in Checker
  PROVE  /\ checker[c] = Off \/ checker[c] \in Writing
         /\ IsWriting(c) <=> checker[c] # Off
         /\ IsWriting(c) => checker[c].epoch \in Nat /\ checker[c] \in Writing
  BY DEF RoundInv, Writing, IsWriting, Off

\* What a rebuild has read stays behind an epoch that only moves forward.
LEMMA DraftsStayBehind ==
  ASSUME RoundInv, builder' = builder, epoch' \in Nat, epoch <= epoch',
         NEW g \in Gateway, builder'[g].at > 1
  PROVE  builder'[g].epoch \in Nat /\ builder'[g].epoch <= epoch'
<1>1. builder[g].epoch \in Nat /\ builder[g].epoch <= epoch /\ epoch \in Nat  BY DEF RoundInv
<1> QED  BY <1>1

LEMMA BeginKeeps ==
  ASSUME RoundInv, NEW c \in Checker, BeginRound(c)
  PROVE  RoundInv'
<1> DEFINE new == [at |-> "writing", epoch |-> epoch + 1, todo |-> Due]
<1>1. epoch' = epoch /\ checker' = [checker EXCEPT ![c] = new] /\ builder' = builder
  BY DEF BeginRound, PeekNextEpoch
<1>2. epoch \in Nat /\ epoch + 1 \in Nat  BY DEF RoundInv
<1>3. new \in Writing /\ new.epoch = epoch + 1  BY <1>2 DEF Writing
<1> HIDE DEF new
<1>4. checker' \in [Checker -> {Off} \cup Writing]  BY <1>1, <1>3 DEF RoundInv
<1>5. \A d \in Checker : IsWriting(d)' => checker'[d].epoch = epoch' + 1
  BY <1>1, <1>3 DEF RoundInv, IsWriting
<1> QED  BY <1>1, <1>2, <1>4, <1>5 DEF RoundInv

\* Rows change what is left to do, not who writes under which number.
LEMMA WriteKeeps ==
  ASSUME RoundInv, NEW c \in Checker, NEW task \in Due, WriteRow(c, task)
  PROVE  RoundInv'
<1> DEFINE new == [checker[c] EXCEPT !.todo = @ \ {task}]
<1>1. /\ checker[c].at = "writing" /\ epoch' = epoch /\ builder' = builder
      /\ checker' = [checker EXCEPT ![c] = new]
  BY DEF WriteRow
<1>2. checker[c] \in Writing  BY <1>1, WritingIs DEF IsWriting
<1>3. new \in Writing /\ new.at = "writing" /\ new.epoch = checker[c].epoch
  BY <1>2 DEF Writing
<1> HIDE DEF new
<1>4. checker' \in [Checker -> {Off} \cup Writing]  BY <1>1, <1>3 DEF RoundInv
<1>5. \A d \in Checker :
         /\ IsWriting(d)' <=> IsWriting(d)
         /\ IsWriting(d) => checker'[d].epoch = checker[d].epoch
  BY <1>1, <1>3 DEF RoundInv, IsWriting
<1> QED  BY <1>1, <1>4, <1>5 DEF RoundInv, IsWriting

\* The round ends, and nobody else has one under way.
LEMMA EndKeeps ==
  ASSUME \A c, d \in Checker : c = d, RoundInv, NEW c \in Checker, PublishEpoch(c) \/ Crash(c)
  PROVE  RoundInv'
<1>1. /\ checker' = [checker EXCEPT ![c] = Off] /\ builder' = builder
      /\ \/ epoch' = epoch
         \/ IsWriting(c) /\ epoch' = IF epoch < checker[c].epoch THEN checker[c].epoch ELSE epoch
  BY DEF PublishEpoch, Crash, IsWriting
<1>2. IsWriting(c) => checker[c].epoch = epoch + 1  BY DEF RoundInv
<1>3. epoch \in Nat  BY DEF RoundInv
<1>4. epoch' \in Nat /\ epoch <= epoch'  BY <1>1, <1>2, <1>3
<1>5. checker' \in [Checker -> {Off} \cup Writing]  BY <1>1 DEF RoundInv
<1>6. \A d \in Checker : ~IsWriting(d)'
  <2> SUFFICES ASSUME NEW d \in Checker  PROVE ~IsWriting(d)'  OBVIOUS
  <2>1. d = c  OBVIOUS
  <2> QED  BY <1>1, <2>1 DEF RoundInv, IsWriting, Off
<1>7. \A g \in Gateway : builder'[g].at > 1 => builder'[g].epoch \in Nat /\ builder'[g].epoch <= epoch'
  BY <1>1, <1>4, DraftsStayBehind
<1> QED  BY <1>4, <1>5, <1>6, <1>7 DEF RoundInv

\* A rebuild reads the epoch first and keeps it.
LEMMA RebuildKeeps ==
  ASSUME LogInv, RoundInv, NEW g \in Gateway, Rebuild(g)
  PROVE  RoundInv'
<1> DEFINE b == builder[g]
           Behind(x) == x.at > 1 => x.epoch \in Nat /\ x.epoch <= epoch
<1>1. epoch' = epoch /\ checker' = checker /\ b.at # 0
  BY DEF Rebuild, ReadTable, ArchiveSnapshot, StoreSnapshot, history, Statements
<1>2. GoodDraft(b)  BY <1>1 DEF LogInv, Idle
<1>3. epoch \in Nat /\ epoch <= epoch /\ b.at \in 1..(Statements + 2) /\ DOMAIN b = DraftFields
      /\ builder = [h \in Gateway |-> builder[h]]
  BY <1>2 DEF RoundInv, GoodDraft, LogInv
<1>4. ASSUME NEW x, Behind(x), builder' = [builder EXCEPT ![g] = x]  PROVE RoundInv'
  <2>1. \A h \in Gateway : builder'[h] = IF h = g THEN x ELSE builder[h]  BY <1>3, <1>4
  <2>2. \A h \in Gateway : builder'[h].at > 1 => builder'[h].epoch \in Nat /\ builder'[h].epoch <= epoch'
    <3> SUFFICES ASSUME NEW h \in Gateway, builder'[h].at > 1
                 PROVE  builder'[h].epoch \in Nat /\ builder'[h].epoch <= epoch'
      OBVIOUS
    <3>1. CASE h = g  BY <1>1, <1>4, <2>1, <3>1
    <3>2. CASE h # g  BY <1>1, <2>1, <3>2 DEF RoundInv
    <3> QED  BY <3>1, <3>2
  <2> QED  BY <1>1, <2>2 DEF RoundInv, IsWriting
<1>5. ASSUME builder' = [builder EXCEPT ![g] = Idle]  PROVE RoundInv'
  <2>1. Behind(Idle)  BY DEF Idle
  <2> QED  BY <1>4, <1>5, <2>1
<1>6. ASSUME NEW d \in Loaded(b), b.at \in 1..Statements, builder' = [builder EXCEPT ![g] = [d EXCEPT !.at = @ + 1]]
      PROVE  RoundInv'
  <2> DEFINE x == [d EXCEPT !.at = @ + 1]
  <2>1. /\ DOMAIN d = DraftFields
        /\ b.at = 1 => d.epoch = epoch
        /\ b.at # 1 => d.epoch = b.epoch
    BY <1>2, <1>6, LoadedIsDraft
  <2>2. x.epoch = d.epoch  BY <2>1 DEF DraftFields
  <2>3. b.at # 1 => b.epoch \in Nat /\ b.epoch <= epoch  BY <1>3 DEF RoundInv
  <2> HIDE DEF x
  <2>4. Behind(x)  BY <1>3, <2>1, <2>2, <2>3
  <2> QED  BY <1>4, <1>6, <2>4 DEF x
<1>7. ASSUME builder' = [builder EXCEPT ![g].at = @ + 1], b.at > 1  PROVE RoundInv'
  <2> DEFINE x == [b EXCEPT !.at = @ + 1]
  <2>1. x.epoch = b.epoch  BY <1>3 DEF DraftFields
  <2>2. builder' = [builder EXCEPT ![g] = x]  BY <1>7
  <2>3. b.epoch \in Nat /\ b.epoch <= epoch  BY <1>7 DEF RoundInv
  <2> HIDE DEF x
  <2> QED  BY <1>4, <2>1, <2>2, <2>3
<1>8. CASE ReadTable(g)
  <2>1. b.at \in 1..Statements  BY <1>8 DEF ReadTable
  <2>2. \/ builder' = [builder EXCEPT ![g] = Idle]
        \/ \E d \in Loaded(b) : builder' = [builder EXCEPT ![g] = [d EXCEPT !.at = @ + 1]]
        \/ b.at \notin Vital /\ builder' = [builder EXCEPT ![g].at = @ + 1]
    BY <1>8 DEF ReadTable
  <2>3. b.at \notin Vital => b.at > 1  BY <1>3 DEF Vital, Statements
  <2> QED  BY <1>5, <1>6, <1>7, <2>1, <2>2, <2>3
<1>9. CASE ArchiveSnapshot(g)
  <2>1. b.at > 1 /\ builder' = [builder EXCEPT ![g].at = @ + 1]
    BY <1>9 DEF ArchiveSnapshot, Statements
  <2> QED  BY <1>7, <2>1
<1>10. CASE StoreSnapshot(g)  BY <1>5, <1>10 DEF StoreSnapshot
<1> QED  BY <1>8, <1>9, <1>10 DEF Rebuild

\* A request starts a rebuild that has not read the epoch yet.
LEMMA HandlerKeepsRounds ==
  ASSUME LogInv, RoundInv, NEW r \in Request, Handle(r)
  PROVE  RoundInv'
<1>1. epoch' = epoch /\ checker' = checker
  BY DEF Handle, LoadPolicyOf, RefuseGroup, RouteFromCache, JoinRebuild, LogDecision, history
<1>2. \A g \in Gateway : builder'[g] = builder[g] \/ builder'[g].at = 1
  <2>1. builder' = builder \/ JoinRebuild(r)
    BY DEF Handle, LoadPolicyOf, RefuseGroup, RouteFromCache, LogDecision
  <2>2. CASE JoinRebuild(r)
    <3>1. builder' = [builder EXCEPT ![request[r].gateway] =
                        IF builder[request[r].gateway] = Idle THEN Reading
                        ELSE builder[request[r].gateway]]
      BY <2>2 DEF JoinRebuild
    <3>2. builder = [g \in Gateway |-> builder[g]]  BY DEF LogInv
    <3>3. Reading.at = 1  BY DEF Reading
    <3> HIDE DEF Reading
    <3> QED  BY <3>1, <3>2, <3>3
  <2> QED  BY <2>1, <2>2
<1>3. \A g \in Gateway : builder'[g].at > 1 => builder'[g].epoch \in Nat /\ builder'[g].epoch <= epoch'
  BY <1>1, <1>2 DEF RoundInv
<1> QED  BY <1>1, <1>3 DEF RoundInv, IsWriting

\* Nothing but the checkers touches rounds, nothing but rebuilds the drafts.
Elsewhere ==
    \/ Administer
    \/ \E c \in Channel : Traffic(c)
    \/ \E o \in owed : InvalidateSnapshotCache(o)
    \/ ExpireSnapshot
    \/ Cleanup

LEMMA RoundsElsewhere ==
  ASSUME Elsewhere  PROVE UNCHANGED <<epoch, checker, builder>>
<1>1. CASE Administer
  BY <1>1 DEF Administer, UpdateChannel, ManualProbe, SaveModelPrice, DeleteModelPrice, DeleteGroup,
              ChangePolicy, Edit, Commit
<1> QED  BY <1>1 DEF Elsewhere, Traffic, InvalidateSnapshotCache, ExpireSnapshot, Cleanup, history

LEMMA RoundInvStep ==
  ASSUME \A c, d \in Checker : c = d
  PROVE  LogInv /\ RoundInv /\ [Next]_vars => RoundInv'
<1> SUFFICES ASSUME LogInv, RoundInv, [Next]_vars  PROVE RoundInv'  OBVIOUS
<1>1. ASSUME UNCHANGED <<epoch, checker, builder>>  PROVE RoundInv'
  BY <1>1 DEF RoundInv, IsWriting
<1>2. ASSUME NEW c \in Checker, Round(c) \/ Crash(c)  PROVE RoundInv'
  BY <1>2, BeginKeeps, WriteKeeps, EndKeeps DEF Round
<1>3. CASE Elsewhere  BY <1>1, <1>3, RoundsElsewhere
<1>4. ASSUME NEW g \in Gateway, Rebuild(g)  PROVE RoundInv'  BY <1>4, RebuildKeeps
<1>5. ASSUME NEW r \in Request, Handle(r)  PROVE RoundInv'  BY <1>5, HandlerKeepsRounds
<1>6. CASE UNCHANGED vars  BY <1>1, <1>6 DEF vars
<1> QED  BY <1>2, <1>3, <1>4, <1>5, <1>6 DEF Next, Elsewhere

LEMMA RoundInvInitially == Init => RoundInv
BY DEF Init, RoundInv, IsWriting, Off, Idle

\* Where one checker runs, what it still writes is ahead of every epoch a reader
\* goes by: no snapshot shows half a round, whatever fails (main.go 528-591,
\* postgres.go 72-97). With two checkers the run rounds_half_seen refutes it.
THEOREM OneCheckerShowsNoHalfRound ==
  ASSUME \A c, d \in Checker : c = d
  PROVE  Spec => []NoHalfRound
<1>1. RoundInv => NoHalfRound
  <2> SUFFICES ASSUME RoundInv, NEW c \in Checker, IsWriting(c)
               PROVE  /\ checker[c].epoch > epoch
                      /\ \A g \in Gateway : builder[g].at > 1 => builder[g].epoch < checker[c].epoch
    BY DEF NoHalfRound, IsWriting
  <2>1. checker[c].epoch = epoch + 1 /\ epoch \in Nat  BY DEF RoundInv
  <2> QED  BY <2>1 DEF RoundInv
<1>2. LogInv /\ RoundInv /\ [Next]_vars => RoundInv'  BY RoundInvStep
<1> QED  BY <1>1, <1>2, RoundInvInitially, LogInvInitially, LogInvStep, PTL DEF Spec

-----------------------------------------------------------------------------
(* What follows for decisions                                              *)

LEMMA GoodSees ==
  ASSUME NEW d, GoodDecision(d), NEW t \in Watched, d.seen[t] < d.asked[t]
  PROVE  d.began[t] < d.asked[t] /\ d.stored[t] >= d.asked[t]
<1>1. /\ d.began[t] \in Nat /\ d.seen[t] \in Nat /\ d.asked[t] \in Nat /\ d.stored[t] \in Nat
      /\ d.began[t] <= d.seen[t] /\ d.asked[t] <= d.stored[t]
  BY DEF GoodDecision, Versions, NoLater
<1> QED  BY <1>1

\* A request routed after the invalidation of a change is answered from a
\* snapshot with that change, unless the rebuild that served it had begun
\* before and was stored afterwards (snapshot.go 124-178, admin handlers).
THEOREM ChangesAreSeen == Spec => []ChangeIsSeen
<1>1. LogInv => ChangeIsSeen
  <2> SUFFICES ASSUME LogInv,
                      NEW d \in decisions \cup {request[r].decision : r \in {q \in Request : request[q].at = "routed"}},
                      NEW t \in Watched, d.seen[t] < d.asked[t]
               PROVE  d.began[t] < d.asked[t] /\ d.stored[t] >= d.asked[t]
    BY DEF ChangeIsSeen
  <2>1. GoodDecision(d)  BY DEF LogInv, GoodRequest
  <2> QED  BY <2>1, GoodSees
<1> QED  BY <1>1, LogInvInitially, LogInvStep, PTL DEF Spec

\* The replay of a decision from the archived snapshot gives the order that was
\* logged: the checksum stands for all that routing reads (replayer.go, snapshot.go).
THEOREM ReplaysAreExact == Spec => []ReplayIsExact
<1>1. LogInv => ReplayIsExact
  <2> SUFFICES ASSUME LogInv, NEW d \in decisions, Archived(d) # {}, d.group = Ask[d.request].group
               PROVE  Replayed(d) = d.order
    BY DEF ReplayIsExact
  <2> DEFINE a == CHOOSE x \in Archived(d) : TRUE
  <2>1. a \in Archived(d)  OBVIOUS
  <2>2. a.content = d.sum  BY <2>1 DEF Archived, LogInv
  <2>3. GoodDecision(d)  BY DEF LogInv
  <2>4. [Ask[d.request] EXCEPT !.group = d.group] = Ask[d.request]
    BY <2>3, AskAssumption DEF GoodDecision
  <2> QED  BY <2>2, <2>3, <2>4 DEF Replayed, GoodDecision
<1> QED  BY <1>1, LogInvInitially, LogInvStep, PTL DEF Spec

-----------------------------------------------------------------------------
(* Total orders                                                            *)

\* Every two members of a set are in one order.
Total(R, S) ==
    /\ \A x \in S : <<x, x>> \notin R
    /\ \A x, y, z \in S : <<x, y>> \in R /\ <<y, z>> \in R => <<x, z>> \in R
    /\ \A x, y \in S : x # y => <<x, y>> \in R \/ <<y, x>> \in R

Ahead(R, S, x) == {y \in S : <<y, x>> \in R}
Rank(R, S, x) == Cardinality(Ahead(R, S, x))

\* Who comes later has more ahead.
LEMMA RankGrows ==
  ASSUME NEW R, NEW S, IsFiniteSet(S), Total(R, S),
         NEW x \in S, NEW y \in S, <<x, y>> \in R
  PROVE  Rank(R, S, x) < Rank(R, S, y)
<1>1. /\ Ahead(R, S, x) \subseteq S /\ Ahead(R, S, y) \subseteq S
      /\ IsFiniteSet(Ahead(R, S, x)) /\ IsFiniteSet(Ahead(R, S, y))
  BY FS_Subset DEF Ahead
<1>2. Ahead(R, S, x) \in SUBSET Ahead(R, S, y)  BY DEF Ahead, Total
<1>3. x \in Ahead(R, S, y) /\ x \notin Ahead(R, S, x)  BY DEF Ahead, Total
<1>4. Rank(R, S, x) # Rank(R, S, y) /\ Rank(R, S, x) <= Rank(R, S, y)
  BY <1>1, <1>2, <1>3, FS_Subset DEF Rank
<1>5. Rank(R, S, x) \in Nat /\ Rank(R, S, y) \in Nat  BY <1>1, FS_CardinalityType DEF Rank
<1> QED  BY <1>4, <1>5

\* Ranks are numbers below the size of the set, and each of them is taken.
LEMMA RankIsTaken ==
  ASSUME NEW R, NEW S, IsFiniteSet(S), Total(R, S)
  PROVE  /\ \A x \in S : Rank(R, S, x) \in 0..(Cardinality(S) - 1)
         /\ \A n \in 0..(Cardinality(S) - 1) : \E x \in S : Rank(R, S, x) = n
<1> DEFINE N == Cardinality(S)
           f == [x \in S |-> Rank(R, S, x)]
<1>0. N \in Nat  BY FS_CardinalityType
<1>1. ASSUME NEW x \in S  PROVE Rank(R, S, x) \in 0..(N - 1)
  <2>1. Ahead(R, S, x) \in SUBSET S /\ x \notin Ahead(R, S, x)  BY DEF Ahead, Total
  <2>2. /\ IsFiniteSet(Ahead(R, S, x)) /\ Rank(R, S, x) <= N /\ Rank(R, S, x) # N
    BY <2>1, FS_Subset DEF Rank
  <2>3. Rank(R, S, x) \in Nat  BY <2>2, FS_CardinalityType DEF Rank
  <2> QED  BY <1>0, <2>2, <2>3
<1>2. ASSUME NEW n \in 0..(N - 1), \A x \in S : Rank(R, S, x) # n  PROVE FALSE
  <2> DEFINE T == (0..(N - 1)) \ {n}
  <2>1. f \in [S -> T]  BY <1>1, <1>2
  <2>2. IsFiniteSet(0..(N - 1)) /\ Cardinality(0..(N - 1)) = N
    <3>1. 0 \in Int /\ N - 1 \in Int /\ ~(0 > N - 1) /\ (N - 1) - 0 + 1 = N  BY <1>0, <1>2
    <3> QED  BY <3>1, FS_Interval
  <2>3. IsFiniteSet(T) /\ Cardinality(T) = N - 1  BY <2>2, <1>2, FS_RemoveElement
  <2>4. Cardinality(T) < Cardinality(S)  BY <2>3, <1>0
  <2> HIDE DEF T, f
  <2>5. PICK x \in S, y \in S : x # y /\ f[x] = f[y]  BY <2>1, <2>3, <2>4, FS_PigeonHole
  <2>6. Rank(R, S, x) = Rank(R, S, y)  BY <2>5 DEF f
  <2>7. Rank(R, S, x) \in Int /\ ~(Rank(R, S, x) < Rank(R, S, x))  BY <1>1
  <2>8. <<x, y>> \in R \/ <<y, x>> \in R  BY <2>5 DEF Total
  <2> QED  BY <2>6, <2>7, <2>8, RankGrows
<1> QED  BY <1>1, <1>2

\* A finite set can be put in order.
LEMMA OrderExists ==
  ASSUME NEW R, NEW S, IsFiniteSet(S), Total(R, S)
  PROVE  \E order \in SetToSeqs(S) :
            \A i, j \in DOMAIN order : i < j => <<order[i], order[j]>> \in R
<1> DEFINE N == Cardinality(S)
           order == [i \in 1..N |-> CHOOSE x \in S : Rank(R, S, x) = i - 1]
<1>0. N \in Nat  BY FS_CardinalityType
<1>1. ASSUME NEW i \in 1..N  PROVE order[i] \in S /\ Rank(R, S, order[i]) = i - 1
  <2>1. i - 1 \in 0..(N - 1)  BY <1>0
  <2>2. \E x \in S : Rank(R, S, x) = i - 1  BY <2>1, RankIsTaken
  <2> QED  BY <2>2
<1>2. DOMAIN order = 1..N /\ order \in [1..N -> S]  BY <1>1
<1> HIDE DEF order
<1>3. ASSUME NEW i \in 1..N, NEW j \in 1..N, i # j  PROVE order[i] # order[j]
  <2>1. i \in Int /\ j \in Int /\ i - 1 # j - 1  BY <1>0, <1>3
  <2> QED  BY <1>1, <2>1
<1>4. order \in SetToSeqs(S)  BY <1>2, <1>3 DEF SetToSeqs
<1>5. ASSUME NEW i \in 1..N, NEW j \in 1..N, i < j  PROVE <<order[i], order[j]>> \in R
  <2>1. ~(j - 1 < i - 1) /\ i # j  BY <1>5
  <2>2. ~(Rank(R, S, order[j]) < Rank(R, S, order[i]))  BY <1>1, <2>1
  <2>3. order[i] # order[j]  BY <1>3, <2>1
  <2>4. <<order[j], order[i]>> \notin R  BY <1>1, <2>2, RankGrows
  <2> QED  BY <1>1, <2>3, <2>4 DEF Total
<1> QED  BY <1>2, <1>4, <1>5

\* A finite set of integers, with zero, has a largest number.
LEMMA BiggestIs ==
  ASSUME NEW S \in SUBSET Int, IsFiniteSet(S)
  PROVE  Cases!Biggest(S) \in Nat /\ Cases!OrOne(Cases!Biggest(S)) \in Nat \ {0}
<1> DEFINE T == S \cup {0}
           R == {p \in T \X T : p[1] < p[2]}
<1>0. T \in SUBSET Int /\ 0 \in T /\ IsFiniteSet(T)  BY FS_AddElement
<1>1. Total(R, T)
  <2>1. \A x, y \in T : <<x, y>> \in R <=> x < y  OBVIOUS
  <2>2. \A x, y \in T : x \in Int /\ y \in Int  BY <1>0
  <2> HIDE DEF R, T
  <2> QED  BY <2>1, <2>2 DEF Total
<1>2. Cardinality(T) \in Nat /\ Cardinality(T) # 0  BY <1>0, FS_CardinalityType, FS_EmptySet
<1>3. \A x, y \in T : <<x, y>> \in R <=> x < y  OBVIOUS
<1> HIDE DEF T, R
<1>4. PICK x \in T : Rank(R, T, x) = Cardinality(T) - 1
  <2>1. Cardinality(T) - 1 \in 0..(Cardinality(T) - 1)  BY <1>2
  <2> QED  BY <1>0, <1>1, <2>1, RankIsTaken
<1>5. ASSUME NEW y \in T  PROVE y <= x
  <2> SUFFICES ASSUME x < y  PROVE FALSE  BY <1>0
  <2>1. Rank(R, T, x) < Rank(R, T, y)  BY <1>0, <1>1, <1>3, RankGrows
  <2>2. Rank(R, T, y) \in 0..(Cardinality(T) - 1)  BY <1>0, <1>1, RankIsTaken
  <2> QED  BY <1>2, <1>4, <2>1, <2>2
<1>6. Cases!Biggest(S) = CHOOSE b \in T : \A y \in T : y <= b  BY DEF Cases!Biggest, T
<1>7. Cases!Biggest(S) \in T /\ \A y \in T : y <= Cases!Biggest(S)  BY <1>5, <1>6
<1>8. 0 <= Cases!Biggest(S) /\ Cases!Biggest(S) \in Int  BY <1>0, <1>7
<1> QED  BY <1>8 DEF Cases!OrOne

-----------------------------------------------------------------------------
(* The order of the strategies                                             *)

Fraction(f) == f.num \in Int /\ f.den \in Nat \ {0}
Higher(f, g) == Cases!Above(f, g)
Level(f, g) == ~Higher(f, g) /\ ~Higher(g, f)

LEMMA TimesKeeps ==
  ASSUME NEW a \in Int, NEW b \in Int, NEW c \in Nat \ {0}
  PROVE  /\ a > b <=> a * c > b * c
         /\ a * c \in Int /\ b * c \in Int
  OBVIOUS

\* What is above another is above whatever is not above that, and the other way.
LEMMA HigherIs ==
  ASSUME NEW f, NEW g, NEW h, Fraction(f), Fraction(g), Fraction(h)
  PROVE  /\ ~Higher(f, f)
         /\ Higher(f, g) => ~Higher(g, f)
         /\ Higher(f, g) /\ ~Higher(h, g) => Higher(f, h)
         /\ ~Higher(g, f) /\ Higher(g, h) => Higher(f, h)
<1>1. PICK a \in Int, b \in Int, c \in Int : a = f.num /\ b = g.num /\ c = h.num  BY DEF Fraction
<1>2. PICK x \in Nat \ {0}, y \in Nat \ {0}, z \in Nat \ {0} : x = f.den /\ y = g.den /\ z = h.den
  BY DEF Fraction
<1>3. /\ Higher(f, g) <=> a * y > b * x
      /\ Higher(g, f) <=> b * x > a * y
      /\ Higher(g, h) <=> b * z > c * y
      /\ Higher(h, g) <=> c * y > b * z
      /\ Higher(f, h) <=> a * z > c * x
      /\ Higher(f, f) <=> a * x > a * x
  BY <1>1, <1>2 DEF Higher, Cases!Above
<1>4. /\ a * y \in Int /\ b * x \in Int /\ b * z \in Int /\ c * y \in Int /\ a * z \in Int
      /\ c * x \in Int /\ a * x \in Int
  OBVIOUS
<1>5. /\ a * y > b * x <=> (a * y) * z > (b * x) * z
      /\ b * z > c * y <=> (b * z) * x > (c * y) * x
      /\ a * z > c * x <=> (a * z) * y > (c * x) * y
      /\ b * x > a * y <=> (b * x) * z > (a * y) * z
      /\ c * y > b * z <=> (c * y) * x > (b * z) * x
  BY <1>4, TimesKeeps
<1>6. (a * y) * z = (a * z) * y /\ (b * x) * z = (b * z) * x /\ (c * y) * x = (c * x) * y
  OBVIOUS
<1>7. PICK k \in Int, m \in Int, n \in Int : k = (a * y) * z /\ m = (b * x) * z /\ n = (c * y) * x
  BY <1>4
<1>8. /\ Higher(f, g) <=> k > m
      /\ Higher(g, f) <=> m > k
      /\ Higher(g, h) <=> m > n
      /\ Higher(h, g) <=> n > m
      /\ Higher(f, h) <=> k > n
  BY <1>3, <1>5, <1>6, <1>7
<1>9. ~Higher(f, f)  BY <1>3, <1>4
<1> QED  BY <1>8, <1>9

\* Measures compared one after the other, a tie decided by the next.
Wins(m, n, a, b) ==
    \E i \in 1..n :
        /\ Higher(m[i][a], m[i][b])
        /\ \A j \in 1..(i - 1) : Level(m[j][a], m[j][b])

LEMMA WinnersAreTotal ==
  ASSUME NEW n \in 1..5, NEW S, NEW m,
         \A i \in 1..n, x \in S : Fraction(m[i][x]),
         \A x, y \in S : x # y => ~Level(m[n][x], m[n][y])
  PROVE  Total({p \in S \X S : Wins(m, n, p[1], p[2])}, S)
<1> DEFINE R == {p \in S \X S : Wins(m, n, p[1], p[2])}
<1>0. \A x, y \in S : <<x, y>> \in R <=> Wins(m, n, x, y)  OBVIOUS
<1> HIDE DEF R
<1>1. ASSUME NEW x \in S  PROVE ~Wins(m, n, x, x)
  BY <1>1, HigherIs DEF Wins
<1>2. ASSUME NEW x \in S, NEW y \in S, NEW z \in S, Wins(m, n, x, y), Wins(m, n, y, z)
      PROVE  Wins(m, n, x, z)
  <2>1. PICK i \in 1..n : /\ Higher(m[i][x], m[i][y])
                          /\ \A j \in 1..(i - 1) : Level(m[j][x], m[j][y])
    BY <1>2 DEF Wins
  <2>2. PICK k \in 1..n : /\ Higher(m[k][y], m[k][z])
                          /\ \A j \in 1..(k - 1) : Level(m[j][y], m[j][z])
    BY <1>2 DEF Wins
  <2>3. ASSUME NEW j \in 1..n, Level(m[j][x], m[j][y]), Level(m[j][y], m[j][z])
        PROVE  Level(m[j][x], m[j][z])
    BY <2>3, HigherIs DEF Level
  <2>4. CASE i < k
    <3>1. i \in 1..(k - 1)  BY <2>4
    <3>2. Higher(m[i][x], m[i][z])  BY <2>1, <2>2, <3>1, HigherIs DEF Level
    <3>3. \A j \in 1..(i - 1) : j \in 1..(k - 1) /\ j \in 1..n  BY <2>4
    <3>4. \A j \in 1..(i - 1) : Level(m[j][x], m[j][z])  BY <2>1, <2>2, <2>3, <3>3
    <3> QED  BY <3>2, <3>4 DEF Wins
  <2>5. CASE k < i
    <3>1. k \in 1..(i - 1)  BY <2>5
    <3>2. Higher(m[k][x], m[k][z])  BY <2>1, <2>2, <3>1, HigherIs DEF Level
    <3>3. \A j \in 1..(k - 1) : j \in 1..(i - 1) /\ j \in 1..n  BY <2>5
    <3>4. \A j \in 1..(k - 1) : Level(m[j][x], m[j][z])  BY <2>1, <2>2, <2>3, <3>3
    <3> QED  BY <3>2, <3>4 DEF Wins
  <2>6. CASE i = k
    <3>1. Higher(m[i][x], m[i][z])  BY <2>1, <2>2, <2>6, HigherIs
    <3>2. \A j \in 1..(i - 1) : j \in 1..n  OBVIOUS
    <3>3. \A j \in 1..(i - 1) : Level(m[j][x], m[j][z])  BY <2>1, <2>2, <2>3, <2>6, <3>2
    <3> QED  BY <3>1, <3>3 DEF Wins
  <2> QED  BY <2>4, <2>5, <2>6
<1>3. ASSUME NEW x \in S, NEW y \in S, x # y  PROVE Wins(m, n, x, y) \/ Wins(m, n, y, x)
  <2> DEFINE D == {i \in 1..n : ~Level(m[i][x], m[i][y])}
  <2>1. n \in D  BY <1>3
  <2>2. \E i \in D : \A j \in D : i <= j
    <3>1. D \subseteq 1..5 /\ D # {}  BY <2>1
    <3> HIDE DEF D
    <3>2. \A j \in D : j = 1 \/ j = 2 \/ j = 3 \/ j = 4 \/ j = 5  BY <3>1
    <3>3. CASE 1 \in D  BY <3>2, <3>3
    <3>4. CASE 1 \notin D /\ 2 \in D  BY <3>2, <3>4
    <3>5. CASE 1 \notin D /\ 2 \notin D /\ 3 \in D  BY <3>2, <3>5
    <3>6. CASE 1 \notin D /\ 2 \notin D /\ 3 \notin D /\ 4 \in D  BY <3>2, <3>6
    <3>7. CASE 1 \notin D /\ 2 \notin D /\ 3 \notin D /\ 4 \notin D
      <4>1. \A j \in D : j = 5  BY <3>2, <3>7
      <4>2. 5 \in D  BY <3>1, <4>1
      <4> QED  BY <4>1, <4>2
    <3> QED  BY <3>3, <3>4, <3>5, <3>6, <3>7
  <2>3. PICK i \in D : \A j \in D : i <= j  BY <2>2
  <2>4. \A j \in 1..(i - 1) : j \in 1..n /\ j \notin D  BY <2>3
  <2>5. \A j \in 1..(i - 1) : Level(m[j][x], m[j][y]) /\ Level(m[j][y], m[j][x])
    BY <2>4 DEF Level
  <2>6. i \in 1..n /\ ~Level(m[i][x], m[i][y])  BY <2>3
  <2>7. Higher(m[i][x], m[i][y]) \/ Higher(m[i][y], m[i][x])  BY <2>6 DEF Level
  <2> QED  BY <2>5, <2>6, <2>7 DEF Wins
<1>4. Total(R, S)  BY <1>0, <1>1, <1>2, <1>3 DEF Total
<1> QED  BY <1>4 DEF R
-----------------------------------------------------------------------------
(* What the strategies compare                                             *)

Profiled(ch) ==
    /\ {ch.priority, ch.ttft50, ch.ttft95, ch.ratio.value} \subseteq Int
    /\ {ch.ratio.official.in, ch.ratio.official.out, ch.declared.in, ch.declared.out} \subseteq Int
    /\ {ch.attempts, ch.successes} \subseteq Nat
Priced(price) == price.in \in Int /\ price.out \in Int
Configured(policy) == \A key \in DOMAIN policy.config : policy.config[key] \in Nat
Asked(req) == req.input \in Nat \ {0} /\ req.maxOutput \in Int

LEMMA GetIs ==
  ASSUME NEW policy, Configured(policy), NEW key, NEW default \in Nat
  PROVE  Cases!Get(policy, key, default) \in Nat
  BY DEF Cases!Get, Configured

LEMMA ProductIs ==
  /\ \A a, b \in Int : a * b \in Int /\ a + b \in Int /\ a - b \in Int
  /\ \A a, b \in Nat \ {0} : a * b \in Nat \ {0}
  /\ \A a, b \in Nat : a * b \in Nat /\ a + b \in Nat
  OBVIOUS

\* A price is above zero: half a declaration counts as none.
LEMMA PriceIs ==
  ASSUME NEW ch, Profiled(ch), NEW official, Priced(official)
  PROVE  /\ Cases!Price(ch, official).in \in Nat \ {0}
         /\ Cases!Price(ch, official).out \in Nat \ {0}
<1> DEFINE Good(p) == p.in \in Nat \ {0} /\ p.out \in Nat \ {0}
<1>0. BaselinePrice \in Nat \ {0} /\ UnknownOutput \in Nat \ {0}  BY CaseAssumption
<1>1. ASSUME NEW n \in Nat \ {0}, NEW p, Good(p)
      PROVE  Good([in |-> n * p.in, out |-> n * p.out])
  BY <1>1, ProductIs
<1>2. CASE ch.ratio.value > 0
  <2>1. PICK n \in Nat \ {0} : n = ch.ratio.value  BY <1>2 DEF Profiled
  <2> DEFINE list == IF ch.ratio.official.in > 0 /\ ch.ratio.official.out > 0
                     THEN ch.ratio.official ELSE official
  <2>2. Good([in |-> n * BaselinePrice, out |-> n * BaselinePrice])  BY <1>0, ProductIs
  <2>3. list.in \in Int /\ list.out \in Int  BY DEF Profiled, Priced
  <2>4. list.in > 0 /\ list.out > 0 => Good([in |-> n * list.in, out |-> n * list.out])
    <3> HIDE DEF list
    <3> SUFFICES ASSUME list.in > 0, list.out > 0
                 PROVE  Good([in |-> n * list.in, out |-> n * list.out])
      OBVIOUS
    <3>1. list.in \in Nat \ {0} /\ list.out \in Nat \ {0}  BY <2>3
    <3> QED  BY <3>1, ProductIs
  <2>5. Cases!Price(ch, official) =
          IF ch.ratio.basis = "official" /\ list.in > 0 /\ list.out > 0
          THEN [in |-> n * list.in, out |-> n * list.out]
          ELSE [in |-> n * BaselinePrice, out |-> n * BaselinePrice]
    BY <1>2, <2>1 DEF Cases!Price, Cases!MeasuredPrice
  <2> HIDE DEF list
  <2>6. Good(Cases!Price(ch, official))
    <3>1. CASE ch.ratio.basis = "official" /\ list.in > 0 /\ list.out > 0
      <4>1. Cases!Price(ch, official) = [in |-> n * list.in, out |-> n * list.out]  BY <2>5, <3>1
      <4> QED  BY ONLY <2>4, <3>1, <4>1
    <3>2. CASE ~(ch.ratio.basis = "official" /\ list.in > 0 /\ list.out > 0)
      <4>1. Cases!Price(ch, official) = [in |-> n * BaselinePrice, out |-> n * BaselinePrice]
        BY <2>5, <3>2
      <4> QED  BY ONLY <2>2, <4>1
    <3> QED  BY <3>1, <3>2
  <2> QED  BY <2>6
<1>3. CASE ~(ch.ratio.value > 0) /\ ch.declared.in > 0 /\ ch.declared.out > 0
  <2>1. PICK i \in Nat \ {0}, o \in Nat \ {0} : i = ch.declared.in /\ o = ch.declared.out
    BY <1>3 DEF Profiled
  <2>2. i * BaselinePrice \in Nat \ {0} /\ o * BaselinePrice \in Nat \ {0}  BY <1>0, ProductIs
  <2>3. Cases!Price(ch, official) = [in |-> i * BaselinePrice, out |-> o * BaselinePrice]
    BY <1>3, <2>1 DEF Cases!Price
  <2> QED  BY <2>2, <2>3
<1>4. CASE ~(ch.ratio.value > 0) /\ ~(ch.declared.in > 0 /\ ch.declared.out > 0)
  <2>1. Cases!Price(ch, official) = [in |-> BaselinePrice, out |-> UnknownOutput]
    BY <1>4 DEF Cases!Price, Cases!UnknownPrice
  <2> QED  BY <1>0, <2>1
<1> QED  BY <1>2, <1>3, <1>4

\* A cost is a number, above zero unless the client asks for fewer than no tokens.
LEMMA CostIs ==
  ASSUME NEW ch, Profiled(ch), NEW req, Asked(req), NEW policy, Configured(policy),
         NEW official, Priced(official)
  PROVE  /\ Cases!EstimateCost(ch, req, policy, official) \in Int
         /\ req.maxOutput >= 0 => Cases!EstimateCost(ch, req, policy, official) > 0
<1>1. PICK pin \in Nat \ {0}, pout \in Nat \ {0} :
         pin = Cases!Price(ch, official).in /\ pout = Cases!Price(ch, official).out
  BY PriceIs
<1>2. PICK in \in Nat \ {0} : in = req.input  BY DEF Asked
<1>3. PICK out \in Int : /\ out = Cases!Tokens(req, policy).output
                         /\ req.maxOutput >= 0 => out >= 0
  <2>1. PICK ratio \in Nat : ratio = Cases!Get(policy, "expected_output_ratio", 2)  BY GetIs
  <2>2. in * ratio \in Nat  BY <1>2, ProductIs
  <2>3. req.maxOutput \in Int  BY DEF Asked
  <2>4. Cases!Tokens(req, policy).output = IF req.maxOutput = 0 THEN in * ratio ELSE req.maxOutput
    BY <1>2, <2>1 DEF Cases!Tokens
  <2> QED  BY <2>2, <2>3, <2>4
<1>4. Cases!Tokens(req, policy).input = in  BY <1>2 DEF Cases!Tokens
<1>5. Cases!EstimateCost(ch, req, policy, official) = in * pin + out * pout
  BY <1>1, <1>3, <1>4 DEF Cases!EstimateCost
<1>6. PICK a \in Nat \ {0}, b \in Int : a = in * pin /\ b = out * pout  BY ProductIs
<1>7. out >= 0 => b >= 0
  <2> SUFFICES ASSUME out >= 0  PROVE b >= 0  OBVIOUS
  <2>1. out \in Nat  OBVIOUS
  <2>2. out * pout \in Nat  BY <2>1, ProductIs
  <2> QED  BY <1>6, <2>2
<1>8. Cases!EstimateCost(ch, req, policy, official) = a + b  BY <1>5, <1>6
<1> QED  BY <1>3, <1>7, <1>8

LEMMA ImageIsFinite ==
  ASSUME NEW S, IsFiniteSet(S), NEW f, DOMAIN f = S
  PROVE  IsFiniteSet({f[x] : x \in S})
<1> DEFINE T == {f[x] : x \in S}
           g == [x \in S |-> f[x]]
<1>1. g \in Surjection(S, T)  BY DEF Surjection
<1> HIDE DEF T, g
<1>2. IsFiniteSet(T)  BY <1>1, FS_Surjection
<1> QED  BY <1>2 DEF T

LEMMA ReliabilityIs ==
  ASSUME NEW ch, Profiled(ch)
  PROVE  Fraction(Cases!Reliability(ch))
  BY DEF Cases!Reliability, Cases!Frac, Fraction, Profiled

LEMMA CompositeIs ==
  ASSUME NEW ids, IsFiniteSet(ids), NEW channels, \A i \in ids : Profiled(channels[i]),
         NEW ch, Profiled(ch), NEW req, Asked(req), NEW policy, Configured(policy),
         NEW official, Priced(official)
  PROVE  Fraction(Cases!Composite(ch, channels, ids, req, policy, official))
<1> DEFINE Cost(c) == Cases!EstimateCost(c, req, policy, official)
           costs == {Cost(channels[i]) : i \in ids}
           times == {channels[i].ttft50 : i \in ids}
           loads == {channels[i].attempts : i \in ids}
           w(key, default) == Cases!Get(policy, key, default)
           maxCost == Cases!OrOne(Cases!Biggest(costs))
           maxTTFT == Cases!OrOne(Cases!Biggest(times))
           maxLoad == Cases!OrOne(Cases!Biggest(loads))
           rel == Cases!Reliability(ch)
<1>1. costs \in SUBSET Int /\ IsFiniteSet(costs)
  <2> DEFINE f == [i \in ids |-> Cost(channels[i])]
  <2>1. costs = {f[i] : i \in ids}  OBVIOUS
  <2>2. DOMAIN f = ids  OBVIOUS
  <2>3. costs \in SUBSET Int  BY CostIs
  <2> HIDE DEF f, costs
  <2> QED  BY <2>1, <2>2, <2>3, ImageIsFinite
<1>2. times \in SUBSET Int /\ IsFiniteSet(times)
  <2> DEFINE f == [i \in ids |-> channels[i].ttft50]
  <2>1. times = {f[i] : i \in ids}  OBVIOUS
  <2>2. DOMAIN f = ids  OBVIOUS
  <2>3. times \in SUBSET Int  BY DEF Profiled
  <2> HIDE DEF f, times
  <2> QED  BY <2>1, <2>2, <2>3, ImageIsFinite
<1>3. loads \in SUBSET Int /\ IsFiniteSet(loads)
  <2> DEFINE f == [i \in ids |-> channels[i].attempts]
  <2>1. loads = {f[i] : i \in ids}  OBVIOUS
  <2>2. DOMAIN f = ids  OBVIOUS
  <2>3. loads \in SUBSET Int  BY DEF Profiled
  <2> HIDE DEF f, loads
  <2> QED  BY <2>1, <2>2, <2>3, ImageIsFinite
<1> HIDE DEF costs, times, loads
<1>4. PICK mc \in Nat \ {0}, mt \in Nat \ {0}, ml \in Nat \ {0} :
         mc = maxCost /\ mt = maxTTFT /\ ml = maxLoad
  BY <1>1, <1>2, <1>3, BiggestIs
<1>5. PICK rn \in Int, rd \in Nat \ {0} : rn = rel.num /\ rd = rel.den
  BY ReliabilityIs DEF Fraction
<1>6. PICK wc \in Int, wr \in Int, wl \in Int, wo \in Int :
         wc = w("cost", 7) /\ wr = w("reliability", 6) /\ wl = w("latency", 5) /\ wo = w("load", 2)
  BY GetIs
<1>7. PICK dc \in Int, dt \in Int, dl \in Int :
         dc = mc - Cost(ch) /\ dt = mt - ch.ttft50 /\ dl = ml - ch.attempts
  <2>1. Cost(ch) \in Int  BY CostIs
  <2>2. ch.ttft50 \in Int /\ ch.attempts \in Int  BY DEF Profiled
  <2> HIDE DEF Cost
  <2> QED  BY <2>1, <2>2
<1>8. Cases!Composite(ch, channels, ids, req, policy, official) =
        [num |-> rd * mt * ml * wc * dc + mc * mt * ml * wr * rn
                   + rd * mc * ml * wl * dt + rd * mc * mt * wo * dl,
         den |-> rd * mc * mt * ml]
  BY <1>4, <1>5, <1>6, <1>7 DEF Cases!Composite, Cases!Frac, costs, times, loads
<1>9. rd * mc * mt * ml \in Nat \ {0}
  <2>1. rd * mc \in Nat \ {0}  BY ProductIs
  <2>2. rd * mc * mt \in Nat \ {0}  BY <2>1, ProductIs
  <2> QED  BY <2>2, ProductIs
<1>10. rd * mt * ml * wc * dc + mc * mt * ml * wr * rn
          + rd * mc * ml * wl * dt + rd * mc * mt * wo * dl \in Int
  <2>1. ASSUME NEW a \in Int, NEW b \in Int, NEW c \in Int, NEW d \in Int, NEW e \in Int
        PROVE  a * b * c * d * e \in Int
    BY ProductIs
  <2>2. PICK p \in Int, q \in Int, r \in Int, s \in Int :
           /\ p = rd * mt * ml * wc * dc /\ q = mc * mt * ml * wr * rn
           /\ r = rd * mc * ml * wl * dt /\ s = rd * mc * mt * wo * dl
    BY <2>1
  <2>3. p + q + r + s \in Int  OBVIOUS
  <2> QED  BY <2>2, <2>3
<1> QED  BY <1>8, <1>9, <1>10 DEF Fraction

\* What strategies compare.
Compared == {"role", "priority", "reliability", "ttft50", "ttft95", "cost", "composite", "id"}

LEMMA MeasureIs ==
  ASSUME NEW ids, IsFiniteSet(ids), ids \subseteq Int,
         NEW channels, \A i \in ids : Profiled(channels[i]), NEW id \in ids,
         NEW req, Asked(req), NEW policy, Configured(policy), NEW official, Priced(official),
         NEW criterion \in Compared
  PROVE  Fraction(Cases!Measure(criterion, id, channels, ids, req, policy, official))
<1> DEFINE ch == channels[id]
           F(n) == Fraction(Cases!Frac(n, 1))
           M == Cases!Measure(criterion, id, channels, ids, req, policy, official)
<1>0. Profiled(ch)  OBVIOUS
<1>1. ASSUME NEW n \in Int  PROVE Fraction(Cases!Frac(n, 1)) /\ Fraction(Cases!Frac(-n, 1))
  BY DEF Fraction, Cases!Frac
<1>2. CASE criterion = "role"
  <2>1. Cases!RoleLevel(ch.role) \in Int  BY DEF Cases!RoleLevel, Cases!Levels
  <2> QED  BY <1>1, <1>2, <2>1 DEF Cases!Measure
<1>3. CASE criterion = "priority"
  <2>1. ch.priority \in Int  BY <1>0 DEF Profiled
  <2> QED  BY <1>1, <1>3, <2>1 DEF Cases!Measure
<1>4. CASE criterion = "reliability"  BY <1>0, <1>4, ReliabilityIs DEF Cases!Measure
<1>5. CASE criterion = "ttft50"
  <2>1. ch.ttft50 \in Int  BY <1>0 DEF Profiled
  <2> QED  BY <1>1, <1>5, <2>1 DEF Cases!Measure
<1>6. CASE criterion = "ttft95"
  <2>1. ch.ttft95 \in Int  BY <1>0 DEF Profiled
  <2> QED  BY <1>1, <1>6, <2>1 DEF Cases!Measure
<1>7. CASE criterion = "cost"
  <2>1. Cases!EstimateCost(ch, req, policy, official) \in Int  BY <1>0, CostIs
  <2> QED  BY <1>1, <1>7, <2>1 DEF Cases!Measure
<1>8. CASE criterion = "composite"
  <2>1. Fraction(Cases!Composite(ch, channels, ids, req, policy, official))
    BY <1>0, CompositeIs
  <2> QED  BY <1>8, <2>1 DEF Cases!Measure
<1>9. CASE criterion = "id"
  <2>1. id \in Int  OBVIOUS
  <2> QED  BY <1>1, <1>9, <2>1 DEF Cases!Measure
<1> QED  BY <1>2, <1>3, <1>4, <1>5, <1>6, <1>7, <1>8, <1>9 DEF Compared

\* Every strategy compares identifiers last, which differ.
LEMMA CriteriaAre ==
  ASSUME NEW strategy
  PROVE  \E n \in 1..5 : /\ DOMAIN Cases!CriteriaOf(strategy) = 1..n
                         /\ \A i \in 1..n : Cases!CriteriaOf(strategy)[i] \in Compared
                         /\ Cases!CriteriaOf(strategy)[n] = "id"
<1> DEFINE Fit(c) == \E n \in 1..5 : /\ DOMAIN c = 1..n
                                     /\ \A i \in 1..n : c[i] \in Compared
                                     /\ c[n] = "id"
<1>0. ASSUME NEW c, NEW n \in 1..5, DOMAIN c = 1..n, \A i \in 1..n : c[i] \in Compared, c[n] = "id"
      PROVE  Fit(c)
  BY <1>0
<1>1. Fit(<<"role", "priority", "reliability", "ttft50", "id">>)
  <2> DEFINE c == <<"role", "priority", "reliability", "ttft50", "id">>
  <2>1. DOMAIN c = 1..5 /\ (\A i \in 1..5 : c[i] \in Compared) /\ c[5] = "id"  BY DEF Compared
  <2>2. Fit(c)
    <3> HIDE DEF c, Fit
    <3> QED  BY <1>0, <2>1
  <2> QED  BY <2>2
<1>2. Fit(<<"cost", "reliability", "ttft50", "id">>)
  <2> DEFINE c == <<"cost", "reliability", "ttft50", "id">>
  <2>1. DOMAIN c = 1..4 /\ (\A i \in 1..4 : c[i] \in Compared) /\ c[4] = "id"  BY DEF Compared
  <2>2. Fit(c)
    <3> HIDE DEF c, Fit
    <3> QED  BY <1>0, <2>1
  <2> QED  BY <2>2
<1>3. Fit(<<"ttft50", "ttft95", "reliability", "id">>)
  <2> DEFINE c == <<"ttft50", "ttft95", "reliability", "id">>
  <2>1. DOMAIN c = 1..4 /\ (\A i \in 1..4 : c[i] \in Compared) /\ c[4] = "id"  BY DEF Compared
  <2>2. Fit(c)
    <3> HIDE DEF c, Fit
    <3> QED  BY <1>0, <2>1
  <2> QED  BY <2>2
<1>4. Fit(<<"reliability", "ttft50", "cost", "id">>)
  <2> DEFINE c == <<"reliability", "ttft50", "cost", "id">>
  <2>1. DOMAIN c = 1..4 /\ (\A i \in 1..4 : c[i] \in Compared) /\ c[4] = "id"  BY DEF Compared
  <2>2. Fit(c)
    <3> HIDE DEF c, Fit
    <3> QED  BY <1>0, <2>1
  <2> QED  BY <2>2
<1>5. Fit(<<"composite", "reliability", "id">>)
  <2> DEFINE c == <<"composite", "reliability", "id">>
  <2>1. DOMAIN c = 1..3 /\ (\A i \in 1..3 : c[i] \in Compared) /\ c[3] = "id"  BY DEF Compared
  <2>2. Fit(c)
    <3> HIDE DEF c, Fit
    <3> QED  BY <1>0, <2>1
  <2> QED  BY <2>2
<1>6. Cases!CriteriaOf(strategy) \in
         {<<"role", "priority", "reliability", "ttft50", "id">>,
          <<"cost", "reliability", "ttft50", "id">>,
          <<"ttft50", "ttft95", "reliability", "id">>, <<"reliability", "ttft50", "cost", "id">>,
          <<"composite", "reliability", "id">>}
  BY DEF Cases!CriteriaOf, Cases!Criteria
<1> HIDE DEF Fit
<1>7. Fit(Cases!CriteriaOf(strategy))  BY <1>1, <1>2, <1>3, <1>4, <1>5, <1>6
<1> QED  BY <1>7 DEF Fit

\* The instance has operators of the libraries of its own, which are the same.
LEMMA SameLibrary ==
  ASSUME NEW S
  PROVE  Cases!SetToSeqs(S) = SetToSeqs(S)
<1>1. Cases!Cardinality(S) = Cardinality(S)  BY DEF Cases!Cardinality, Cardinality
<1> DEFINE D == 1..Cardinality(S)
<1>2. SetToSeqs(S) = {f \in [D -> S] : \A i, j \in D : i # j => f[i] # f[j]}  BY DEF SetToSeqs
<1>3. Cases!SetToSeqs(S) = {f \in [D -> S] : \A i, j \in D : i # j => f[i] # f[j]}
  BY <1>1 DEF Cases!SetToSeqs
<1> QED  BY <1>2, <1>3

\* The order a decision lists its candidates in exists: whatever the strategy, it
\* compares any two channels, and one way round only (strategy.go, Sort).
THEOREM CandidatesAreSorted ==
  ASSUME NEW channels, NEW req, Asked(req), NEW policy, Configured(policy),
         NEW official, Priced(official),
         IsFiniteSet(DOMAIN channels), DOMAIN channels \subseteq Int,
         \A i \in DOMAIN channels : Profiled(channels[i])
  PROVE  LET ids == Cases!Candidates(channels, req, policy, official)
             order == Cases!SortCandidates(channels, req, policy, official)
         IN  /\ order \in SetToSeqs(ids)
             /\ Cases!Sorted(order, channels, ids, req, policy, official)
<1> DEFINE ids == Cases!Candidates(channels, req, policy, official)
           order == Cases!SortCandidates(channels, req, policy, official)
           P(a, b) == Cases!Precedes(a, b, channels, ids, req, policy, official)
           criteria == Cases!CriteriaOf(policy.strategy)
<1>1. IsFiniteSet(ids) /\ ids \subseteq Int /\ \A i \in ids : Profiled(channels[i])
  <2>1. ids \in SUBSET DOMAIN channels  BY DEF Cases!Candidates
  <2> HIDE DEF ids
  <2> QED  BY <2>1, FS_Subset
<1> HIDE DEF ids
<1>2. PICK n \in 1..5 : /\ DOMAIN criteria = 1..n
                        /\ \A i \in 1..n : criteria[i] \in Compared
                        /\ criteria[n] = "id"
  BY CriteriaAre
<1> DEFINE V(i, x) == Cases!Measure(criteria[i], x, channels, ids, req, policy, official)
           m == [i \in 1..n |-> [x \in ids |-> V(i, x)]]
           R == {p \in ids \X ids : P(p[1], p[2])}
           W == {p \in ids \X ids : Wins(m, n, p[1], p[2])}
<1>3. \A i \in 1..n, x \in ids : m[i][x] = V(i, x)  OBVIOUS
<1>4. \A i \in 1..n, x \in ids : Fraction(V(i, x))  BY <1>1, <1>2, MeasureIs
<1>5. ASSUME NEW x \in ids, NEW y \in ids, x # y  PROVE ~Level(V(n, x), V(n, y))
  <2>1. x \in Int /\ y \in Int  BY <1>1
  <2>2. V(n, x) = [num |-> -x, den |-> 1] /\ V(n, y) = [num |-> -y, den |-> 1]
    BY <1>2 DEF Cases!Measure, Cases!Frac
  <2> HIDE DEF V
  <2> QED  BY <1>5, <2>1, <2>2 DEF Level, Higher, Cases!Above
<1>6. \A x, y \in ids : P(x, y) <=> Wins(m, n, x, y)
  <2> SUFFICES ASSUME NEW x \in ids, NEW y \in ids  PROVE P(x, y) <=> Wins(m, n, x, y)
    OBVIOUS
  <2>1. P(x, y) <=> \E i \in 1..n :
                       /\ Higher(V(i, x), V(i, y))
                       /\ \A j \in 1..(i - 1) : Level(V(j, x), V(j, y))
    BY <1>2 DEF Cases!Precedes, Higher, Level
  <2> HIDE DEF m, V, P
  <2>2. \A i \in 1..n : \A j \in 1..(i - 1) : j \in 1..n  OBVIOUS
  <2> QED  BY <1>3, <2>1, <2>2 DEF Wins
<1>7. W = R  BY <1>6
<1>8. Total(R, ids)
  <2>1. \A i \in 1..n, x \in ids : Fraction(m[i][x])  BY <1>3, <1>4
  <2>2. \A x, y \in ids : x # y => ~Level(m[n][x], m[n][y])  BY <1>3, <1>5
  <2> HIDE DEF m, R
  <2>3. Total(W, ids)  BY <2>1, <2>2, WinnersAreTotal
  <2> QED  BY <1>7, <2>3
<1>9. \A x, y \in ids : <<x, y>> \in R <=> P(x, y)  OBVIOUS
<1> HIDE DEF R
<1>10. PICK o \in SetToSeqs(ids) : \A i, j \in DOMAIN o : i < j => <<o[i], o[j]>> \in R
  BY <1>1, <1>8, OrderExists
<1>11. \A i \in DOMAIN o : o[i] \in ids  BY DEF SetToSeqs
<1>12. Cases!Sorted(o, channels, ids, req, policy, official)
  BY <1>9, <1>10, <1>11 DEF Cases!Sorted
<1> HIDE DEF P
<1>13. order = CHOOSE q \in Cases!SetToSeqs(ids) :
                  Cases!Sorted(q, channels, ids, req, policy, official)
  BY DEF Cases!SortCandidates, ids
<1> HIDE DEF order
<1>14. order \in SetToSeqs(ids) /\ Cases!Sorted(order, channels, ids, req, policy, official)
  BY <1>12, <1>13, SameLibrary
<1> QED  BY <1>14 DEF order, ids

-----------------------------------------------------------------------------
(* The policy in force                                                     *)

\* The levels of the lookup, the most specific first, and what stands in them.
LEMMA LevelsAre ==
  ASSUME NEW token, NEW model, NEW group, NEW failed
  PROVE  LET levels == Cases!Lookup(Table, token, model, group, failed)
             Own(i, of) == {row \in Table : i \notin failed /\ row.token = token /\ row.model = of}
         IN  /\ DOMAIN levels = 1..4
             /\ levels[1] = Own(1, model) /\ levels[2] = Own(2, Cases!Null)
             /\ levels[3] \subseteq {[token |-> Cases!Null, model |-> Cases!Null,
                                      strategy |-> group.strategy, config |-> group.config]}
             /\ group = Cases!None => levels[3] = {}
             /\ levels[4] \subseteq Table
<1> DEFINE levels == Cases!Lookup(Table, token, model, group, failed)
           one == IF 1 \in failed THEN {} ELSE Cases!PolicyRows(Table, token, model)
           two == IF 2 \in failed THEN {} ELSE Cases!PolicyRows(Table, token, Cases!Null)
           three == IF group # Cases!None /\ group.strategy # Cases!Null
                    THEN {[token |-> Cases!Null, model |-> Cases!Null,
                           strategy |-> group.strategy, config |-> group.config]}
                    ELSE {}
           four == IF 4 \in failed THEN {} ELSE Cases!PolicyRows(Table, Cases!Null, Cases!Null)
<1>1. levels = <<one, two, three, four>>  BY DEF Cases!Lookup
<1>2. /\ one = {row \in Table : 1 \notin failed /\ row.token = token /\ row.model = model}
      /\ two = {row \in Table : 2 \notin failed /\ row.token = token /\ row.model = Cases!Null}
      /\ four \subseteq Table
  BY DEF Cases!PolicyRows
<1>3. /\ three \subseteq {[token |-> Cases!Null, model |-> Cases!Null,
                           strategy |-> group.strategy, config |-> group.config]}
      /\ group = Cases!None => three = {}
  OBVIOUS
<1> HIDE DEF one, two, three, four, levels
<1>4. /\ DOMAIN levels = 1..4 /\ levels[1] = one /\ levels[2] = two
      /\ levels[3] = three /\ levels[4] = four
  BY <1>1
<1> QED  BY <1>2, <1>3, <1>4 DEF levels

\* The first level that holds a row decides.
FirstOf(levels, policy, system) ==
    \/ policy = system /\ \A i \in 1..4 : levels[i] = {}
    \/ \E i \in 1..4 : \E row \in levels[i] :
          /\ policy = [strategy |-> row.strategy, config |-> row.config]
          /\ \A j \in 1..(i - 1) : levels[j] = {}

LEMMA FirstLevelDecides ==
  ASSUME NEW token, NEW model, NEW group, NEW failed, NEW system
  PROVE  FirstOf(Cases!Lookup(Table, token, model, group, failed),
                 Cases!LoadPolicy(Table, token, model, group, failed, system), system)
<1> DEFINE levels == Cases!Lookup(Table, token, model, group, failed)
           policy == Cases!LoadPolicy(Table, token, model, group, failed, system)
           hits == {i \in DOMAIN levels : levels[i] # {}}
           first == CHOOSE i \in hits : \A j \in hits : i <= j
           row == CHOOSE r \in levels[first] : TRUE
<1>1. DOMAIN levels = 1..4  BY LevelsAre
<1>2. policy = IF hits = {} THEN system ELSE [strategy |-> row.strategy, config |-> row.config]
  BY DEF Cases!LoadPolicy
<1> HIDE DEF levels, policy
<1>3. CASE hits = {}  BY <1>1, <1>2, <1>3 DEF policy, levels, FirstOf
<1>4. CASE hits # {}
  <2>1. \E i \in hits : \A j \in hits : i <= j
    <3>1. hits \subseteq 1..4  BY <1>1
    <3> HIDE DEF hits
    <3>2. \A j \in hits : j = 1 \/ j = 2 \/ j = 3 \/ j = 4  BY <3>1
    <3>3. CASE 1 \in hits  BY <3>2, <3>3
    <3>4. CASE 1 \notin hits /\ 2 \in hits  BY <3>2, <3>4
    <3>5. CASE 1 \notin hits /\ 2 \notin hits /\ 3 \in hits  BY <3>2, <3>5
    <3>6. CASE 1 \notin hits /\ 2 \notin hits /\ 3 \notin hits
      <4>1. \A j \in hits : j = 4  BY <3>2, <3>6
      <4>2. 4 \in hits  BY <1>4, <4>1
      <4> QED  BY <4>1, <4>2
    <3> QED  BY <3>3, <3>4, <3>5, <3>6
  <2>2. first \in hits /\ \A j \in hits : first <= j  BY <2>1
  <2> HIDE DEF first
  <2>3. first \in 1..4 /\ levels[first] # {}  BY <1>1, <2>2
  <2>4. \A j \in 1..(first - 1) : levels[j] = {}
    <3> SUFFICES ASSUME NEW j \in 1..(first - 1), levels[j] # {}  PROVE FALSE  OBVIOUS
    <3>1. j \in 1..4 /\ ~(first <= j)  BY <2>3
    <3>2. j \in hits  BY <1>1, <3>1
    <3> QED  BY <2>2, <3>1, <3>2
  <2>5. row \in levels[first]  BY <2>3
  <2> HIDE DEF row
  <2>6. policy = [strategy |-> row.strategy, config |-> row.config]  BY <1>2, <1>4
  <2> HIDE DEF hits
  <2>7. \E i \in 1..4 : \E r \in levels[i] :
           /\ policy = [strategy |-> r.strategy, config |-> r.config]
           /\ \A j \in 1..(i - 1) : levels[j] = {}
    BY <2>3, <2>4, <2>5, <2>6
  <2> QED  BY <2>7 DEF policy, levels, FirstOf
<1> QED  BY <1>3, <1>4

\* A group that names a strategy has no configuration of its own.
GroupOf(q, strategy) ==
    IF q.group = Cases!NoGroup THEN Cases!None ELSE [strategy |-> strategy, config |-> <<>>]
InForce(q, strategy, failed) ==
    Cases!LoadPolicy(Table, q.token, q.model, GroupOf(q, strategy), failed,
                     Cases!SystemPolicy(Fallback, Injected))

LEMMA InForceIsConfigured ==
  ASSUME NEW q, NEW strategy, NEW failed
  PROVE  Configured(InForce(q, strategy, failed))
<1> DEFINE group == GroupOf(q, strategy)
           levels == Cases!Lookup(Table, q.token, q.model, group, failed)
           system == Cases!SystemPolicy(Fallback, Injected)
           policy == InForce(q, strategy, failed)
<1>1. Configured(system)
  <2>1. \A key \in DOMAIN Fallback.config : Fallback.config[key] \in Nat
    <3>1. Fallback \in Table \cup {Fallback}  OBVIOUS
    <3> QED  BY <3>1, CaseAssumption
  <2>2. \A key \in DOMAIN Fallback.config :
           key \in DOMAIN Injected => Injected[key] \in Int
    BY CaseAssumption
  <2>3. system.config = [key \in DOMAIN Fallback.config |->
                           IF key \in DOMAIN Injected /\ Injected[key] > 0
                           THEN Injected[key] ELSE Fallback.config[key]]
    BY DEF Cases!SystemPolicy
  <2> HIDE DEF system
  <2> QED  BY <2>1, <2>2, <2>3 DEF Configured
<1>2. ASSUME NEW row \in Table  PROVE Configured(row)
  <2>1. row \in Table \cup {Fallback}  OBVIOUS
  <2> QED  BY <2>1, CaseAssumption DEF Configured
<1>3. ASSUME NEW i \in 1..4, NEW row \in levels[i]  PROVE Configured(row)
  <2>1. CASE i \in {1, 2, 4}
    <3>1. levels[1] \subseteq Table /\ levels[2] \subseteq Table /\ levels[4] \subseteq Table
      BY LevelsAre
    <3> HIDE DEF levels
    <3> QED  BY <1>2, <1>3, <2>1, <3>1
  <2>2. CASE i = 3
    <3>1. group = Cases!None => levels[3] = {}  BY LevelsAre
    <3>2. levels[3] \subseteq {[token |-> Cases!Null, model |-> Cases!Null,
                               strategy |-> group.strategy, config |-> group.config]}
      BY LevelsAre
    <3> HIDE DEF levels
    <3>3. group # Cases!None  BY <1>3, <2>2, <3>1
    <3>4. group = [strategy |-> strategy, config |-> <<>>]  BY <3>3 DEF GroupOf
    <3>5. row = [token |-> Cases!Null, model |-> Cases!Null,
                 strategy |-> group.strategy, config |-> group.config]
      BY <1>3, <2>2, <3>2
    <3>6. row.config = <<>>  BY <3>4, <3>5
    <3>7. DOMAIN row.config = {}
      <4>1. DOMAIN <<>> = {}  OBVIOUS
      <4> QED  BY <3>6, <4>1
    <3> QED  BY <3>7 DEF Configured
  <2>3. i = 1 \/ i = 2 \/ i = 3 \/ i = 4  OBVIOUS
  <2> QED  BY <2>1, <2>2, <2>3
<1>4. FirstOf(levels, policy, system)  BY FirstLevelDecides DEF InForce
<1> HIDE DEF system, levels, policy
<1>5. CASE policy = system  BY <1>1, <1>5 DEF policy
<1>6. CASE policy # system
  <2>0. PICK i \in 1..4 : \E row \in levels[i] :
           policy = [strategy |-> row.strategy, config |-> row.config]
    BY <1>4, <1>6 DEF FirstOf
  <2>1. PICK row \in levels[i] : policy = [strategy |-> row.strategy, config |-> row.config]
    BY <2>0
  <2>2. policy.config = row.config  BY <2>1
  <2>3. Configured(policy)  BY <1>3, <2>2 DEF Configured
  <2> QED  BY <2>3 DEF policy
<1> QED  BY <1>5, <1>6

\* While the lookups succeed, the token's own policy for the model, or for any
\* model when it has none for this one, is in force.
LEMMA OwnPolicyWins ==
  ASSUME NEW strategy, NEW row \in Cases!MostSpecific
  PROVE  InForce(query, strategy, {}).config = row.config
<1> DEFINE group == GroupOf(query, strategy)
           levels == Cases!Lookup(Table, query.token, query.model, group, {})
           policy == InForce(query, strategy, {})
           stored == Cases!Stored
<1>1. /\ row \in Table /\ row.token = query.token /\ row.model \in {query.model, Cases!Null}
      /\ \A other \in Table :
            other.token = query.token /\ other.model \in {query.model, Cases!Null}
               /\ other.model # Cases!Null => other = row
  BY DEF Cases!MostSpecific, Cases!Stored
<1>2. /\ levels[1] = {r \in Table : r.token = query.token /\ r.model = query.model}
      /\ levels[2] = {r \in Table : r.token = query.token /\ r.model = Cases!Null}
  BY LevelsAre
<1>3. \A r \in Table : r.token = query.token /\ r.model = row.model => r = row
  BY <1>1, CaseAssumption
<1>4. FirstOf(levels, policy, Cases!SystemPolicy(Fallback, Injected))
  BY FirstLevelDecides DEF InForce
<1> HIDE DEF levels, policy
<1>5. levels[1] \subseteq {row}
  <2> SUFFICES ASSUME NEW r \in levels[1]  PROVE r = row  OBVIOUS
  <2>1. r \in Table /\ r.token = query.token /\ r.model = query.model  BY <1>2
  <2>2. CASE r.model = Cases!Null  BY <1>1, <1>3, <2>1, <2>2
  <2>3. CASE r.model # Cases!Null  BY <1>1, <2>1, <2>3
  <2> QED  BY <2>2, <2>3
<1>6. levels[1] = {} => levels[2] = {row}
  <2> SUFFICES ASSUME levels[1] = {}  PROVE levels[2] = {row}  OBVIOUS
  <2>1. row.model # query.model  BY <1>1, <1>2
  <2>2. row.model = Cases!Null  BY <1>1, <2>1
  <2> QED  BY <1>1, <1>2, <1>3, <2>2
<1>7. PICK i \in 1..4 : \E r \in levels[i] :
         /\ policy = [strategy |-> r.strategy, config |-> r.config]
         /\ \A j \in 1..(i - 1) : levels[j] = {}
  <2>1. 1 \in 1..4 /\ 2 \in 1..4  OBVIOUS
  <2> QED  BY <1>4, <1>5, <1>6, <2>1 DEF FirstOf
<1>8. PICK r \in levels[i] : /\ policy = [strategy |-> r.strategy, config |-> r.config]
                            /\ \A j \in 1..(i - 1) : levels[j] = {}
  BY <1>7
<1>9. r = row
  <2>1. CASE i = 1  BY <1>5, <2>1
  <2>2. CASE i = 2
    <3>1. 1 \in 1..(i - 1)  BY <2>2
    <3> QED  BY <1>6, <1>8, <2>2, <3>1
  <2>3. CASE i # 1 /\ i # 2
    <3>1. 1 \in 1..(i - 1) /\ 2 \in 1..(i - 1)  BY <2>3
    <3> QED  BY <1>6, <1>8, <3>1
  <2> QED  BY <2>1, <2>2, <2>3
<1>10. policy.config = row.config  BY <1>8, <1>9
<1> QED  BY <1>10 DEF policy

-----------------------------------------------------------------------------
(* What a decision promises                                                *)

\* A decision is the order of the candidates under a policy a lookup found.
RoutedBy(d, s, q) ==
    \E strategy \in Strategy :
        /\ d.policy = InForce(q, strategy, d.failed)
        /\ d.order = Cases!Route(s, q, d.policy)

CaseInv ==
    /\ snapshot \in [channels : [CaseChannel -> CaseProfile], prices : CaseOfficial]
    /\ query \in Query
    /\ decision # Cases!None => RoutedBy(decision, snapshot, query)

LEMMA CaseInvHolds == Cases!Spec => []CaseInv
<1>1. Cases!Init => CaseInv  BY DEF Cases!Init, CaseInv
<1>2. ASSUME CaseInv, [Cases!Next]_(Cases!vars)  PROVE CaseInv'
  <2>1. CASE Cases!Decide
    <3>1. snapshot' = snapshot /\ query' = query  BY <2>1 DEF Cases!Decide
    <3>2. PICK failed \in SUBSET {1, 2, 4}, strategy \in Strategy :
             decision' = [policy |-> InForce(query, strategy, failed), failed |-> failed,
                          order |-> Cases!Route(snapshot, query, InForce(query, strategy, failed))]
      BY <2>1 DEF Cases!Decide, InForce, GroupOf
    <3>3. /\ decision'.failed = failed
          /\ decision'.policy = InForce(query, strategy, failed)
          /\ decision'.order = Cases!Route(snapshot, query, InForce(query, strategy, failed))
      BY <3>2
    <3>4. RoutedBy(decision', snapshot, query)  BY <3>3 DEF RoutedBy
    <3>5. RoutedBy(decision', snapshot', query')  BY <3>1, <3>4
    <3> QED  BY <1>2, <3>1, <3>5 DEF CaseInv
  <2>2. CASE UNCHANGED Cases!vars
    <3>1. snapshot' = snapshot /\ query' = query /\ decision' = decision  BY <2>2 DEF Cases!vars
    <3>2. RoutedBy(decision, snapshot, query) => RoutedBy(decision', snapshot', query')  BY <3>1
    <3> QED  BY <1>2, <3>1, <3>2 DEF CaseInv
  <2> QED  BY <1>2, <2>1, <2>2 DEF Cases!Next
<1> QED  BY <1>1, <1>2, PTL DEF Cases!Spec

\* Who stands in a decision's order passed the filter.
LEMMA DecidedAreCandidates ==
  ASSUME CaseInv, decision # Cases!None, NEW i \in DOMAIN decision.order
  PROVE  /\ snapshot.channels[decision.order[i]] \in CaseProfile
         /\ Cases!Exclusion(snapshot.channels[decision.order[i]], query, decision.policy,
                            snapshot.prices) = "none"
         /\ Configured(decision.policy)
<1> DEFINE channels == snapshot.channels
           policy == decision.policy
           prices == snapshot.prices
           ids == Cases!Candidates(channels, query, policy, prices)
<1>1. PICK strategy \in Strategy :
         /\ policy = InForce(query, strategy, decision.failed)
         /\ decision.order = Cases!Route(snapshot, query, policy)
  BY DEF CaseInv, RoutedBy
<1>2. Configured(policy)  BY <1>1, InForceIsConfigured
<1>3. /\ DOMAIN channels = CaseChannel /\ channels \in [CaseChannel -> CaseProfile]
      /\ prices \in CaseOfficial
  BY DEF CaseInv
<1>4. Asked(query) /\ Priced(prices)  BY <1>3, CaseAssumption DEF CaseInv, Asked, Priced
<1>5. \A p \in CaseProfile : Profiled(p)  BY CaseAssumption DEF Profiled
<1>6. IsFiniteSet(CaseChannel) /\ CaseChannel \subseteq Int  BY CaseAssumption
<1>7. decision.order = Cases!SortCandidates(channels, query, policy, prices)
  BY <1>1 DEF Cases!Route
<1>8. \A c \in CaseChannel : Profiled(channels[c])  BY <1>3, <1>5
<1> HIDE DEF channels, policy, prices
<1>9. Cases!SortCandidates(channels, query, policy, prices) \in SetToSeqs(ids)
  BY <1>2, <1>3, <1>4, <1>6, <1>8, CandidatesAreSorted
<1>10. decision.order[i] \in ids
  <2> HIDE DEF ids
  <2> QED  BY <1>7, <1>9 DEF SetToSeqs
<1>11. /\ decision.order[i] \in CaseChannel
       /\ Cases!Exclusion(channels[decision.order[i]], query, policy, prices) = "none"
  BY <1>3, <1>10 DEF Cases!Candidates
<1> QED  BY <1>2, <1>3, <1>11 DEF channels, policy, prices

\* A candidate never looks free (NothingIsFree).
THEOREM UnknownIsNotFree == Cases!Spec => []NothingIsFree
<1>1. CaseInv => Cases!NothingIsFree
  <2> SUFFICES ASSUME CaseInv, decision # Cases!None, query.maxOutput >= 0,
                      NEW i \in DOMAIN decision.order
               PROVE  Cases!Costs[i] > 0
    BY DEF Cases!NothingIsFree
  <2> DEFINE ch == snapshot.channels[decision.order[i]]
  <2>1. ch \in CaseProfile /\ Configured(decision.policy)  BY DecidedAreCandidates
  <2>2. Profiled(ch)  BY <2>1, CaseAssumption DEF Profiled
  <2>3. Asked(query) /\ Priced(snapshot.prices)  BY CaseAssumption DEF CaseInv, Asked, Priced
  <2> HIDE DEF ch
  <2>4. Cases!EstimateCost(ch, query, decision.policy, snapshot.prices) > 0
    BY <2>1, <2>2, <2>3, CostIs
  <2>5. Cases!Costs[i] = Cases!EstimateCost(ch, query, decision.policy, snapshot.prices)
    BY DEF Cases!Costs, ch
  <2> QED  BY <2>4, <2>5
<1>2. Cases!NothingIsFree => NothingIsFree  BY DEF NothingIsFree
<1> QED  BY <1>1, <1>2, CaseInvHolds, PTL

\* While the lookups succeed, a token's own price cap binds whatever group the
\* request names (CapHolds).
THEOREM OwnCapHolds == Cases!Spec => []CapHolds
<1>1. CaseInv => Cases!CapHolds
  <2> SUFFICES ASSUME CaseInv, decision # Cases!None, decision.failed = {},
                      NEW row \in Cases!MostSpecific, NEW i \in DOMAIN decision.order
               PROVE  Cases!Costs[i] <= Cases!Get(row, "max_price_cap", 100)
    BY DEF Cases!CapHolds
  <2> DEFINE ch == snapshot.channels[decision.order[i]]
             policy == decision.policy
             cost == Cases!EstimateCost(ch, query, policy, snapshot.prices)
             cap == Cases!Get(policy, "max_price_cap", 100)
  <2>1. /\ ch \in CaseProfile /\ Configured(policy)
        /\ Cases!Exclusion(ch, query, policy, snapshot.prices) = "none"
    BY DecidedAreCandidates
  <2>2. Profiled(ch)  BY <2>1, CaseAssumption DEF Profiled
  <2>3. Asked(query) /\ Priced(snapshot.prices)  BY CaseAssumption DEF CaseInv, Asked, Priced
  <2>4. PICK strategy \in Strategy : policy = InForce(query, strategy, {})
    BY DEF CaseInv, RoutedBy
  <2>5. policy.config = row.config  BY <2>4, OwnPolicyWins
  <2>6. cap = Cases!Get(row, "max_price_cap", 100)
    <3> HIDE DEF policy
    <3> QED  BY <2>5 DEF Cases!Get
  <2> HIDE DEF ch, policy
  <2>7. cost \in Int /\ cap \in Nat  BY <2>1, <2>2, <2>3, CostIs, GetIs
  <2>8. ~(cost > cap)  BY <2>1 DEF Cases!Exclusion
  <2>9. Cases!Costs[i] = cost  BY DEF Cases!Costs, ch, policy
  <2> HIDE DEF cost, cap
  <2>10. cost <= cap  BY <2>7, <2>8
  <2> QED  BY <2>6, <2>9, <2>10 DEF cap
<1>2. Cases!CapHolds => CapHolds  BY DEF CapHolds
<1> QED  BY <1>1, <1>2, CaseInvHolds, PTL
=============================================================================
