-------------------------- MODULE ProbeBudgetProofs --------------------------
(***************************************************************************)
(* Theorems about paid probes, for any finite number of them in both       *)
(* processes, any channels, budgets, charges and days: a probe measures    *)
(* only what it was charged itself; the ledger covers what the probes of   *)
(* its day were charged; and together they keep within the budgets.        *)
(*                                                                         *)
(* The ledger is about sums over sets of probes and channels.  The second  *)
(* part proves what is needed of SumFunction; the third gives every probe  *)
(* a claim on the ledger and a part of the budget, and shows that no step  *)
(* lets the sum of the claims exceed the ledger, or the parts the budget.  *)
(***************************************************************************)
EXTENDS ProbeBudget, FiniteSetTheorems, WellFoundedInduction, TLAPS

ProbeFields == {"at", "manual", "channel", "wanted", "seeds", "held", "day", "charged", "cost",
                "stage", "settled", "moved", "lost"}

\* From the lock to the return of probeOne.
Holding == {"before", "chat", "after", "failure", "success"}
Unspent == {"idle", "gate", "reserve", "connect", "lock", "before"}

\* What a probe has measured so far: nothing before its request, then the
\* charge, unless something else moved the balance.
Honest(r) ==
    /\ DOMAIN r = ProbeFields
    /\ r.channel \in Channels
    /\ r.at \notin {"settle", "done"} => r.stage # "ok"
    /\ r.at \in Unspent \/ (r.at = "chat" /\ ~r.moved) => r.cost = 0
    /\ ~r.moved /\ (r.at \in {"after", "success"} \/ r.stage = "ok") => r.cost = r.charged

\* A probe that measures is the only one that holds its channel's lock.
MeasureInv ==
    /\ probe = [p \in Probes |-> probe[p]]
    /\ \A p \in Probes : Honest(probe[p])
    /\ lock = [c \in Channels |-> lock[c]]
    /\ \A p \in Probes : probe[p].at \in Holding => lock[Chan(p)] = {p}

\* Two probes of a channel never measure at the same time.
LEMMA AloneOnChannel ==
  ASSUME MeasureInv, NEW p \in Probes, NEW q \in Probes, Chan(p) = Chan(q),
         probe[p].at \in Holding, probe[q].at \in Holding
  PROVE  p = q
BY DEF MeasureInv

\* A step of one probe that leaves the locks of the others alone.
LEMMA OneMoves ==
  ASSUME MeasureInv, NEW p \in Probes, NEW r, Honest(r), r.channel = Chan(p),
         probe' = [probe EXCEPT ![p] = r],
         lock' = [c \in Channels |-> lock'[c]],
         \A c \in Channels : c # Chan(p) => lock'[c] = lock[c],
         r.at \in Holding => lock'[Chan(p)] = {p},
         \A q \in Probes : q # p /\ lock[Chan(p)] = {q} => lock'[Chan(p)] = {q}
  PROVE  MeasureInv'
<1>1. /\ probe' = [q \in Probes |-> probe'[q]]
      /\ probe'[p] = r /\ \A q \in Probes \ {p} : probe'[q] = probe[q]
  BY DEF MeasureInv
<1>2. \A q \in Probes : Honest(probe'[q])  BY <1>1 DEF MeasureInv
<1>3. \A q \in Probes : Chan(q)' = Chan(q) /\ Chan(q) \in Channels
  BY <1>1 DEF Chan, MeasureInv, Honest
<1>4. \A q \in Probes : probe'[q].at \in Holding => lock'[Chan(q)] = {q}
  <2> SUFFICES ASSUME NEW q \in Probes, probe'[q].at \in Holding  PROVE lock'[Chan(q)] = {q}
    OBVIOUS
  <2>1. CASE q = p  BY <1>1, <2>1
  <2>2. CASE q # p
    <3>1. lock[Chan(q)] = {q}  BY <1>1, <2>2 DEF MeasureInv
    <3> QED  BY <1>3, <2>2, <3>1
  <2> QED  BY <2>1, <2>2
<1> QED  BY <1>1, <1>2, <1>3, <1>4 DEF MeasureInv

LEMMA PlaceMoves ==
  ASSUME MeasureInv, NEW p \in Probes, NEW r, Honest(r), r.channel = Chan(p),
         probe' = [probe EXCEPT ![p] = r], lock' = lock,
         r.at \in Holding => probe[p].at \in Holding
  PROVE  MeasureInv'
BY OneMoves DEF MeasureInv

LEMMA ReturnKeeps ==
  ASSUME MeasureInv, NEW p \in Probes, NEW r, Honest(r), r.channel = Chan(p), r.at = "settle",
         probe' = [probe EXCEPT ![p] = r], Unlock(p)
  PROVE  MeasureInv'
<1>1. /\ lock' = [lock EXCEPT ![Chan(p)] = @ \ {p}] /\ lock = [c \in Channels |-> lock[c]]
      /\ Chan(p) \in Channels
  BY DEF Unlock, MeasureInv, Chan, Honest
<1>2. /\ lock' = [c \in Channels |-> lock'[c]] /\ lock'[Chan(p)] = lock[Chan(p)] \ {p}
      /\ \A c \in Channels : c # Chan(p) => lock'[c] = lock[c]
  BY <1>1
<1>3. \A q \in Probes : q # p /\ lock[Chan(p)] = {q} => lock'[Chan(p)] = {q}
  BY <1>2
<1> QED  BY <1>2, <1>3, OneMoves DEF Holding

-----------------------------------------------------------------------------
(* The steps of a probe                                                    *)

\* The probe goes on to a place; what it has measured stays.
Follows(r, old, place) ==
    /\ DOMAIN r = ProbeFields /\ r.at = place
    /\ r.channel = old.channel /\ r.stage = old.stage /\ r.moved = old.moved
    /\ r.cost = old.cost /\ r.charged = old.charged

LEMMA FollowKeeps ==
  ASSUME MeasureInv, NEW p \in Probes, NEW place, NEW r, Follows(r, probe[p], place),
         probe' = [probe EXCEPT ![p] = r], lock' = lock,
         \/ probe[p].at \in Unspent /\ place \in {"gate", "reserve", "connect", "lock", "settle", "done"}
         \/ probe[p].at = "settle" /\ place = "done"
  PROVE  MeasureInv'
<1>1. Honest(probe[p]) /\ r.channel = Chan(p)  BY DEF MeasureInv, Chan, Follows
<1>2. Honest(r) /\ r.at \notin Holding  BY <1>1 DEF Honest, Unspent, Holding, Follows
<1> QED  BY <1>1, <1>2, PlaceMoves

LEMMA BeforeKeeps ==
  ASSUME MeasureInv, NEW p \in Probes,
         \/ Skip(p) \/ ReadFirst(p) \/ ReadSecond(p) \/ Reserve(p)
         \/ Connect(p) \/ LockFails(p) \/ Adjust(p)
  PROVE  MeasureInv'
<1> DEFINE old == probe[p]
<1>1. DOMAIN old = ProbeFields  BY DEF MeasureInv, Honest
<1>2. lock' = lock
  BY DEF Skip, ReadFirst, ReadSecond, Reserve, Connect, LockFails, Adjust, dbVars
<1>3. ASSUME NotBegun(p), old.at \in Unspent  PROVE MeasureInv'
  <2> DEFINE r == [old EXCEPT !.at = "done", !.wanted = 0, !.seeds = NoSeeds]
  <2>1. probe' = [probe EXCEPT ![p] = r]  BY <1>3 DEF NotBegun, Becomes
  <2>2. Follows(r, old, "done")  BY <1>1 DEF ProbeFields, Follows
  <2> HIDE DEF r
  <2> QED  BY <1>2, <1>3, <2>1, <2>2, FollowKeeps
<1>4. CASE Skip(p)  BY <1>3, <1>4 DEF Skip, Unspent
<1>10. CASE ReadFirst(p)
  <2>1. PICK seeds : probe' = [probe EXCEPT ![p] = [old EXCEPT !.at = "gate", !.seeds = seeds]]
    BY <1>10 DEF ReadFirst, Becomes
  <2> DEFINE r == [old EXCEPT !.at = "gate", !.seeds = seeds]
  <2>2. old.at \in Unspent  BY <1>10 DEF ReadFirst, Unspent
  <2>3. Follows(r, old, "gate")  BY <1>1 DEF ProbeFields, Follows
  <2>4. probe' = [probe EXCEPT ![p] = r]  BY <2>1
  <2> HIDE DEF r
  <2> QED  BY <1>2, <2>2, <2>3, <2>4, FollowKeeps
<1>5. CASE ReadSecond(p)
  <2>1. PICK seeds, wanted :
           probe' = [probe EXCEPT ![p] = [old EXCEPT !.at = "reserve", !.seeds = seeds, !.wanted = wanted]]
    BY <1>5 DEF ReadSecond, Becomes
  <2> DEFINE r == [old EXCEPT !.at = "reserve", !.seeds = seeds, !.wanted = wanted]
  <2>2. old.at \in Unspent  BY <1>5 DEF ReadSecond, Unspent
  <2>3. Follows(r, old, "reserve")  BY <1>1 DEF ProbeFields, Follows
  <2>4. probe' = [probe EXCEPT ![p] = r]  BY <2>1
  <2> HIDE DEF r
  <2> QED  BY <1>2, <2>2, <2>3, <2>4, FollowKeeps
<1>6. CASE Reserve(p)
  <2> DEFINE r == [old EXCEPT !.at = "connect", !.seeds = NoSeeds, !.wanted = 0,
                              !.held = old.wanted, !.day = today]
  <2>1. old.at \in Unspent  BY <1>6 DEF Reserve, Unspent
  <2>2. NotBegun(p) \/ probe' = [probe EXCEPT ![p] = r]  BY <1>6 DEF Reserve, Becomes
  <2>3. Follows(r, old, "connect")  BY <1>1 DEF ProbeFields, Follows
  <2> HIDE DEF r
  <2> QED  BY <1>2, <1>3, <2>1, <2>2, <2>3, FollowKeeps
<1>7. ASSUME NEW place, Goes(p, place),
             \/ old.at \in Unspent /\ place \in {"lock", "settle"}
             \/ old.at = "settle" /\ place = "done"
      PROVE  MeasureInv'
  <2> DEFINE r == [old EXCEPT !.at = place]
  <2>1. probe' = [probe EXCEPT ![p] = r]  BY <1>7 DEF Goes, Becomes
  <2>2. Follows(r, old, place)  BY <1>1 DEF ProbeFields, Follows
  <2> HIDE DEF r
  <2> QED  BY <1>2, <1>7, <2>1, <2>2, FollowKeeps
<1>8. CASE Connect(p) \/ LockFails(p)
  <2>1. old.at \in Unspent  BY <1>8 DEF Connect, LockFails, Unspent
  <2> QED  BY <1>7, <1>8, <2>1 DEF Connect, LockFails
<1>9. CASE Adjust(p)
  <2> DEFINE r == [old EXCEPT !.at = "done", !.settled = TRUE]
  <2>1. old.at = "settle"  BY <1>9 DEF Adjust
  <2>2. Goes(p, "done") \/ probe' = [probe EXCEPT ![p] = r]  BY <1>9 DEF Adjust, Becomes
  <2>3. Follows(r, old, "done")  BY <1>1 DEF ProbeFields, Follows
  <2> HIDE DEF r
  <2> QED  BY <1>2, <1>7, <2>1, <2>2, <2>3, FollowKeeps
<1> QED  BY <1>4, <1>5, <1>6, <1>8, <1>9, <1>10

\* The lock is taken when nobody has it.
LEMMA LockKeeps ==
  ASSUME MeasureInv, NEW p \in Probes, Lock(p)
  PROVE  MeasureInv'
<1> DEFINE r == [probe[p] EXCEPT !.at = "before"]
<1>1. /\ probe[p].at = "lock" /\ lock[Chan(p)] = {} /\ lock' = [lock EXCEPT ![Chan(p)] = {p}]
      /\ probe' = [probe EXCEPT ![p] = r]
  BY DEF Lock, Goes, Becomes
<1>2. Honest(probe[p]) /\ Chan(p) \in Channels /\ lock = [c \in Channels |-> lock[c]]
  BY DEF MeasureInv, Honest, Chan
<1>3. Follows(r, probe[p], "before")  BY <1>2 DEF Honest, ProbeFields, Follows
<1> HIDE DEF r
<1>4. Honest(r) /\ r.channel = Chan(p)
  BY <1>1, <1>2, <1>3 DEF Honest, Follows, Unspent, Chan
<1>5. /\ lock' = [c \in Channels |-> lock'[c]] /\ lock'[Chan(p)] = {p}
      /\ \A c \in Channels : c # Chan(p) => lock'[c] = lock[c]
  BY <1>1, <1>2
<1>6. \A q : lock[Chan(p)] # {q}  BY <1>1
<1> QED  BY <1>1, <1>4, <1>5, <1>6, OneMoves

\* Readings of the balance leave what is measured alone; a failure ends the probe.
LEMMA ReadingKeeps ==
  ASSUME MeasureInv, NEW p \in Probes, BalanceBefore(p) \/ BalanceAfter(p)
  PROVE  MeasureInv'
<1> DEFINE old == probe[p]
<1>1. Honest(old) /\ old.channel = Chan(p)  BY DEF MeasureInv, Chan
<1>2. ASSUME NEW place, Goes(p, place), lock' = lock,
             \/ old.at = "before" /\ place = "chat"
             \/ old.at = "after" /\ place = "success"
      PROVE  MeasureInv'
  <2> DEFINE r == [old EXCEPT !.at = place]
  <2>1. probe' = [probe EXCEPT ![p] = r]  BY <1>2 DEF Goes, Becomes
  <2>2. Follows(r, old, place)  BY <1>1 DEF Honest, ProbeFields, Follows
  <2> HIDE DEF r
  <2>3. Honest(r) /\ r.channel = Chan(p)  BY <1>1, <1>2, <2>2 DEF Honest, Follows, Unspent
  <2>4. old.at \in Holding  BY <1>2 DEF Holding
  <2> QED  BY <1>2, <2>1, <2>3, <2>4, PlaceMoves
<1>3. CASE BalanceBefore(p)
  <2> DEFINE r == [[old EXCEPT !.stage = "balance_before"] EXCEPT !.at = "settle"]
  <2>1. old.at = "before"  BY <1>3 DEF BalanceBefore
  <2>2. (Goes(p, "chat") /\ lock' = lock) \/ (probe' = [probe EXCEPT ![p] = r] /\ Unlock(p))
    BY <1>3 DEF BalanceBefore, Returns, Becomes
  <2>3. /\ DOMAIN r = ProbeFields /\ r.at = "settle" /\ r.stage = "balance_before"
        /\ r.channel = old.channel
    BY <1>1 DEF Honest, ProbeFields
  <2> HIDE DEF r
  <2>4. Honest(r)  BY <1>1, <2>3 DEF Honest, Unspent
  <2> QED  BY <1>1, <1>2, <2>1, <2>2, <2>3, <2>4, ReturnKeeps
<1>4. CASE BalanceAfter(p)
  <2> DEFINE r == [old EXCEPT !.at = "failure", !.stage = "balance_after"]
  <2>1. old.at = "after" /\ lock' = lock  BY <1>4 DEF BalanceAfter, dbVars
  <2>2. Goes(p, "success") \/ probe' = [probe EXCEPT ![p] = r]
    BY <1>4 DEF BalanceAfter, Becomes
  <2>3. /\ DOMAIN r = ProbeFields /\ r.at = "failure" /\ r.stage = "balance_after"
        /\ r.channel = old.channel
    BY <1>1 DEF Honest, ProbeFields
  <2> HIDE DEF r
  <2>4. Honest(r) /\ r.channel = Chan(p) /\ old.at \in Holding
    BY <1>1, <2>1, <2>3 DEF Honest, Unspent, Holding
  <2> QED  BY <1>2, <2>1, <2>2, <2>4, PlaceMoves
<1> QED  BY <1>3, <1>4

\* The row is written, or is not; then the lock is given back.
LEMMA RecordKeeps ==
  ASSUME MeasureInv, NEW p \in Probes, RecordProbeFailure(p) \/ RecordSuccess(p)
  PROVE  MeasureInv'
<1> DEFINE old == probe[p]
<1>1. Honest(old) /\ old.channel = Chan(p)  BY DEF MeasureInv, Chan
<1>2. CASE RecordProbeFailure(p)
  <2> DEFINE r == [old EXCEPT !.at = "settle"]
  <2>1. old.at = "failure" /\ probe' = [probe EXCEPT ![p] = r] /\ Unlock(p)
    BY <1>2 DEF RecordProbeFailure, Returns, Becomes
  <2>2. Follows(r, old, "settle")  BY <1>1 DEF Honest, ProbeFields, Follows
  <2> HIDE DEF r
  <2>3. Honest(r) /\ r.channel = Chan(p) /\ r.at = "settle"
    BY <1>1, <2>1, <2>2 DEF Honest, Follows, Unspent
  <2> QED  BY <2>1, <2>3, ReturnKeeps
<1>3. ASSUME NEW stage \in {"ok", "balance_after"}, RecordSuccess(p),
             Returns(p, [old EXCEPT !.stage = stage])
      PROVE  MeasureInv'
  <2> DEFINE r == [[old EXCEPT !.stage = stage] EXCEPT !.at = "settle"]
  <2>1. old.at = "success" /\ probe' = [probe EXCEPT ![p] = r] /\ Unlock(p)
    BY <1>3 DEF RecordSuccess, Returns, Becomes
  <2>2. /\ DOMAIN r = ProbeFields /\ r.at = "settle" /\ r.stage = stage /\ r.channel = old.channel
        /\ r.moved = old.moved /\ r.cost = old.cost /\ r.charged = old.charged
    BY <1>1 DEF Honest, ProbeFields
  <2> HIDE DEF r
  <2>3. Honest(r)  BY <1>1, <2>1, <2>2 DEF Honest, Unspent
  <2> QED  BY <1>1, <2>1, <2>2, <2>3, ReturnKeeps
<1> QED  BY <1>2, <1>3 DEF RecordSuccess

-----------------------------------------------------------------------------
(* Steps of several probes at once                                         *)

LEMMA AllMove ==
  ASSUME MeasureInv, probe' = [p \in Probes |-> probe'[p]], lock' = [c \in Channels |-> lock'[c]],
         \A p \in Probes :
            /\ Honest(probe'[p]) /\ probe'[p].channel = Chan(p)
            /\ probe'[p].at \in Holding =>
                  probe[p].at \in Holding /\ (lock[Chan(p)] = {p} => lock'[Chan(p)] = {p})
  PROVE  MeasureInv'
BY DEF MeasureInv, Chan

\* The balance of a channel falls only under the probe that spends.
LEMMA FallsAlone ==
  ASSUME MeasureInv, NEW p \in Probes, probe[p].at = "chat", NEW amount
  PROVE  /\ Fallen(Chan(p), amount) = [q \in Probes |-> Fallen(Chan(p), amount)[q]]
         /\ Fallen(Chan(p), amount)[p] = [probe[p] EXCEPT !.cost = @ + amount]
         /\ \A q \in Probes \ {p} : Fallen(Chan(p), amount)[q] = probe[q]
<1>1. \A q \in Probes \ {p} : ~(Chan(q) = Chan(p) /\ probe[q].at \in {"chat", "after"})
  BY AloneOnChannel DEF Holding
<1> QED  BY <1>1 DEF Fallen

LEMMA ChatChanges ==
  ASSUME MeasureInv, NEW p \in Probes, Chat(p)
  PROVE  \E charge \in Charges : \E r :
            /\ \/ r = [[probe[p] EXCEPT !.cost = @ + charge] EXCEPT !.at = "after", !.charged = charge]
               \/ r = [[probe[p] EXCEPT !.cost = @ + charge] EXCEPT !.at = "failure",
                                          !.charged = charge, !.stage = "chat"]
            /\ probe' = [probe EXCEPT ![p] = r]
<1> DEFINE fallen(charge) == [probe[p] EXCEPT !.cost = @ + charge]
           good(charge) == [fallen(charge) EXCEPT !.at = "after", !.charged = charge]
           bad(charge) == [fallen(charge) EXCEPT !.at = "failure", !.charged = charge, !.stage = "chat"]
<1>1. PICK charge \in Charges :
         \/ probe' = [Fallen(Chan(p), charge) EXCEPT ![p] = [@ EXCEPT !.at = "after", !.charged = charge]]
         \/ probe' = [Fallen(Chan(p), charge) EXCEPT ![p] =
                         [@ EXCEPT !.at = "failure", !.charged = charge, !.stage = "chat"]]
  BY DEF Chat
<1> DEFINE all == Fallen(Chan(p), charge)
<1>2. /\ all = [q \in Probes |-> all[q]] /\ \A q \in Probes \ {p} : all[q] = probe[q]
      /\ all[p] = fallen(charge)
  BY FallsAlone DEF Chat
<1>3. PICK r : /\ r = good(charge) \/ r = bad(charge)
               /\ probe' = [all EXCEPT ![p] = r]
  BY <1>1, <1>2
<1>4. probe = [q \in Probes |-> probe[q]]  BY DEF MeasureInv
<1>5. probe' = [probe EXCEPT ![p] = r]
  <2> HIDE DEF all
  <2> QED  BY <1>2, <1>3, <1>4
<1> QED  BY <1>3, <1>5

LEMMA ChatKeeps ==
  ASSUME MeasureInv, NEW p \in Probes, Chat(p)
  PROVE  MeasureInv'
<1> DEFINE old == probe[p]
<1>1. Honest(old) /\ old.channel = Chan(p) /\ old.at = "chat"  BY DEF MeasureInv, Chan, Chat
<1>2. PICK charge \in Charges : \E r :
         /\ \/ r = [[probe[p] EXCEPT !.cost = @ + charge] EXCEPT !.at = "after", !.charged = charge]
            \/ r = [[probe[p] EXCEPT !.cost = @ + charge] EXCEPT !.at = "failure",
                                       !.charged = charge, !.stage = "chat"]
         /\ probe' = [probe EXCEPT ![p] = r]
  BY ChatChanges
<1>3. charge \in Nat /\ 0 + charge = charge  BY BudgetAssumption
<1> DEFINE cost == old.cost + charge
           fallen == [old EXCEPT !.cost = cost]
           good == [fallen EXCEPT !.at = "after", !.charged = charge]
           bad == [fallen EXCEPT !.at = "failure", !.charged = charge, !.stage = "chat"]
<1>4. PICK r \in {good, bad} : probe' = [probe EXCEPT ![p] = r]  BY <1>2
<1>5. ~old.moved => cost = charge  BY <1>1, <1>3 DEF Honest
<1> HIDE DEF cost
<1>6. /\ DOMAIN good = ProbeFields /\ good.at = "after" /\ good.charged = charge /\ good.cost = cost
      /\ good.channel = old.channel /\ good.stage = old.stage /\ good.moved = old.moved
  BY <1>1 DEF Honest, ProbeFields
<1>7. /\ DOMAIN bad = ProbeFields /\ bad.at = "failure" /\ bad.stage = "chat"
      /\ bad.channel = old.channel
  BY <1>1 DEF Honest, ProbeFields
<1> HIDE DEF good, bad
<1>8. Honest(good)  BY <1>1, <1>5, <1>6 DEF Honest, Unspent
<1>9. Honest(bad)  BY <1>1, <1>7 DEF Honest, Unspent
<1>10. Honest(r) /\ r.channel = Chan(p)  BY <1>1, <1>6, <1>7, <1>8, <1>9
<1>11. lock' = lock /\ old.at \in Holding  BY <1>1 DEF Chat, dbVars, Holding
<1> QED  BY <1>4, <1>10, <1>11, PlaceMoves

\* Locks go with the process that dies.
LEMMA CrashKeeps ==
  ASSUME MeasureInv, NEW S \in SUBSET Probes, Crash(S)
  PROVE  MeasureInv'
<1>1. /\ probe' = [p \in Probes |-> IF p \in S \cap InFlight THEN [probe[p] EXCEPT !.at = "done"]
                                    ELSE probe[p]]
      /\ lock' = [c \in Channels |-> lock[c] \ S]
  BY DEF Crash
<1>2. ASSUME NEW p \in Probes
      PROVE  /\ Honest(probe'[p]) /\ probe'[p].channel = Chan(p)
             /\ probe'[p].at \in Holding =>
                   probe[p].at \in Holding /\ (lock[Chan(p)] = {p} => lock'[Chan(p)] = {p})
  <2>1. Honest(probe[p]) /\ Chan(p) \in Channels /\ Chan(p) = probe[p].channel
    BY DEF MeasureInv, Honest, Chan
  <2>2. CASE p \in S \cap InFlight
    <3> DEFINE r == [probe[p] EXCEPT !.at = "done"]
    <3>1. probe'[p] = r /\ probe[p].at \notin {"idle", "done"}  BY <1>1, <2>2 DEF InFlight
    <3>2. Follows(r, probe[p], "done")  BY <2>1 DEF Honest, ProbeFields, Follows
    <3> HIDE DEF r
    <3>3. Honest(r)  BY <2>1, <3>2 DEF Honest, Follows, Unspent
    <3> QED  BY <2>1, <3>1, <3>2, <3>3 DEF Follows, Holding
  <2>3. CASE p \notin S \cap InFlight
    <3>1. probe'[p] = probe[p]  BY <1>1, <2>3
    <3>2. probe[p].at \in Holding => p \notin S  BY <2>3 DEF InFlight, Holding
    <3> QED  BY <1>1, <2>1, <3>1, <3>2
  <2> QED  BY <2>2, <2>3
<1> QED  BY <1>1, <1>2, AllMove

LEMMA LoseKeysKeeps ==
  ASSUME MeasureInv, LoseKeys
  PROVE  MeasureInv'
<1>1. /\ probe' = [p \in Probes |-> [probe[p] EXCEPT !.lost = @ \/ (probe[p].held > 0 /\ ~Audited(p))]]
      /\ lock' = lock
  BY DEF LoseKeys, dbVars
<1>2. ASSUME NEW p \in Probes
      PROVE  Honest(probe'[p]) /\ probe'[p].channel = Chan(p) /\ probe'[p].at = probe[p].at
  <2>1. Honest(probe[p]) /\ Chan(p) = probe[p].channel  BY DEF MeasureInv, Chan
  <2>2. Follows(probe'[p], probe[p], probe[p].at)  BY <1>1, <2>1 DEF Honest, ProbeFields, Follows
  <2> QED  BY <2>1, <2>2 DEF Honest, Follows
<1>3. probe' = [p \in Probes |-> probe'[p]] /\ lock' = [c \in Channels |-> lock'[c]]
  BY <1>1 DEF MeasureInv
<1> QED  BY <1>1, <1>2, <1>3, AllMove

\* What other movements change is marked, so nothing is claimed of its cost.
LEMMA MovesKeeps ==
  ASSUME MeasureInv, NEW c \in Channels, NEW amount, Moves(c, amount)
  PROVE  MeasureInv'
<1>1. /\ probe' = [p \in Probes |->
                      IF Fallen(c, amount)[p] = probe[p] THEN probe[p]
                      ELSE [Fallen(c, amount)[p] EXCEPT !.moved = TRUE]]
      /\ lock' = lock
  BY DEF Moves, dbVars
<1>2. ASSUME NEW p \in Probes
      PROVE  Honest(probe'[p]) /\ probe'[p].channel = Chan(p) /\ probe'[p].at = probe[p].at
  <2>1. Honest(probe[p]) /\ Chan(p) = probe[p].channel  BY DEF MeasureInv, Chan
  <2>2. CASE probe'[p] = probe[p]  BY <2>1, <2>2
  <2>3. CASE probe'[p] # probe[p]
    <3> DEFINE cost == probe[p].cost + amount
               r == [[probe[p] EXCEPT !.cost = cost] EXCEPT !.moved = TRUE]
    <3>1. probe'[p] = r /\ probe[p].at \in {"chat", "after"}  BY <1>1, <2>3 DEF Fallen
    <3> HIDE DEF cost
    <3>2. /\ DOMAIN r = ProbeFields /\ r.at = probe[p].at /\ r.channel = probe[p].channel
          /\ r.stage = probe[p].stage /\ r.moved
      BY <2>1 DEF Honest, ProbeFields
    <3> HIDE DEF r
    <3>3. Honest(r)  BY <2>1, <3>1, <3>2 DEF Honest, Unspent
    <3> QED  BY <2>1, <3>1, <3>2, <3>3
  <2> QED  BY <2>2, <2>3
<1>3. probe' = [p \in Probes |-> probe'[p]] /\ lock' = [d \in Channels |-> lock'[d]]
  BY <1>1 DEF MeasureInv
<1> QED  BY <1>1, <1>2, <1>3, AllMove

-----------------------------------------------------------------------------
LEMMA MeasureInvStep == MeasureInv /\ [Next]_vars => MeasureInv'
<1> SUFFICES ASSUME MeasureInv, [Next]_vars  PROVE MeasureInv'  OBVIOUS
<1>1. ASSUME NEW p \in Probes, Step(p)  PROVE MeasureInv'
  BY <1>1, BeforeKeeps, LockKeeps, ReadingKeeps, ChatKeeps, RecordKeeps DEF Step
<1>2. CASE Crash(Manual) \/ Crash(Probes \ Manual)
  <2>1. Manual \in SUBSET Probes /\ Probes \ Manual \in SUBSET Probes  BY DEF Manual
  <2> QED  BY <1>2, <2>1, CrashKeeps
<1>3. CASE LoseKeys  BY <1>3, LoseKeysKeeps
<1>4. ASSUME NEW c \in Channels, Moves(c, 1) \/ Moves(c, -2)  PROVE MeasureInv'
  BY <1>4, MovesKeeps
<1>5. CASE UNCHANGED <<probe, lock>>  BY <1>5 DEF MeasureInv, Chan
<1>6. NextTick \/ NextDay \/ UNCHANGED vars => UNCHANGED <<probe, lock>>
  BY DEF NextTick, NextDay, dbVars, vars
<1> QED  BY <1>1, <1>2, <1>3, <1>4, <1>5, <1>6 DEF Next

LEMMA MeasureInvInitially == Init => MeasureInv
<1> SUFFICES ASSUME Init  PROVE MeasureInv  OBVIOUS
<1>1. probe = [p \in Probes |-> probe[p]]  BY DEF Init
<1>2. ASSUME NEW p \in Probes  PROVE Honest(probe[p]) /\ probe[p].at = "idle"
  BY DEF Init, Honest, ProbeFields, Unspent
<1> QED  BY <1>1, <1>2 DEF Init, MeasureInv, Holding

\* The cost of a successful probe is what the upstream charged it, whatever the
\* other probes of both processes do: the advisory lock of the channel is held
\* from the first reading of the balance to the last (probe.go 440-449, 501-566).
THEOREM MeasuresOwnCharge == Spec => []MeasuresItsOwn
<1>1. MeasureInv => MeasuresItsOwn
  BY DEF MeasureInv, MeasuresItsOwn, Measured, Honest, Charged
<1> QED  BY <1>1, MeasureInvInitially, MeasureInvStep, PTL DEF Spec

-----------------------------------------------------------------------------
(* Sums.  The library's induction theorems take an operator, which no      *)
(* prover here can instantiate: induction over the natural numbers is      *)
(* stated for a set of them, by its least counterexample.                  *)

LEMMA SetOfNaturals ==
  ASSUME NEW B, 0 \in B, \A n \in Nat : n \in B => n + 1 \in B
  PROVE  \A n \in Nat : n \in B
<1> DEFINE T == Nat \ B
<1> SUFFICES ASSUME T # {}  PROVE FALSE  OBVIOUS
<1>1. \E n \in T : \A m \in T : ~(<<m, n>> \in OpToRel(<, Nat))
  <2>1. T \subseteq Nat  OBVIOUS
  <2> HIDE DEF T
  <2> QED  BY <2>1, NatLessThanWellFounded, WFMin
<1>2. PICK n \in T : \A m \in T : ~(<<m, n>> \in OpToRel(<, Nat))  BY <1>1
<1>3. n \in Nat /\ n # 0 /\ n - 1 \in Nat /\ n - 1 < n /\ (n - 1) + 1 = n  OBVIOUS
<1>4. <<n - 1, n>> \in OpToRel(<, Nat)  BY <1>3 DEF OpToRel
<1>5. n - 1 \in T  BY <1>3
<1> QED  BY <1>2, <1>4, <1>5

Pick(s) == CHOOSE x \in s : TRUE

LEMMA PickIn == ASSUME NEW s, s # {}  PROVE Pick(s) \in s
BY DEF Pick

LEMMA OneLess ==
  ASSUME NEW D, IsFiniteSet(D), NEW n \in Nat, NEW s \in SUBSET D, Cardinality(s) = n + 1
  PROVE  /\ s # {} /\ s \ {Pick(s)} \in SUBSET D /\ Pick(s) \in s
         /\ \A x \in s : s \ {x} \in SUBSET D /\ Cardinality(s \ {x}) = n
<1>1. IsFiniteSet(s)  BY FS_Subset
<1>2. n + 1 # 0 /\ (n + 1) - 1 = n  OBVIOUS
<1>3. s # {}  BY <1>2, FS_EmptySet
<1>4. \A x \in s : Cardinality(s \ {x}) = Cardinality(s) - 1  BY <1>1, FS_RemoveElement
<1>5. Pick(s) \in s  BY <1>3, PickIn
<1> QED  BY <1>2, <1>3, <1>4, <1>5

\* A family of subsets of D that has every set one larger than its members.
LEMMA SetOfSets ==
  ASSUME NEW D, IsFiniteSet(D), NEW B, {} \in B,
         \A s \in SUBSET D : \A x \in D \ s : s \in B => s \cup {x} \in B
  PROVE  \A s \in SUBSET D : s \in B
<1> DEFINE N == {n \in Nat : \A s \in SUBSET D : Cardinality(s) = n => s \in B}
<1>0. \A s \in SUBSET D : IsFiniteSet(s) /\ Cardinality(s) \in Nat
  BY FS_Subset, FS_CardinalityType
<1>1. 0 \in N  BY <1>0, FS_EmptySet
<1>2. ASSUME NEW n \in Nat, n \in N  PROVE n + 1 \in N
  <2> SUFFICES ASSUME NEW s \in SUBSET D, Cardinality(s) = n + 1  PROVE s \in B
    BY <1>2
  <2>1. s # {} /\ \A x \in s : Cardinality(s \ {x}) = n  BY OneLess
  <2>2. PICK x \in s : TRUE  BY <2>1
  <2>3. Cardinality(s \ {x}) = n  BY <2>1
  <2>4. s \ {x} \in SUBSET D /\ x \in D \ (s \ {x}) /\ (s \ {x}) \cup {x} = s  BY <2>2
  <2>5. s \ {x} \in B  BY <1>2, <2>3, <2>4
  <2> QED  BY <2>4, <2>5
<1> HIDE DEF N
<1>3. \A n \in Nat : n \in N  BY <1>1, <1>2, SetOfNaturals
<1> QED  BY <1>0, <1>3 DEF N

\* The recursion of SumFunction, over a family of sets.
Sums(f, F, g) == g = [s \in F |-> IF s = {} THEN 0 ELSE f[Pick(s)] + g[s \ {Pick(s)}]]

LEMMA SumsExist ==
  ASSUME NEW f, NEW D, IsFiniteSet(D)
  PROVE  \E g : Sums(f, SUBSET D, g)
<1> DEFINE Small(n) == {s \in SUBSET D : Cardinality(s) <= n}
           N == {n \in Nat : \E g : Sums(f, Small(n), g)}
<1>0. \A s \in SUBSET D : IsFiniteSet(s) /\ Cardinality(s) \in Nat /\ Cardinality(s) <= Cardinality(D)
  BY FS_Subset, FS_CardinalityType
<1>1. 0 \in N
  <2> DEFINE g == [s \in Small(0) |-> 0]
  <2>1. \A s \in Small(0) : s = {}  BY <1>0, FS_EmptySet
  <2>2. Sums(f, Small(0), g)  BY <2>1 DEF Sums
  <2> QED  BY <2>2
<1>2. ASSUME NEW n \in Nat, n \in N  PROVE n + 1 \in N
  <2>1. PICK g : Sums(f, Small(n), g)  BY <1>2
  <2> DEFINE h == [s \in Small(n + 1) |-> IF s = {} THEN 0 ELSE f[Pick(s)] + g[s \ {Pick(s)}]]
  <2>2. ASSUME NEW s \in Small(n + 1), s # {}
        PROVE  s \ {Pick(s)} \in Small(n) /\ s \ {Pick(s)} \in Small(n + 1)
    <3>1. Pick(s) \in s  BY <2>2, PickIn
    <3>2. Cardinality(s \ {Pick(s)}) = Cardinality(s) - 1  BY <1>0, <3>1, FS_RemoveElement
    <3> QED  BY <1>0, <3>2
  <2>3. \A s \in Small(n) : g[s] = IF s = {} THEN 0 ELSE f[Pick(s)] + g[s \ {Pick(s)}]
    BY <2>1 DEF Sums
  <2>4. \A s \in Small(n + 1) : s \in Small(n) => h[s] = g[s]  BY <2>3
  <2>5. \A s \in Small(n + 1) : s # {} => h[s \ {Pick(s)}] = g[s \ {Pick(s)}]
    BY <2>2, <2>4
  <2>6. Sums(f, Small(n + 1), h)  BY <2>5 DEF Sums
  <2> HIDE DEF h
  <2>7. \E k : Sums(f, Small(n + 1), k)  BY <2>6
  <2> QED  BY <2>7
<1> HIDE DEF N
<1>3. Cardinality(D) \in N  BY <1>1, <1>2, SetOfNaturals, FS_CardinalityType
<1>4. PICK g : Sums(f, Small(Cardinality(D)), g)  BY <1>3 DEF N
<1>5. Small(Cardinality(D)) = SUBSET D  BY <1>0
<1> QED  BY <1>4, <1>5

\* Two such functions agree on the sets over which the summands do.
LEMMA SumsAgree ==
  ASSUME NEW D, IsFiniteSet(D), NEW f, NEW g, NEW F, NEW h, NEW k, NEW G,
         SUBSET D \subseteq F, SUBSET D \subseteq G,
         Sums(f, F, h), Sums(g, G, k), \A x \in D : f[x] = g[x]
  PROVE  h[D] = k[D]
<1> DEFINE N == {n \in Nat : \A s \in SUBSET D : Cardinality(s) = n => h[s] = k[s]}
<1>0. \A s \in SUBSET D : IsFiniteSet(s) /\ Cardinality(s) \in Nat
  BY FS_Subset, FS_CardinalityType
<1>1. \A s \in SUBSET D :
         /\ h[s] = IF s = {} THEN 0 ELSE f[Pick(s)] + h[s \ {Pick(s)}]
         /\ k[s] = IF s = {} THEN 0 ELSE g[Pick(s)] + k[s \ {Pick(s)}]
  BY DEF Sums
<1>2. 0 \in N  BY <1>0, <1>1, FS_EmptySet
<1>3. ASSUME NEW n \in Nat, n \in N  PROVE n + 1 \in N
  <2> SUFFICES ASSUME NEW s \in SUBSET D, Cardinality(s) = n + 1  PROVE h[s] = k[s]
    BY <1>3
  <2>1. s # {} /\ Pick(s) \in s /\ s \ {Pick(s)} \in SUBSET D  BY OneLess
  <2>2. \A x \in s : Cardinality(s \ {x}) = n  BY OneLess
  <2>3. h[s \ {Pick(s)}] = k[s \ {Pick(s)}]  BY <1>3, <2>1, <2>2
  <2> QED  BY <1>1, <2>1, <2>3
<1> HIDE DEF N
<1>4. Cardinality(D) \in N  BY <1>0, <1>2, <1>3, SetOfNaturals, FS_CardinalityType
<1> QED  BY <1>4 DEF N

LEMMA SumIsLast ==
  ASSUME NEW D, IsFiniteSet(D), NEW f, DOMAIN f = D
  PROVE  \E g : Sums(f, SUBSET D, g) /\ SumFunction(f) = g[D]
<1> DEFINE G == CHOOSE g : g = [s \in SUBSET D |-> IF s = {} THEN 0 ELSE f[Pick(s)] + g[s \ {Pick(s)}]]
<1>1. SumFunction(f) = G[D]
  BY DEF SumFunction, SumFunctionOnSet, FoldFunctionOnSet, MapThenFoldSet, Pick
<1>2. \E g : g = [s \in SUBSET D |-> IF s = {} THEN 0 ELSE f[Pick(s)] + g[s \ {Pick(s)}]]
  <2>1. PICK g : Sums(f, SUBSET D, g)  BY SumsExist
  <2> QED  BY <2>1 DEF Sums
<1>3. G = [s \in SUBSET D |-> IF s = {} THEN 0 ELSE f[Pick(s)] + G[s \ {Pick(s)}]]
  BY <1>2
<1> QED  BY <1>1, <1>3 DEF Sums

Only(f, S) == [x \in S |-> f[x]]

LEMMA SumRestricts ==
  ASSUME NEW D, IsFiniteSet(D), NEW f, NEW g, Sums(f, SUBSET D, g), NEW S \in SUBSET D
  PROVE  SumFunction(Only(f, S)) = g[S]
<1>1. IsFiniteSet(S)  BY FS_Subset
<1>2. PICK h : Sums(Only(f, S), SUBSET S, h) /\ SumFunction(Only(f, S)) = h[S]
  BY <1>1, SumIsLast DEF Only
<1> QED  BY <1>1, <1>2, SumsAgree DEF Only

\* A sum is an integer, and any of its summands can be taken first.
LEMMA SumTakesAny ==
  ASSUME NEW D, IsFiniteSet(D), NEW f \in [D -> Int]
  PROVE  /\ SumFunction(f) \in Int
         /\ \A x \in D : SumFunction(f) = f[x] + SumFunction(Only(f, D \ {x}))
<1>0. \A s \in SUBSET D : IsFiniteSet(s) /\ Cardinality(s) \in Nat
  BY FS_Subset, FS_CardinalityType
<1>1. PICK g : Sums(f, SUBSET D, g) /\ SumFunction(f) = g[D]  BY SumIsLast
<1>2. \A s \in SUBSET D : g[s] = IF s = {} THEN 0 ELSE f[Pick(s)] + g[s \ {Pick(s)}]
  BY <1>1 DEF Sums
<1> DEFINE Good(s) == g[s] \in Int /\ \A x \in s : g[s] = f[x] + g[s \ {x}]
           N == {n \in Nat : \A s \in SUBSET D : Cardinality(s) <= n => Good(s)}
<1>3. 0 \in N
  <2>1. g[{}] = 0  BY <1>2
  <2>2. Good({})  BY <2>1
  <2>3. \A s \in SUBSET D : Cardinality(s) <= 0 => s = {}  BY <1>0, FS_EmptySet
  <2> QED  BY <2>2, <2>3
<1>4. ASSUME NEW n \in Nat, n \in N  PROVE n + 1 \in N
  <2> SUFFICES ASSUME NEW s \in SUBSET D, Cardinality(s) = n + 1  PROVE Good(s)
    <3>1. \A s \in SUBSET D : Cardinality(s) <= n => Good(s)  BY <1>4
    <3>2. \A s \in SUBSET D : Cardinality(s) <= n + 1 => Cardinality(s) = n + 1 \/ Cardinality(s) <= n
      BY <1>0
    <3> HIDE DEF Good
    <3>3. \A s \in SUBSET D : Cardinality(s) <= n + 1 => Good(s)  BY <3>1, <3>2
    <3> QED  BY <3>3
  <2>1. PICK y : y = Pick(s)  OBVIOUS
  <2>2. s # {} /\ y \in s  BY <2>1, OneLess
  <2>3. \A x \in s : s \ {x} \in SUBSET D /\ Cardinality(s \ {x}) = n  BY OneLess
  <2>4. \A u \in SUBSET D : Cardinality(u) = n => Good(u)
    <3>1. \A u \in SUBSET D : Cardinality(u) <= n => Good(u)  BY <1>4
    <3>2. n <= n  BY <1>4
    <3> HIDE DEF Good
    <3> QED  BY <3>1, <3>2
  <2>5. ASSUME NEW x \in s
        PROVE  g[s \ {x}] \in Int /\ \A z \in s \ {x} : g[s \ {x}] = f[z] + g[(s \ {x}) \ {z}]
    BY <2>3, <2>4
  <2>6. g[s] = f[y] + g[s \ {y}]  BY <1>2, <2>1, <2>2
  <2>7. \A x \in s : f[x] \in Int  OBVIOUS
  <2>8. g[s] \in Int
    <3>1. g[s \ {y}] \in Int /\ f[y] \in Int  BY <2>2, <2>5, <2>7
    <3> QED  BY <2>6, <3>1
  <2>9. ASSUME NEW x \in s, x # y  PROVE g[s] = f[x] + g[s \ {x}]
    <3>1. PICK r : r = g[(s \ {y}) \ {x}]  OBVIOUS
    <3>2. PICK a : a = g[s \ {y}]  OBVIOUS
    <3>3. PICK b : b = g[s \ {x}]  OBVIOUS
    <3>4. a \in Int /\ b \in Int /\ f[x] \in Int /\ f[y] \in Int
      BY <2>2, <2>5, <2>7, <3>2, <3>3
    <3>5. a = f[x] + r  BY <2>2, <2>5, <2>9, <3>1, <3>2
    <3>6. (s \ {x}) \ {y} = (s \ {y}) \ {x}  OBVIOUS
    <3>7. b = f[y] + r  BY <2>2, <2>5, <2>9, <3>1, <3>3, <3>6
    <3>8. r \in Int
      <4>1. PICK u : u = (s \ {y}) \ {x}  OBVIOUS
      <4>2. u \in SUBSET D /\ IsFiniteSet(u) /\ Cardinality(u) \in Nat  BY <1>0, <4>1
      <4>3. s \ {y} \in SUBSET D /\ x \in s \ {y} /\ Cardinality(s \ {y}) = n  BY <2>2, <2>3, <2>9
      <4>4. Cardinality(u) = n - 1 /\ IsFiniteSet(s \ {y})  BY <1>0, <4>1, <4>3, FS_RemoveElement
      <4>6. Cardinality(u) <= n  BY <4>2, <4>4
      <4>7. g[u] \in Int  BY <1>4, <4>2, <4>6
      <4> QED  BY <3>1, <4>1, <4>7
    <3> QED  BY <2>6, <3>2, <3>3, <3>4, <3>5, <3>7, <3>8
  <2> HIDE DEF Good
  <2>10. \A x \in s : g[s] = f[x] + g[s \ {x}]  BY <2>6, <2>9
  <2> QED  BY <2>8, <2>10 DEF Good
<1>5. Good(D)
  <2> HIDE DEF N
  <2>1. Cardinality(D) \in N  BY <1>0, <1>3, <1>4, SetOfNaturals, FS_CardinalityType
  <2> QED  BY <2>1 DEF N
<1>6. ASSUME NEW x \in D  PROVE SumFunction(Only(f, D \ {x})) = g[D \ {x}]
  BY <1>1, SumRestricts
<1> QED  BY <1>1, <1>5, <1>6

LEMMA SumAdds ==
  ASSUME NEW D, IsFiniteSet(D), NEW f \in [D -> Int], NEW s \in SUBSET D, NEW x \in D \ s
  PROVE  /\ SumFunction(Only(f, s)) \in Int
         /\ SumFunction(Only(f, s \cup {x})) = f[x] + SumFunction(Only(f, s))
<1>1. IsFiniteSet(s) /\ IsFiniteSet(s \cup {x})  BY FS_Subset
<1>2. Only(f, s) \in [s -> Int] /\ Only(f, s \cup {x}) \in [s \cup {x} -> Int]  BY DEF Only
<1>3. Only(Only(f, s \cup {x}), (s \cup {x}) \ {x}) = Only(f, s)
  <2>1. (s \cup {x}) \ {x} = s  OBVIOUS
  <2> QED  BY <2>1 DEF Only
<1>4. Only(f, s \cup {x})[x] = f[x]  BY DEF Only
<1>5. SumFunction(Only(f, s \cup {x}))
        = Only(f, s \cup {x})[x] + SumFunction(Only(Only(f, s \cup {x}), (s \cup {x}) \ {x}))
  BY <1>1, <1>2, SumTakesAny
<1>6. SumFunction(Only(f, s)) \in Int  BY <1>1, <1>2, SumTakesAny
<1> QED  BY <1>3, <1>4, <1>5, <1>6

LEMMA SumAddsEach ==
  ASSUME NEW D, IsFiniteSet(D), NEW s \in SUBSET D, NEW x \in D \ s
  PROVE  \A f \in [D -> Int] :
            /\ SumFunction(Only(f, s)) \in Int
            /\ SumFunction(Only(f, s \cup {x})) = f[x] + SumFunction(Only(f, s))
BY SumAdds

LEMMA SumOfNone == ASSUME NEW f PROVE SumFunction(Only(f, {})) = 0
<1> DEFINE e == Only(f, {})
<1>1. IsFiniteSet({}) /\ DOMAIN e = {}  BY FS_EmptySet DEF Only
<1> HIDE DEF e
<1>2. PICK g : Sums(e, SUBSET {}, g) /\ SumFunction(e) = g[{}]  BY <1>1, SumIsLast
<1>3. g[{}] = 0  BY <1>2 DEF Sums
<1> QED  BY <1>2, <1>3 DEF e

LEMMA OnlyAll == ASSUME NEW D, NEW V, NEW f \in [D -> V]  PROVE Only(f, D) = f
BY DEF Only

\* Summands no smaller give a sum no smaller.
LEMMA SumMonotone ==
  ASSUME NEW D, IsFiniteSet(D), NEW f \in [D -> Int], NEW g \in [D -> Int],
         \A x \in D : f[x] <= g[x]
  PROVE  SumFunction(f) <= SumFunction(g)
<1> DEFINE B == {s \in SUBSET D : SumFunction(Only(f, s)) <= SumFunction(Only(g, s))}
<1>1. {} \in B  BY SumOfNone
<1>2. ASSUME NEW s \in SUBSET D, NEW x \in D \ s, s \in B  PROVE s \cup {x} \in B
  <2>1. PICK m : m = SumFunction(Only(f, s))  OBVIOUS
  <2>2. PICK n : n = SumFunction(Only(g, s))  OBVIOUS
  <2>3. m \in Int /\ SumFunction(Only(f, s \cup {x})) = f[x] + m
    <3>1. \A e \in [D -> Int] :
             /\ SumFunction(Only(e, s)) \in Int
             /\ SumFunction(Only(e, s \cup {x})) = e[x] + SumFunction(Only(e, s))
      BY SumAddsEach
    <3> QED  BY <2>1, <3>1
  <2>4. n \in Int /\ SumFunction(Only(g, s \cup {x})) = g[x] + n  BY <2>2, SumAdds
  <2>5. m <= n  BY <1>2, <2>1, <2>2
  <2>6. f[x] \in Int /\ g[x] \in Int /\ f[x] <= g[x]  OBVIOUS
  <2>7. f[x] + m <= g[x] + n  BY <2>3, <2>4, <2>5, <2>6
  <2> QED  BY <2>3, <2>4, <2>7
<1> HIDE DEF B
<1>3. D \in B  BY <1>1, <1>2, SetOfSets
<1> QED  BY <1>3, OnlyAll DEF B

\* The sum of two sums.
LEMMA SumOfBoth ==
  ASSUME NEW D, IsFiniteSet(D), NEW f \in [D -> Int], NEW g \in [D -> Int], NEW h \in [D -> Int],
         \A x \in D : h[x] = f[x] + g[x]
  PROVE  SumFunction(h) = SumFunction(f) + SumFunction(g)
<1> DEFINE B == {s \in SUBSET D :
                   SumFunction(Only(h, s)) = SumFunction(Only(f, s)) + SumFunction(Only(g, s))}
<1>1. {} \in B  BY SumOfNone
<1>2. ASSUME NEW s \in SUBSET D, NEW x \in D \ s, s \in B  PROVE s \cup {x} \in B
  <2>1. PICK m : m = SumFunction(Only(f, s))  OBVIOUS
  <2>2. PICK n : n = SumFunction(Only(g, s))  OBVIOUS
  <2>3. m \in Int /\ SumFunction(Only(f, s \cup {x})) = f[x] + m
    <3>1. \A e \in [D -> Int] :
             /\ SumFunction(Only(e, s)) \in Int
             /\ SumFunction(Only(e, s \cup {x})) = e[x] + SumFunction(Only(e, s))
      BY SumAddsEach
    <3> QED  BY <2>1, <3>1
  <2>4. n \in Int /\ SumFunction(Only(g, s \cup {x})) = g[x] + n  BY <2>2, SumAdds
  <2>5. SumFunction(Only(h, s)) = m + n  BY <1>2, <2>1, <2>2
  <2>6. SumFunction(Only(h, s \cup {x})) = h[x] + (m + n)  BY <2>5, SumAdds
  <2>7. f[x] \in Int /\ g[x] \in Int /\ h[x] = f[x] + g[x]  OBVIOUS
  <2>8. h[x] + (m + n) = (f[x] + m) + (g[x] + n)  BY <2>3, <2>4, <2>7
  <2> QED  BY <2>3, <2>4, <2>6, <2>8
<1> HIDE DEF B
<1>3. D \in B  BY <1>1, <1>2, SetOfSets
<1> QED  BY <1>3, OnlyAll DEF B

\* The sum over a part of a set, as a sum over all of it.
LEMMA SumOfPart ==
  ASSUME NEW D, IsFiniteSet(D), NEW S \in SUBSET D, NEW f \in [S -> Int], NEW h \in [D -> Int],
         \A x \in D : h[x] = IF x \in S THEN f[x] ELSE 0
  PROVE  SumFunction(h) = SumFunction(f)
<1>1. IsFiniteSet(S)  BY FS_Subset
<1> DEFINE B == {s \in SUBSET D : SumFunction(Only(h, s)) = SumFunction(Only(f, s \cap S))}
<1>2. {} \in B
  <2>1. {} \cap S = {}  OBVIOUS
  <2> QED  BY <2>1, SumOfNone
<1>3. ASSUME NEW s \in SUBSET D, NEW x \in D \ s, s \in B  PROVE s \cup {x} \in B
  <2>1. PICK m : m = SumFunction(Only(h, s))  OBVIOUS
  <2>2. m \in Int /\ SumFunction(Only(h, s \cup {x})) = h[x] + m  BY <2>1, SumAdds
  <2>3. m = SumFunction(Only(f, s \cap S))  BY <1>3, <2>1
  <2>4. CASE x \in S
    <3>1. PICK t : t = s \cap S  OBVIOUS
    <3>2. t \in SUBSET S /\ x \in S \ t /\ (s \cup {x}) \cap S = t \cup {x}  BY <2>4, <3>1
    <3>3. SumFunction(Only(f, t \cup {x})) = f[x] + SumFunction(Only(f, t))
      BY <1>1, <3>2, SumAdds
    <3> QED  BY <2>2, <2>3, <2>4, <3>1, <3>2, <3>3
  <2>5. CASE x \notin S
    <3>1. (s \cup {x}) \cap S = s \cap S  BY <2>5
    <3>2. h[x] = 0 /\ 0 + m = m  BY <2>2, <2>5
    <3> QED  BY <2>2, <2>3, <3>1, <3>2
  <2> QED  BY <2>4, <2>5
<1> HIDE DEF B
<1>4. D \in B  BY <1>2, <1>3, SetOfSets
<1>5. D \cap S = S  OBVIOUS
<1> QED  BY <1>4, <1>5, OnlyAll DEF B

\* When one summand changes, the sum changes by as much.
LEMMA SumOneChanges ==
  ASSUME NEW D, IsFiniteSet(D), NEW f \in [D -> Int], NEW g \in [D -> Int], NEW x \in D,
         \A y \in D \ {x} : g[y] = f[y]
  PROVE  SumFunction(g) = SumFunction(f) + (g[x] - f[x])
<1> DEFINE E == D \ {x}
<1>1. IsFiniteSet(E)  BY FS_RemoveElement
<1>2. Only(f, E) \in [E -> Int] /\ Only(g, E) = Only(f, E)  BY DEF Only
<1> HIDE DEF E
<1>3. SumFunction(Only(f, E)) \in Int  BY <1>1, <1>2, SumTakesAny
<1>4. SumFunction(g) = g[x] + SumFunction(Only(f, E))  BY <1>2, SumTakesAny DEF E
<1>5. SumFunction(f) = f[x] + SumFunction(Only(f, E))  BY SumTakesAny DEF E
<1>6. f[x] \in Int /\ g[x] \in Int  OBVIOUS
<1> QED  BY <1>3, <1>4, <1>5, <1>6

LEMMA SumOfZeros ==
  ASSUME NEW D, IsFiniteSet(D), NEW f \in [D -> Int], \A x \in D : f[x] = 0
  PROVE  SumFunction(f) = 0
<1>1. SumFunction(f) \in Int  BY SumTakesAny
<1>2. \A x \in D : f[x] = f[x] + f[x]  OBVIOUS
<1>3. SumFunction(f) = SumFunction(f) + SumFunction(f)  BY <1>2, SumOfBoth
<1>4. PICK n : n = SumFunction(f)  OBVIOUS
<1>5. n \in Int /\ n = n + n  BY <1>1, <1>3, <1>4
<1>6. \A k \in Int : k = k + k => k = 0  OBVIOUS
<1>7. n = 0  BY <1>5, <1>6
<1> QED  BY <1>4, <1>7

-----------------------------------------------------------------------------
(* What the ledger owes to one probe, by day and account                   *)

In(r, a) == a \in {r.channel, All}
Reserves(r, d, a) == r.held > 0 /\ r.day = d /\ In(r, a)
DueOf(r) ==
    IF r.moved THEN 0
    ELSE IF r.stage = "ok" /\ r.settled THEN r.charged
    ELSE Least(r.charged, r.held)

\* Until a probe ends, all it holds; then what it is due.  What Redis lost is
\* excused, and once the probe has ended by all that was held: its settlement
\* may still have been taken from a ledger that began again.
ClaimOf(r, d, a) ==
    IF ~Reserves(r, d, a) THEN 0
    ELSE IF r.lost THEN (IF r.at = "done" THEN -r.held ELSE 0)
    ELSE IF r.at = "done" THEN DueOf(r) ELSE r.held

\* The same, without what was charged beyond the reservation.
PartOf(r, d, a) ==
    IF ~Reserves(r, d, a) THEN 0
    ELSE IF r.lost THEN (IF r.at = "done" THEN -r.held ELSE 0)
    ELSE IF r.at # "done" THEN r.held
    ELSE IF r.moved THEN 0 ELSE Least(r.charged, r.held)

\* How much a negative cost took from the audit, and what is in it for the day.
ShownOf(r, a) == IF In(r, a) /\ r.stage = "ok" THEN AtLeastZero(-r.cost) ELSE 0
PaidOf(r, d, a) == IF In(r, a) /\ r.stage = "ok" /\ ~r.moved /\ r.day = d THEN r.charged ELSE 0

Claims(P, d, a) == SumFunction([p \in Probes |-> ClaimOf(P[p], d, a)])
Parts(P, d, a) == SumFunction([p \in Probes |-> PartOf(P[p], d, a)])
Shown(P, a) == SumFunction([p \in Probes |-> ShownOf(P[p], a)])
Paid(P, d, a) == SumFunction([p \in Probes |-> PaidOf(P[p], d, a)])
NotedIn(A, d, a) == SumFunction([c \in {c \in Channels : a \in {c, All}} |-> A[d][c]])

LEMMA RecordTypes ==
  ASSUME NEW r \in Probe, NEW d, NEW a
  PROVE  /\ ClaimOf(r, d, a) \in Int /\ PartOf(r, d, a) \in Int
         /\ ShownOf(r, a) \in Nat /\ PaidOf(r, d, a) \in Nat
         /\ PartOf(r, d, a) <= ClaimOf(r, d, a)
<1>1. /\ r.held \in Nat /\ r.charged \in Nat /\ r.cost \in Int /\ -r.held \in Int
      /\ -r.cost \in Int
  <2>1. r.held \in Nat /\ r.charged \in Nat /\ r.cost \in Int  BY DEF Probe
  <2> QED  BY <2>1
<1>2. Least(r.charged, r.held) \in Nat /\ Least(r.charged, r.held) <= r.charged
  BY <1>1 DEF Least
<1>3. AtLeastZero(-r.cost) \in Nat  BY <1>1 DEF AtLeastZero
<1>4. DueOf(r) \in Nat  BY <1>1, <1>2 DEF DueOf
<1>5. ClaimOf(r, d, a) \in Int /\ PartOf(r, d, a) \in Int
  BY <1>1, <1>2, <1>4 DEF ClaimOf, PartOf
<1>6. PartOf(r, d, a) <= ClaimOf(r, d, a)
  <2>1. \A n \in Int : n <= n  OBVIOUS
  <2>2. (IF r.moved THEN 0 ELSE Least(r.charged, r.held)) <= DueOf(r)
    BY <1>1, <1>2 DEF DueOf
  <2> QED  BY <1>1, <1>5, <2>1, <2>2 DEF ClaimOf, PartOf
<1> QED  BY <1>1, <1>3, <1>5, <1>6 DEF ShownOf, PaidOf

\* All four are functions of the probes, with finite sums.
LEMMA SumTypes ==
  ASSUME NEW P \in [Probes -> Probe], NEW d, NEW a
  PROVE  /\ [p \in Probes |-> ClaimOf(P[p], d, a)] \in [Probes -> Int]
         /\ [p \in Probes |-> PartOf(P[p], d, a)] \in [Probes -> Int]
         /\ [p \in Probes |-> ShownOf(P[p], a)] \in [Probes -> Int]
         /\ [p \in Probes |-> PaidOf(P[p], d, a)] \in [Probes -> Int]
         /\ IsFiniteSet(Probes)
         /\ Claims(P, d, a) \in Int /\ Parts(P, d, a) \in Int
         /\ Shown(P, a) \in Int /\ Paid(P, d, a) \in Int
<1>0. IsFiniteSet(Probes)  BY BudgetAssumption
<1>1. \A p \in Probes : /\ ClaimOf(P[p], d, a) \in Int /\ PartOf(P[p], d, a) \in Int
                        /\ ShownOf(P[p], a) \in Int /\ PaidOf(P[p], d, a) \in Int
  BY RecordTypes
<1>2. [p \in Probes |-> ClaimOf(P[p], d, a)] \in [Probes -> Int]  BY <1>1
<1>3. [p \in Probes |-> PartOf(P[p], d, a)] \in [Probes -> Int]  BY <1>1
<1>4. [p \in Probes |-> ShownOf(P[p], a)] \in [Probes -> Int]  BY <1>1
<1>5. [p \in Probes |-> PaidOf(P[p], d, a)] \in [Probes -> Int]  BY <1>1
<1>6. \A f \in [Probes -> Int] : SumFunction(f) \in Int  BY <1>0, SumTakesAny
<1> QED  BY <1>0, <1>2, <1>3, <1>4, <1>5, <1>6 DEF Claims, Parts, Shown, Paid

LEMMA NotedType ==
  ASSUME NEW A \in [Days -> [Channels -> Int]], NEW d \in Days, NEW a
  PROVE  NotedIn(A, d, a) \in Int
<1> DEFINE C == {c \in Channels : a \in {c, All}}
           f == [c \in C |-> A[d][c]]
<1>1. IsFiniteSet(C)
  <2>1. IsFiniteSet(Channels) /\ C \in SUBSET Channels  BY BudgetAssumption
  <2> QED  BY <2>1, FS_Subset
<1>2. f \in [C -> Int]  OBVIOUS
<1> HIDE DEF C, f
<1>3. SumFunction(f) \in Int  BY <1>1, <1>2, SumTakesAny
<1> QED  BY <1>3 DEF NotedIn, C, f

\* A row is noted for the channel and for all of them.
AddsNote(A, B, t, c, n, d, a) ==
    NotedIn(B, d, a) = NotedIn(A, d, a) + (IF d = t /\ a \in {c, All} THEN n ELSE 0)

LEMMA NoteAdds ==
  ASSUME NEW A \in [Days -> [Channels -> Int]], NEW t \in Days, NEW c \in Channels, NEW n \in Int,
         NEW B, B = [A EXCEPT ![t][c] = @ + n], NEW d \in Days, NEW a
  PROVE  AddsNote(A, B, t, c, n, d, a)
<1> USE DEF AddsNote
<1> DEFINE C == {x \in Channels : a \in {x, All}}
           f == [x \in C |-> A[d][x]]
           g == [x \in C |-> B[d][x]]
<1>0. NotedIn(B, d, a) = SumFunction(g) /\ NotedIn(A, d, a) = SumFunction(f)  BY DEF NotedIn
<1>1. IsFiniteSet(C)
  <2>1. IsFiniteSet(Channels) /\ C \in SUBSET Channels  BY BudgetAssumption
  <2> QED  BY <2>1, FS_Subset
<1>2. A[t][c] + n \in Int /\ (A[t][c] + n) - A[t][c] = n  OBVIOUS
<1>3. /\ \A x \in Channels : (d # t \/ x # c) => B[d][x] = A[d][x]
      /\ B[t][c] = A[t][c] + n
  OBVIOUS
<1>4. f \in [C -> Int]  OBVIOUS
<1>5. g \in [C -> Int]
  <2>1. \A x \in Channels : B[d][x] \in Int  BY <1>2, <1>3
  <2> QED  BY <2>1
<1>6. SumFunction(f) \in Int
  <2> HIDE DEF f, C
  <2> QED  BY <1>1, <1>4, SumTakesAny
<1>7. CASE d = t /\ a \in {c, All}
  <2>1. c \in C /\ (\A x \in C \ {c} : g[x] = f[x]) /\ g[c] - f[c] = n  BY <1>2, <1>3, <1>7
  <2> HIDE DEF f, g, C
  <2>2. SumFunction(g) = SumFunction(f) + (g[c] - f[c])  BY <1>1, <1>4, <1>5, <2>1, SumOneChanges
  <2> QED  BY <1>0, <1>7, <2>1, <2>2
<1>8. CASE ~(d = t /\ a \in {c, All})
  <2>1. g = f  BY <1>3, <1>8
  <2> HIDE DEF f, g, C
  <2> QED  BY <1>0, <1>6, <1>8, <2>1
<1> QED  BY <1>7, <1>8

-----------------------------------------------------------------------------
(* The invariant of the ledger, of explicit probes P, ledger L, audit A    *)
(* and day t                                                               *)

\* A sum read for an account the probe will reserve from.
Seeding(r, a) == HasRead(r, a) /\ In(r, a)
CounterIn(L, A, d, a) == IF L[d][a] = NoKey THEN NotedIn(A, d, a) ELSE L[d][a]

Books(P, L, A, t) ==
    /\ P \in [Probes -> Probe]
    /\ L \in [Days -> [Accounts -> Int \cup {NoKey}]]
    /\ A \in [Days -> [Channels -> Int]]
    /\ t \in Days

\* The ledger, or the audit it will be seeded from, holds every claim; and no
\* more is ever granted than the budgets.
Covered(P, L, A) ==
    \A d \in Days : \A a \in Accounts : Claims(P, d, a) <= CounterIn(L, A, d, a) + Shown(P, a)
Granting(P) ==
    \A d \in Days : \A a \in Accounts : Parts(P, d, a) <= BudgetOf(a) + Shown(P, a)

\* The audit, less what negative costs took from it, is never below zero, and
\* holds what the successful probes of the day were charged.
NotedCovers(P, A, t) ==
    \A a \in Accounts :
        /\ \A d \in Days : 0 <= NotedIn(A, d, a) + Shown(P, a)
        /\ Paid(P, t, a) <= NotedIn(A, t, a) + Shown(P, a)

\* What a probe has read from the audit may yet seed an absent ledger.
SeedsCover(P, L, t) ==
    \A p \in Probes : \A a \in Accounts :
        Seeding(P[p], a) =>
            /\ 0 <= SeedOf(P[p], a) + Shown(P, a)
            /\ L[t][a] = NoKey => Claims(P, t, a) <= SeedOf(P[p], a) + Shown(P, a)

\* Nothing but the loss of the keys takes an unsettled amount from the ledger.
Open(r) == r.held > 0 /\ ~r.lost /\ r.at # "done"
KeysStay(P, L) ==
    \A p \in Probes : Open(P[p]) =>
        L[P[p].day][P[p].channel] # NoKey /\ L[P[p].day][All] # NoKey

Kept(P, L, A, t) ==
    /\ Covered(P, L, A)
    /\ Granting(P)
    /\ NotedCovers(P, A, t)
    /\ SeedsCover(P, L, t)
    /\ KeysStay(P, L)

\* One probe's record, apart from its type.
Fit(r) ==
    /\ r.at \in {"idle", "gate", "reserve"} => r.held = 0 /\ ~r.lost
    /\ r.at \in Unspent \cup {"chat"} => r.charged = 0
    /\ r.settled => r.at = "done"
    /\ r.stage = "balance_before" => r.charged = 0
    /\ r.stage \in {"balance_before", "ok"} => r.at \in {"settle", "done"}

\* A change that adds nothing to what is owed or granted.
Lighter(r, old) ==
    \A d \in Days : \A a \in Accounts :
        /\ ClaimOf(r, d, a) <= ClaimOf(old, d, a)
        /\ PartOf(r, d, a) <= PartOf(old, d, a)
        /\ ShownOf(old, a) <= ShownOf(r, a)

\* What is lighter for each probe is lighter for all of them.
LEMMA LighterSums ==
  ASSUME NEW P \in [Probes -> Probe], NEW Q \in [Probes -> Probe],
         \A p \in Probes : Lighter(Q[p], P[p]), NEW d \in Days, NEW a \in Accounts
  PROVE  /\ Claims(Q, d, a) <= Claims(P, d, a)
         /\ Parts(Q, d, a) <= Parts(P, d, a)
         /\ Shown(P, a) <= Shown(Q, a)
<1>1. ASSUME NEW f \in [Probes -> Int], NEW g \in [Probes -> Int], \A p \in Probes : f[p] <= g[p]
      PROVE  SumFunction(f) <= SumFunction(g)
  BY <1>1, SumTypes, SumMonotone
<1>2. Claims(Q, d, a) <= Claims(P, d, a)
  <2> DEFINE f == [p \in Probes |-> ClaimOf(Q[p], d, a)]
             g == [p \in Probes |-> ClaimOf(P[p], d, a)]
  <2>1. f \in [Probes -> Int] /\ g \in [Probes -> Int]  BY SumTypes
  <2>2. \A p \in Probes : f[p] <= g[p]  BY DEF Lighter
  <2> HIDE DEF f, g
  <2>3. SumFunction(f) <= SumFunction(g)  BY <1>1, <2>1, <2>2
  <2> QED  BY <2>3 DEF Claims, f, g
<1>3. Parts(Q, d, a) <= Parts(P, d, a)
  <2> DEFINE f == [p \in Probes |-> PartOf(Q[p], d, a)]
             g == [p \in Probes |-> PartOf(P[p], d, a)]
  <2>1. \A r \in Probe : PartOf(r, d, a) \in Int  BY RecordTypes
  <2>2. f \in [Probes -> Int] /\ g \in [Probes -> Int]  BY <2>1
  <2>3. \A p \in Probes : f[p] <= g[p]  BY DEF Lighter
  <2> HIDE DEF f, g
  <2>4. SumFunction(f) <= SumFunction(g)  BY <1>1, <2>2, <2>3
  <2> QED  BY <2>4 DEF Parts, f, g
<1>4. Shown(P, a) <= Shown(Q, a)
  <2> DEFINE f == [p \in Probes |-> ShownOf(P[p], a)]
             g == [p \in Probes |-> ShownOf(Q[p], a)]
  <2>1. f \in [Probes -> Int] /\ g \in [Probes -> Int]  BY SumTypes
  <2>2. \A p \in Probes : f[p] <= g[p]  BY DEF Lighter
  <2> HIDE DEF f, g
  <2>3. SumFunction(f) <= SumFunction(g)  BY <1>1, <2>1, <2>2
  <2> QED  BY <2>3 DEF Shown, f, g
<1> QED  BY <1>2, <1>3, <1>4

\* A step that leaves the ledger alone and adds to the audit no less than a
\* probe was charged keeps the invariant.
LEMMA AuditStep ==
  ASSUME NEW P, NEW Q, NEW L, NEW A, NEW B, NEW t,
         Books(P, L, A, t), Books(Q, L, B, t), Kept(P, L, A, t),
         \A p \in Probes : Lighter(Q[p], P[p]),
         \A d \in Days : \A a \in Accounts :
            NotedIn(A, d, a) + Shown(P, a) <= NotedIn(B, d, a) + Shown(Q, a),
         \A a \in Accounts :
            Paid(Q, t, a) + (NotedIn(A, t, a) + Shown(P, a))
              <= Paid(P, t, a) + (NotedIn(B, t, a) + Shown(Q, a)),
         \A p \in Probes : \A a \in Accounts : Seeding(Q[p], a) =>
            \/ Seeding(P[p], a) /\ SeedOf(Q[p], a) = SeedOf(P[p], a)
            \/ SeedOf(Q[p], a) = NotedIn(A, t, a),
         \A p \in Probes : Open(Q[p]) =>
            Open(P[p]) /\ Q[p].day = P[p].day /\ Q[p].channel = P[p].channel
  PROVE  Kept(Q, L, B, t)
<1> USE DEF Books
<1>1. ASSUME NEW d \in Days, NEW a \in Accounts
      PROVE  /\ Claims(Q, d, a) \in Int /\ Claims(P, d, a) \in Int /\ Claims(Q, d, a) <= Claims(P, d, a)
             /\ Parts(Q, d, a) \in Int /\ Parts(P, d, a) \in Int /\ Parts(Q, d, a) <= Parts(P, d, a)
             /\ Shown(P, a) \in Int /\ Shown(Q, a) \in Int /\ Shown(P, a) <= Shown(Q, a)
             /\ Paid(P, d, a) \in Int /\ Paid(Q, d, a) \in Int
             /\ NotedIn(A, d, a) \in Int /\ NotedIn(B, d, a) \in Int
  <2>1. /\ Claims(Q, d, a) <= Claims(P, d, a) /\ Parts(Q, d, a) <= Parts(P, d, a)
        /\ Shown(P, a) <= Shown(Q, a)
    BY LighterSums
  <2>2. /\ Claims(Q, d, a) \in Int /\ Parts(Q, d, a) \in Int
        /\ Shown(Q, a) \in Int /\ Paid(Q, d, a) \in Int
    BY SumTypes
  <2>3. /\ Claims(P, d, a) \in Int /\ Parts(P, d, a) \in Int
        /\ Shown(P, a) \in Int /\ Paid(P, d, a) \in Int
    BY SumTypes
  <2> QED  BY <2>1, <2>2, <2>3, NotedType
<1>2. Covered(Q, L, B)
  <2> SUFFICES ASSUME NEW d \in Days, NEW a \in Accounts
               PROVE  Claims(Q, d, a) <= CounterIn(L, B, d, a) + Shown(Q, a)
    BY DEF Covered
  <2>1. Claims(P, d, a) <= CounterIn(L, A, d, a) + Shown(P, a)  BY DEF Kept, Covered
  <2>2. CASE L[d][a] = NoKey
    <3>1. CounterIn(L, A, d, a) = NotedIn(A, d, a) /\ CounterIn(L, B, d, a) = NotedIn(B, d, a)
      BY <2>2 DEF CounterIn
    <3>2. NotedIn(A, d, a) + Shown(P, a) <= NotedIn(B, d, a) + Shown(Q, a)  OBVIOUS
    <3> QED  BY <1>1, <2>1, <3>1, <3>2
  <2>3. CASE L[d][a] # NoKey
    <3>1. CounterIn(L, A, d, a) = L[d][a] /\ CounterIn(L, B, d, a) = L[d][a] /\ L[d][a] \in Int
      BY <2>3 DEF CounterIn
    <3> QED  BY <1>1, <2>1, <3>1
  <2> QED  BY <2>2, <2>3
<1>3. Granting(Q)
  <2> SUFFICES ASSUME NEW d \in Days, NEW a \in Accounts
               PROVE  Parts(Q, d, a) <= BudgetOf(a) + Shown(Q, a)
    BY DEF Granting
  <2>1. Parts(P, d, a) <= BudgetOf(a) + Shown(P, a)  BY DEF Kept, Granting
  <2>2. BudgetOf(a) \in Int  BY BudgetAssumption DEF BudgetOf
  <2> QED  BY <1>1, <2>1, <2>2
<1>4. NotedCovers(Q, B, t)
  <2>1. ASSUME NEW a \in Accounts, NEW d \in Days  PROVE 0 <= NotedIn(B, d, a) + Shown(Q, a)
    <3>1. 0 <= NotedIn(A, d, a) + Shown(P, a)  BY DEF Kept, NotedCovers
    <3>2. NotedIn(A, d, a) + Shown(P, a) <= NotedIn(B, d, a) + Shown(Q, a)  OBVIOUS
    <3> QED  BY <1>1, <3>1, <3>2
  <2>2. ASSUME NEW a \in Accounts  PROVE Paid(Q, t, a) <= NotedIn(B, t, a) + Shown(Q, a)
    <3>1. Paid(P, t, a) <= NotedIn(A, t, a) + Shown(P, a)  BY DEF Kept, NotedCovers
    <3>2. Paid(Q, t, a) + (NotedIn(A, t, a) + Shown(P, a))
            <= Paid(P, t, a) + (NotedIn(B, t, a) + Shown(Q, a))
      OBVIOUS
    <3> QED  BY <1>1, <3>1, <3>2
  <2> QED  BY <2>1, <2>2 DEF NotedCovers
<1>5. SeedsCover(Q, L, t)
  <2> SUFFICES ASSUME NEW p \in Probes, NEW a \in Accounts, Seeding(Q[p], a)
               PROVE  /\ 0 <= SeedOf(Q[p], a) + Shown(Q, a)
                      /\ L[t][a] = NoKey => Claims(Q, t, a) <= SeedOf(Q[p], a) + Shown(Q, a)
    BY DEF SeedsCover
  <2>1. /\ 0 <= SeedOf(Q[p], a) + Shown(P, a)
        /\ L[t][a] = NoKey => Claims(P, t, a) <= SeedOf(Q[p], a) + Shown(P, a)
    <3>1. CASE Seeding(P[p], a) /\ SeedOf(Q[p], a) = SeedOf(P[p], a)
      BY <3>1 DEF Kept, SeedsCover
    <3>2. CASE SeedOf(Q[p], a) = NotedIn(A, t, a)
      BY <3>2 DEF Kept, NotedCovers, Covered, CounterIn
    <3> QED  BY <3>1, <3>2
  <2>2. SeedOf(Q[p], a) \in Int
    <3>1. Q[p] \in Probe  OBVIOUS
    <3> QED  BY <3>1 DEF Probe, SeedOf
  <2> QED  BY <1>1, <2>1, <2>2
<1>6. KeysStay(Q, L)  BY DEF Kept, KeysStay
<1> QED  BY <1>2, <1>3, <1>4, <1>5, <1>6 DEF Kept

\* When one probe changes, each sum changes by what it adds.
ChangesBy(P, Q, p, d, a) ==
    /\ Claims(Q, d, a) = Claims(P, d, a) + (ClaimOf(Q[p], d, a) - ClaimOf(P[p], d, a))
    /\ Parts(Q, d, a) = Parts(P, d, a) + (PartOf(Q[p], d, a) - PartOf(P[p], d, a))
    /\ Shown(Q, a) = Shown(P, a) + (ShownOf(Q[p], a) - ShownOf(P[p], a))
    /\ Paid(Q, d, a) = Paid(P, d, a) + (PaidOf(Q[p], d, a) - PaidOf(P[p], d, a))

LEMMA OneProbe ==
  ASSUME NEW P \in [Probes -> Probe], NEW Q \in [Probes -> Probe], NEW p \in Probes,
         \A q \in Probes \ {p} : Q[q] = P[q], NEW d, NEW a
  PROVE  ChangesBy(P, Q, p, d, a)
<1>1. ASSUME NEW f \in [Probes -> Int], NEW g \in [Probes -> Int], \A q \in Probes \ {p} : g[q] = f[q]
      PROVE  SumFunction(g) = SumFunction(f) + (g[p] - f[p])
  <2>1. IsFiniteSet(Probes)  BY BudgetAssumption
  <2> QED  BY <1>1, <2>1, SumOneChanges
<1>2. \A r \in Probe : /\ ClaimOf(r, d, a) \in Int /\ PartOf(r, d, a) \in Int
                       /\ ShownOf(r, a) \in Int /\ PaidOf(r, d, a) \in Int
  BY RecordTypes
<1>3. Claims(Q, d, a) = Claims(P, d, a) + (ClaimOf(Q[p], d, a) - ClaimOf(P[p], d, a))
  <2> DEFINE f == [q \in Probes |-> ClaimOf(P[q], d, a)]
             g == [q \in Probes |-> ClaimOf(Q[q], d, a)]
  <2>1. f \in [Probes -> Int] /\ g \in [Probes -> Int]  BY <1>2
  <2>2. /\ \A q \in Probes \ {p} : g[q] = f[q]
        /\ g[p] = ClaimOf(Q[p], d, a) /\ f[p] = ClaimOf(P[p], d, a)
    OBVIOUS
  <2>3. Claims(Q, d, a) = SumFunction(g) /\ Claims(P, d, a) = SumFunction(f)  BY DEF Claims
  <2> HIDE DEF f, g
  <2>4. SumFunction(g) = SumFunction(f) + (g[p] - f[p])  BY <1>1, <2>1, <2>2
  <2> QED  BY <2>2, <2>3, <2>4
<1>4. Parts(Q, d, a) = Parts(P, d, a) + (PartOf(Q[p], d, a) - PartOf(P[p], d, a))
  <2> DEFINE f == [q \in Probes |-> PartOf(P[q], d, a)]
             g == [q \in Probes |-> PartOf(Q[q], d, a)]
  <2>1. f \in [Probes -> Int] /\ g \in [Probes -> Int]  BY <1>2
  <2>2. /\ \A q \in Probes \ {p} : g[q] = f[q]
        /\ g[p] = PartOf(Q[p], d, a) /\ f[p] = PartOf(P[p], d, a)
    OBVIOUS
  <2>3. Parts(Q, d, a) = SumFunction(g) /\ Parts(P, d, a) = SumFunction(f)  BY DEF Parts
  <2> HIDE DEF f, g
  <2>4. SumFunction(g) = SumFunction(f) + (g[p] - f[p])  BY <1>1, <2>1, <2>2
  <2> QED  BY <2>2, <2>3, <2>4
<1>5. Shown(Q, a) = Shown(P, a) + (ShownOf(Q[p], a) - ShownOf(P[p], a))
  <2> DEFINE f == [q \in Probes |-> ShownOf(P[q], a)]
             g == [q \in Probes |-> ShownOf(Q[q], a)]
  <2>1. f \in [Probes -> Int] /\ g \in [Probes -> Int]  BY <1>2
  <2>2. /\ \A q \in Probes \ {p} : g[q] = f[q]
        /\ g[p] = ShownOf(Q[p], a) /\ f[p] = ShownOf(P[p], a)
    OBVIOUS
  <2>3. Shown(Q, a) = SumFunction(g) /\ Shown(P, a) = SumFunction(f)  BY DEF Shown
  <2> HIDE DEF f, g
  <2>4. SumFunction(g) = SumFunction(f) + (g[p] - f[p])  BY <1>1, <2>1, <2>2
  <2> QED  BY <2>2, <2>3, <2>4
<1>6. Paid(Q, d, a) = Paid(P, d, a) + (PaidOf(Q[p], d, a) - PaidOf(P[p], d, a))
  <2> DEFINE f == [q \in Probes |-> PaidOf(P[q], d, a)]
             g == [q \in Probes |-> PaidOf(Q[q], d, a)]
  <2>1. f \in [Probes -> Int] /\ g \in [Probes -> Int]  BY <1>2
  <2>2. /\ \A q \in Probes \ {p} : g[q] = f[q]
        /\ g[p] = PaidOf(Q[p], d, a) /\ f[p] = PaidOf(P[p], d, a)
    OBVIOUS
  <2>3. Paid(Q, d, a) = SumFunction(g) /\ Paid(P, d, a) = SumFunction(f)  BY DEF Paid
  <2> HIDE DEF f, g
  <2>4. SumFunction(g) = SumFunction(f) + (g[p] - f[p])  BY <1>1, <2>1, <2>2
  <2> QED  BY <2>2, <2>3, <2>4
<1> QED  BY <1>3, <1>4, <1>5, <1>6 DEF ChangesBy

\* What a probe holds of its budget is never more than its claim.
LEMMA PartsWithinClaims ==
  ASSUME NEW P \in [Probes -> Probe], NEW d, NEW a
  PROVE  Parts(P, d, a) <= Claims(P, d, a)
<1> DEFINE f == [q \in Probes |-> PartOf(P[q], d, a)]
           g == [q \in Probes |-> ClaimOf(P[q], d, a)]
<1>1. \A q \in Probes : f[q] \in Int /\ g[q] \in Int /\ f[q] <= g[q]  BY RecordTypes
<1>2. f \in [Probes -> Int] /\ g \in [Probes -> Int] /\ IsFiniteSet(Probes)
  BY <1>1, BudgetAssumption
<1>3. Parts(P, d, a) = SumFunction(f) /\ Claims(P, d, a) = SumFunction(g)  BY DEF Parts, Claims
<1> HIDE DEF f, g
<1> QED  BY <1>1, <1>2, <1>3, SumMonotone

\* Midnight: the new day has no claim yet.
LEMMA DayStep ==
  ASSUME NEW P, NEW L, NEW A, NEW t, Books(P, L, A, t), Kept(P, L, A, t), NEW u \in Days,
         t < u, \A p \in Probes : P[p].day <= t
  PROVE  Kept(P, L, A, u)
<1> USE DEF Books
<1>0. t \in Int /\ u \in Int /\ \A p \in Probes : P[p].day \in Int /\ P[p].day # u
  <2>1. \A p \in Probes : P[p].day \in Days  BY DEF Probe
  <2>2. \A d \in Days : d \in Int  BY BudgetAssumption
  <2> QED  BY <2>1, <2>2
<1>1. ASSUME NEW a \in Accounts  PROVE Claims(P, u, a) = 0 /\ Paid(P, u, a) = 0
  <2> DEFINE f == [q \in Probes |-> ClaimOf(P[q], u, a)]
             g == [q \in Probes |-> PaidOf(P[q], u, a)]
  <2>1. f = [q \in Probes |-> 0] /\ g = [q \in Probes |-> 0]
    BY <1>0 DEF ClaimOf, PaidOf, Reserves
  <2>2. Claims(P, u, a) = SumFunction(f) /\ Paid(P, u, a) = SumFunction(g)  BY DEF Claims, Paid
  <2>3. f \in [Probes -> Int] /\ \A q \in Probes : f[q] = 0  BY <2>1
  <2>4. g \in [Probes -> Int] /\ \A q \in Probes : g[q] = 0  BY <2>1
  <2> HIDE DEF f, g
  <2>5. IsFiniteSet(Probes)  BY BudgetAssumption
  <2>6. SumFunction(f) = 0  BY <2>3, <2>5, SumOfZeros
  <2>7. SumFunction(g) = 0  BY <2>4, <2>5, SumOfZeros
  <2> QED  BY <2>2, <2>6, <2>7
<1>2. NotedCovers(P, A, u)  BY <1>1 DEF Kept, NotedCovers
<1>3. SeedsCover(P, L, u)  BY <1>1 DEF Kept, SeedsCover
<1> QED  BY <1>2, <1>3 DEF Kept

\* A reservation: both accounts take the amount w, and stay within budget.
LEMMA BookStep ==
  ASSUME NEW P, NEW Q, NEW L, NEW M, NEW A, NEW t,
         Books(P, L, A, t), Books(Q, M, A, t), Kept(P, L, A, t),
         NEW p \in Probes, \A q \in Probes \ {p} : Q[q] = P[q], NEW w \in Nat,
         P[p].at = "reserve", P[p].held = 0, P[p].stage # "ok",
         Q[p].channel = P[p].channel, Q[p].at \notin {"gate", "reserve"}, Q[p].stage # "ok",
         Q[p].held = 0 \/ (Q[p].held = w /\ Q[p].at # "done" /\ Q[p].day = t),
         NEW bal, \A a \in Accounts : In(P[p], a) =>
            /\ bal[a] = IF L[t][a] = NoKey THEN SeedOf(P[p], a) ELSE L[t][a]
            /\ bal[a] + w <= BudgetOf(a) /\ M[t][a] = bal[a] + w,
         \A d \in Days : \A a \in Accounts : ~(d = t /\ In(P[p], a)) => M[d][a] = L[d][a]
  PROVE  Kept(Q, M, A, t)
<1> USE DEF Books
<1>0. P[p] \in Probe /\ Q[p] \in Probe  OBVIOUS
<1>1. ASSUME NEW d \in Days, NEW a \in Accounts
      PROVE  /\ Shown(Q, a) = Shown(P, a) /\ Paid(Q, d, a) = Paid(P, d, a)
             /\ Shown(P, a) \in Int /\ Claims(P, d, a) \in Int /\ Claims(Q, d, a) \in Int
             /\ Parts(P, d, a) \in Int /\ Parts(Q, d, a) \in Int
             /\ NotedIn(A, d, a) \in Int
  <2>1. Shown(P, a) \in Int /\ Claims(P, d, a) \in Int /\ Paid(P, d, a) \in Int /\ Parts(P, d, a) \in Int
    BY SumTypes
  <2>2. Claims(Q, d, a) \in Int /\ Parts(Q, d, a) \in Int  BY SumTypes
  <2>3. ShownOf(P[p], a) = 0 /\ ShownOf(Q[p], a) = 0  BY DEF ShownOf
  <2>4. PaidOf(P[p], d, a) = 0 /\ PaidOf(Q[p], d, a) = 0  BY DEF PaidOf
  <2>5. ChangesBy(P, Q, p, d, a)  BY OneProbe
  <2>6. Shown(Q, a) = Shown(P, a) /\ Paid(Q, d, a) = Paid(P, d, a)
    BY <2>1, <2>3, <2>4, <2>5 DEF ChangesBy
  <2> QED  BY <2>1, <2>2, <2>6, NotedType
<1>2. ASSUME NEW d \in Days, NEW a \in Accounts
      PROVE  /\ ~(d = t /\ In(P[p], a)) => Claims(Q, d, a) = Claims(P, d, a)
                                          /\ Parts(Q, d, a) = Parts(P, d, a)
             /\ Claims(Q, d, a) <= Claims(P, d, a) + w
  <2>1. ClaimOf(P[p], d, a) = 0 /\ PartOf(P[p], d, a) = 0  BY DEF ClaimOf, PartOf, Reserves
  <2>2. ~(d = t /\ In(P[p], a)) => ClaimOf(Q[p], d, a) = 0 /\ PartOf(Q[p], d, a) = 0
    BY DEF ClaimOf, PartOf, Reserves, In
  <2>3. ClaimOf(Q[p], d, a) \in Int /\ ClaimOf(Q[p], d, a) <= w
    BY <1>0, RecordTypes DEF ClaimOf, Reserves
  <2>4. ChangesBy(P, Q, p, d, a)  BY OneProbe
  <2>5. PartOf(Q[p], d, a) \in Int  BY <1>0, RecordTypes
  <2>6. Claims(Q, d, a) = Claims(P, d, a) + ClaimOf(Q[p], d, a)
    BY <1>1, <2>1, <2>3, <2>4 DEF ChangesBy
  <2>7. Claims(Q, d, a) <= Claims(P, d, a) + w  BY <1>1, <2>3, <2>6
  <2>8. ASSUME ~(d = t /\ In(P[p], a))
        PROVE  Claims(Q, d, a) = Claims(P, d, a) /\ Parts(Q, d, a) = Parts(P, d, a)
    BY <1>1, <2>1, <2>2, <2>4, <2>5, <2>8 DEF ChangesBy
  <2> QED  BY <2>7, <2>8
<1>3. ASSUME NEW a \in Accounts, In(P[p], a)
      PROVE  /\ bal[a] \in Int /\ M[t][a] \in Int /\ M[t][a] # NoKey
             /\ Claims(Q, t, a) <= M[t][a] + Shown(Q, a)
             /\ M[t][a] <= BudgetOf(a)
  <2>1. SeedOf(P[p], a) \in Int  BY <1>0 DEF Probe, SeedOf
  <2>2. bal[a] \in Int  BY <1>3, <2>1
  <2>3. M[t][a] = bal[a] + w /\ M[t][a] <= BudgetOf(a)  BY <1>3
  <2>4. M[t][a] \in Int /\ M[t][a] # NoKey  BY <2>2, <2>3, BudgetAssumption
  <2>5. Claims(P, t, a) <= bal[a] + Shown(P, a)
    BY <1>3 DEF Kept, Covered, CounterIn, SeedsCover, Seeding, HasRead
  <2>6. Claims(Q, t, a) <= Claims(P, t, a) + w  BY <1>2
  <2>7. Claims(Q, t, a) <= M[t][a] + Shown(Q, a)
    BY <1>1, <2>2, <2>3, <2>5, <2>6
  <2> QED  BY <2>2, <2>3, <2>4, <2>7
<1>4. Covered(Q, M, A)
  <2> SUFFICES ASSUME NEW d \in Days, NEW a \in Accounts
               PROVE  Claims(Q, d, a) <= CounterIn(M, A, d, a) + Shown(Q, a)
    BY DEF Covered
  <2>1. CASE d = t /\ In(P[p], a)  BY <1>3, <2>1 DEF CounterIn
  <2>2. CASE ~(d = t /\ In(P[p], a))
    <3>1. Claims(P, d, a) <= CounterIn(L, A, d, a) + Shown(P, a)  BY DEF Kept, Covered
    <3>2. CounterIn(M, A, d, a) = CounterIn(L, A, d, a)  BY <2>2 DEF CounterIn
    <3> QED  BY <1>1, <1>2, <2>2, <3>1, <3>2
  <2> QED  BY <2>1, <2>2
<1>5. Granting(Q)
  <2> SUFFICES ASSUME NEW d \in Days, NEW a \in Accounts
               PROVE  Parts(Q, d, a) <= BudgetOf(a) + Shown(Q, a)
    BY DEF Granting
  <2>1. BudgetOf(a) \in Int  BY BudgetAssumption DEF BudgetOf
  <2>2. CASE d = t /\ In(P[p], a)
    <3>1. Parts(Q, t, a) <= Claims(Q, t, a)  BY PartsWithinClaims
    <3>2. Claims(Q, t, a) <= M[t][a] + Shown(Q, a) /\ M[t][a] <= BudgetOf(a) /\ M[t][a] \in Int
      BY <1>3, <2>2
    <3> QED  BY <1>1, <2>1, <2>2, <3>1, <3>2
  <2>3. CASE ~(d = t /\ In(P[p], a))
    <3>1. Parts(P, d, a) <= BudgetOf(a) + Shown(P, a)  BY DEF Kept, Granting
    <3> QED  BY <1>1, <1>2, <2>3, <3>1
  <2> QED  BY <2>2, <2>3
<1>6. NotedCovers(Q, A, t)  BY <1>1 DEF Kept, NotedCovers
<1>7. SeedsCover(Q, M, t)
  <2> SUFFICES ASSUME NEW q \in Probes, NEW a \in Accounts, Seeding(Q[q], a)
               PROVE  /\ 0 <= SeedOf(Q[q], a) + Shown(Q, a)
                      /\ M[t][a] = NoKey => Claims(Q, t, a) <= SeedOf(Q[q], a) + Shown(Q, a)
    BY DEF SeedsCover
  <2>1. Q[q] = P[q]  BY DEF Seeding, HasRead
  <2>2. /\ 0 <= SeedOf(P[q], a) + Shown(P, a)
        /\ L[t][a] = NoKey => Claims(P, t, a) <= SeedOf(P[q], a) + Shown(P, a)
    BY <2>1 DEF Kept, SeedsCover
  <2>3. M[t][a] = NoKey => ~In(P[p], a) /\ L[t][a] = NoKey  BY <1>3
  <2> QED  BY <1>1, <1>2, <2>1, <2>2, <2>3
<1>8. KeysStay(Q, M)
  <2> SUFFICES ASSUME NEW q \in Probes, Open(Q[q])
               PROVE  M[Q[q].day][Q[q].channel] # NoKey /\ M[Q[q].day][All] # NoKey
    BY DEF KeysStay
  <2>0. /\ Q[q].channel \in Accounts /\ All \in Accounts /\ Q[q].day \in Days
        /\ P[p].channel \in Accounts
    <3>1. Q[q] \in Probe  OBVIOUS
    <3> QED  BY <1>0, <3>1 DEF Probe, Accounts
  <2>1. \A d \in Days : \A a \in Accounts : L[d][a] # NoKey => M[d][a] # NoKey  BY <1>3
  <2>2. CASE q = p
    <3>1. Q[q].day = t  BY <2>2 DEF Open
    <3>2. In(P[p], Q[q].channel) /\ In(P[p], All)  BY <2>2 DEF In
    <3> QED  BY <1>3, <2>0, <3>1, <3>2
  <2>3. CASE q # p
    <3>1. Q[q] = P[q]  BY <2>3
    <3>2. L[Q[q].day][Q[q].channel] # NoKey /\ L[Q[q].day][All] # NoKey
      BY <3>1 DEF Kept, KeysStay
    <3> QED  BY <2>0, <2>1, <3>2
  <2> QED  BY <2>2, <2>3
<1> QED  BY <1>4, <1>5, <1>6, <1>7, <1>8 DEF Kept

\* The settlement: the ledger moves by no less than the claim does.
LEMMA AdjustStep ==
  ASSUME NEW P, NEW Q, NEW L, NEW M, NEW A, NEW t,
         Books(P, L, A, t), Books(Q, M, A, t), Kept(P, L, A, t),
         NEW p \in Probes, \A q \in Probes \ {p} : Q[q] = P[q],
         P[p].at = "settle", Q[p].at = "done",
         Q[p].channel = P[p].channel, Q[p].held = P[p].held, Q[p].day = P[p].day,
         Q[p].lost = P[p].lost, Q[p].stage = P[p].stage, Q[p].charged = P[p].charged,
         Q[p].cost = P[p].cost, Q[p].moved = P[p].moved,
         NEW n \in Nat, DueOf(Q[p]) <= n,
         NEW d0, d0 = P[p].day, NEW c0, c0 = P[p].channel,
         \/ NoKey \in {L[d0][c0], L[d0][All]} /\ M = L
         \/ /\ NoKey \notin {L[d0][c0], L[d0][All]}
            /\ \A d \in Days : \A a \in Accounts :
                  M[d][a] = IF d = d0 /\ In(P[p], a) THEN AtLeastZero(L[d][a] + (n - P[p].held))
                            ELSE L[d][a]
  PROVE  Kept(Q, M, A, t)
<1> USE DEF Books
<1>0. /\ P[p] \in Probe /\ Q[p] \in Probe /\ P[p].held \in Nat /\ DueOf(Q[p]) \in Int
      /\ c0 \in Accounts /\ All \in Accounts /\ d0 \in Days
  <2>1. P[p] \in Probe /\ Q[p] \in Probe  OBVIOUS
  <2>2. /\ P[p].held \in Nat /\ Q[p].held \in Nat /\ Q[p].charged \in Nat
        /\ c0 \in Accounts /\ All \in Accounts /\ d0 \in Days
    BY <2>1 DEF Probe, Accounts
  <2>3. DueOf(Q[p]) \in Int  BY <2>2 DEF DueOf, Least
  <2> QED  BY <2>1, <2>2, <2>3
<1>1. ASSUME NEW d \in Days, NEW a \in Accounts
      PROVE  /\ Shown(Q, a) = Shown(P, a) /\ Paid(Q, d, a) = Paid(P, d, a)
             /\ Shown(P, a) \in Int /\ Claims(P, d, a) \in Int /\ Claims(Q, d, a) \in Int
             /\ Parts(P, d, a) \in Int /\ Parts(Q, d, a) \in Int
             /\ NotedIn(A, d, a) \in Int
             /\ Claims(Q, d, a) = Claims(P, d, a) + (ClaimOf(Q[p], d, a) - ClaimOf(P[p], d, a))
             /\ Parts(Q, d, a) <= Parts(P, d, a)
  <2>1. Shown(P, a) \in Int /\ Claims(P, d, a) \in Int /\ Paid(P, d, a) \in Int /\ Parts(P, d, a) \in Int
    BY SumTypes
  <2>2. Claims(Q, d, a) \in Int /\ Parts(Q, d, a) \in Int  BY SumTypes
  <2>3. /\ ShownOf(P[p], a) \in Int /\ ShownOf(Q[p], a) = ShownOf(P[p], a)
        /\ PaidOf(P[p], d, a) \in Int /\ PaidOf(Q[p], d, a) = PaidOf(P[p], d, a)
    <3>1. ShownOf(P[p], a) \in Nat /\ PaidOf(P[p], d, a) \in Nat  BY <1>0, RecordTypes
    <3> QED  BY <3>1 DEF ShownOf, PaidOf, In
  <2>4. PartOf(Q[p], d, a) \in Int /\ PartOf(P[p], d, a) \in Int  BY <1>0, RecordTypes
  <2>5. PartOf(Q[p], d, a) <= PartOf(P[p], d, a)
    <3>1. Q[p].charged \in Nat  BY <1>0 DEF Probe
    <3>2. Least(Q[p].charged, Q[p].held) <= P[p].held  BY <1>0, <3>1 DEF Least
    <3> QED  BY <1>0, <3>1, <3>2 DEF PartOf, Reserves, In
  <2>6. ChangesBy(P, Q, p, d, a)  BY OneProbe
  <2>7. Shown(Q, a) = Shown(P, a) /\ Paid(Q, d, a) = Paid(P, d, a)
    BY <2>1, <2>3, <2>6 DEF ChangesBy
  <2>8. Parts(Q, d, a) <= Parts(P, d, a)  BY <2>1, <2>4, <2>5, <2>6 DEF ChangesBy
  <2>9. Claims(Q, d, a) = Claims(P, d, a) + (ClaimOf(Q[p], d, a) - ClaimOf(P[p], d, a))
    BY <2>6 DEF ChangesBy
  <2> QED  BY <2>1, <2>2, <2>7, <2>8, <2>9, NotedType
<1>2. ASSUME NEW d \in Days, NEW a \in Accounts
      PROVE  /\ ClaimOf(Q[p], d, a) \in Int /\ ClaimOf(P[p], d, a) \in Int
             /\ Reserves(P[p], d, a) =>
                   ClaimOf(Q[p], d, a) - ClaimOf(P[p], d, a) <= n - P[p].held
             /\ ~Reserves(P[p], d, a) \/ P[p].lost => ClaimOf(Q[p], d, a) <= ClaimOf(P[p], d, a)
  <2>1. ClaimOf(Q[p], d, a) \in Int /\ ClaimOf(P[p], d, a) \in Int  BY <1>0, RecordTypes
  <2>2. Reserves(Q[p], d, a) <=> Reserves(P[p], d, a)  BY DEF Reserves, In
  <2>3. CASE ~Reserves(P[p], d, a)
    <3>1. ClaimOf(Q[p], d, a) = 0 /\ ClaimOf(P[p], d, a) = 0  BY <2>2, <2>3 DEF ClaimOf
    <3> QED  BY <2>3, <3>1
  <2>4. CASE Reserves(P[p], d, a) /\ P[p].lost
    <3>1. ClaimOf(Q[p], d, a) = -P[p].held /\ ClaimOf(P[p], d, a) = 0
      BY <2>2, <2>4 DEF ClaimOf
    <3> QED  BY <1>0, <2>4, <3>1
  <2>5. CASE Reserves(P[p], d, a) /\ ~P[p].lost
    <3>1. ClaimOf(Q[p], d, a) = DueOf(Q[p]) /\ ClaimOf(P[p], d, a) = P[p].held
      BY <2>2, <2>5 DEF ClaimOf
    <3>2. DueOf(Q[p]) - P[p].held <= n - P[p].held  BY <1>0
    <3> QED  BY <2>1, <2>5, <3>1, <3>2
  <2> QED  BY <2>1, <2>3, <2>4, <2>5
\* Without the keys there is nothing left to claim.
<1>3. NoKey \in {L[d0][c0], L[d0][All]} => P[p].held = 0 \/ P[p].lost
  BY <1>0 DEF Kept, KeysStay, Open
<1>4. ASSUME NEW d \in Days, NEW a \in Accounts
      PROVE  /\ M[d][a] = NoKey <=> L[d][a] = NoKey
             /\ M[d][a] = NoKey => Claims(Q, d, a) <= Claims(P, d, a)
             /\ M[d][a] # NoKey => Claims(Q, d, a) - Claims(P, d, a) <= M[d][a] - L[d][a]
  <2>1. CASE NoKey \in {L[d0][c0], L[d0][All]}
    <3>1. M = L  BY <2>1
    <3>2. ~Reserves(P[p], d, a) \/ P[p].lost  BY <1>0, <1>3, <2>1 DEF Reserves
    <3>3. Claims(Q, d, a) <= Claims(P, d, a)  BY <1>1, <1>2, <3>2
    <3>4. L[d][a] # NoKey => M[d][a] - L[d][a] = 0  BY <3>1
    <3> QED  BY <1>1, <3>1, <3>3, <3>4
  <2>2. CASE NoKey \notin {L[d0][c0], L[d0][All]}
    <3>1. M[d][a] = IF d = d0 /\ In(P[p], a) THEN AtLeastZero(L[d][a] + (n - P[p].held)) ELSE L[d][a]
      BY <2>2
    <3>2. CASE d = d0 /\ In(P[p], a)
      <4>1. L[d][a] \in Int  BY <1>0, <2>2, <3>2 DEF In
      <4>2. M[d][a] \in Int /\ n - P[p].held <= M[d][a] - L[d][a]
        BY <1>0, <3>1, <3>2, <4>1 DEF AtLeastZero
      <4>3. M[d][a] # NoKey /\ L[d][a] # NoKey  BY <4>1, <4>2, BudgetAssumption
      <4>4. ClaimOf(Q[p], d, a) - ClaimOf(P[p], d, a) <= n - P[p].held
        <5>1. CASE Reserves(P[p], d, a)  BY <1>2, <5>1
        <5>2. CASE ~Reserves(P[p], d, a)
          <6>1. P[p].held = 0  BY <1>0, <3>2, <5>2 DEF Reserves
          <6>2. ClaimOf(Q[p], d, a) <= ClaimOf(P[p], d, a)  BY <1>2, <5>2
          <6> QED  BY <1>2, <6>1, <6>2
        <5> QED  BY <5>1, <5>2
      <4>5. Claims(Q, d, a) - Claims(P, d, a) <= M[d][a] - L[d][a]
        BY <1>0, <1>1, <1>2, <4>1, <4>2, <4>4
      <4> QED  BY <4>3, <4>5
    <3>3. CASE ~(d = d0 /\ In(P[p], a))
      <4>1. M[d][a] = L[d][a] /\ ~Reserves(P[p], d, a)  BY <3>1, <3>3 DEF Reserves
      <4>2. Claims(Q, d, a) <= Claims(P, d, a)  BY <1>1, <1>2, <4>1
      <4>3. L[d][a] # NoKey => M[d][a] - L[d][a] = 0  BY <4>1
      <4> QED  BY <1>1, <4>1, <4>2, <4>3
    <3> QED  BY <3>2, <3>3
  <2> QED  BY <2>1, <2>2
<1>5. Covered(Q, M, A)
  <2> SUFFICES ASSUME NEW d \in Days, NEW a \in Accounts
               PROVE  Claims(Q, d, a) <= CounterIn(M, A, d, a) + Shown(Q, a)
    BY DEF Covered
  <2>1. Claims(P, d, a) <= CounterIn(L, A, d, a) + Shown(P, a)  BY DEF Kept, Covered
  <2>2. CASE M[d][a] = NoKey
    <3>1. CounterIn(L, A, d, a) = NotedIn(A, d, a) /\ CounterIn(M, A, d, a) = NotedIn(A, d, a)
      BY <1>4, <2>2 DEF CounterIn
    <3> QED  BY <1>1, <1>4, <2>1, <2>2, <3>1
  <2>3. CASE M[d][a] # NoKey
    <3>1. CounterIn(L, A, d, a) = L[d][a] /\ CounterIn(M, A, d, a) = M[d][a]
      BY <1>4, <2>3 DEF CounterIn
    <3>2. L[d][a] \in Int /\ M[d][a] \in Int  BY <1>4, <2>3
    <3> QED  BY <1>1, <1>4, <2>1, <2>3, <3>1, <3>2
  <2> QED  BY <2>2, <2>3
<1>6. Granting(Q)
  <2> SUFFICES ASSUME NEW d \in Days, NEW a \in Accounts
               PROVE  Parts(Q, d, a) <= BudgetOf(a) + Shown(Q, a)
    BY DEF Granting
  <2>1. Parts(P, d, a) <= BudgetOf(a) + Shown(P, a)  BY DEF Kept, Granting
  <2>2. BudgetOf(a) \in Int  BY BudgetAssumption DEF BudgetOf
  <2> QED  BY <1>1, <2>1, <2>2
<1>7. NotedCovers(Q, A, t)  BY <1>1 DEF Kept, NotedCovers
<1>8. SeedsCover(Q, M, t)
  <2> SUFFICES ASSUME NEW q \in Probes, NEW a \in Accounts, Seeding(Q[q], a)
               PROVE  /\ 0 <= SeedOf(Q[q], a) + Shown(Q, a)
                      /\ M[t][a] = NoKey => Claims(Q, t, a) <= SeedOf(Q[q], a) + Shown(Q, a)
    BY DEF SeedsCover
  <2>1. Q[q] = P[q]  BY DEF Seeding, HasRead
  <2>2. /\ 0 <= SeedOf(P[q], a) + Shown(P, a)
        /\ L[t][a] = NoKey => Claims(P, t, a) <= SeedOf(P[q], a) + Shown(P, a)
    BY <2>1 DEF Kept, SeedsCover
  <2>3. SeedOf(P[q], a) \in Int
    <3>1. P[q] \in Probe  OBVIOUS
    <3> QED  BY <3>1 DEF Probe, SeedOf
  <2>4. CASE M[t][a] = NoKey
    <3>1. Claims(P, t, a) <= SeedOf(P[q], a) + Shown(P, a) /\ Claims(Q, t, a) <= Claims(P, t, a)
      BY <1>4, <2>2, <2>4
    <3> QED  BY <1>1, <2>1, <2>2, <2>3, <3>1
  <2> QED  BY <1>1, <2>1, <2>2, <2>4
<1>9. KeysStay(Q, M)
  <2> SUFFICES ASSUME NEW q \in Probes, Open(Q[q])
               PROVE  M[Q[q].day][Q[q].channel] # NoKey /\ M[Q[q].day][All] # NoKey
    BY DEF KeysStay
  <2>1. Q[q] = P[q]  BY DEF Open
  <2>2. L[P[q].day][P[q].channel] # NoKey /\ L[P[q].day][All] # NoKey
    BY <2>1 DEF Kept, KeysStay
  <2>3. P[q].channel \in Accounts /\ P[q].day \in Days
    <3>1. P[q] \in Probe  OBVIOUS
    <3> QED  BY <3>1 DEF Probe, Accounts
  <2> QED  BY <1>0, <1>4, <2>1, <2>2, <2>3
<1> QED  BY <1>5, <1>6, <1>7, <1>8, <1>9 DEF Kept

\* The loss of the keys excuses every amount the audit has not noted.
LEMMA LoseStep ==
  ASSUME NEW P, NEW Q, NEW L, NEW M, NEW A, NEW t,
         Books(P, L, A, t), Books(Q, M, A, t), Kept(P, L, A, t),
         \A d \in Days : \A a \in Accounts : M[d][a] = NoKey,
         NEW S,
         \A p \in S : /\ P[p].at = "done" /\ P[p].stage = "ok" /\ ~P[p].moved /\ P[p].day = t
                      /\ \A q \in Probes : \A a \in Accounts :
                            Seeding(P[q], a) => SeedOf(P[q], a) = NotedIn(A, t, a),
         \A p \in Probes :
            /\ Q[p].at = P[p].at /\ Q[p].channel = P[p].channel /\ Q[p].held = P[p].held
            /\ Q[p].day = P[p].day /\ Q[p].stage = P[p].stage /\ Q[p].charged = P[p].charged
            /\ Q[p].cost = P[p].cost /\ Q[p].moved = P[p].moved /\ Q[p].settled = P[p].settled
            /\ Q[p].seeds = P[p].seeds /\ Q[p].manual = P[p].manual
            /\ P[p].lost => Q[p].lost
            /\ P[p].held > 0 /\ p \notin S => Q[p].lost
  PROVE  Kept(Q, M, A, t)
<1> USE DEF Books
<1>0. ASSUME NEW p \in Probes
      PROVE  /\ P[p] \in Probe /\ Q[p] \in Probe /\ P[p].held \in Nat /\ P[p].charged \in Nat
             /\ -P[p].held <= 0
             /\ Least(P[p].charged, P[p].held) <= P[p].charged
             /\ Least(P[p].charged, P[p].held) <= P[p].held
             /\ -P[p].held <= Least(P[p].charged, P[p].held)
  <2>1. P[p] \in Probe /\ Q[p] \in Probe  OBVIOUS
  <2>2. P[p].held \in Nat /\ P[p].charged \in Nat  BY <2>1 DEF Probe
  <2> QED  BY <2>1, <2>2 DEF Least
<1>1. ASSUME NEW p \in Probes, NEW d \in Days, NEW a \in Accounts
      PROVE  /\ ClaimOf(Q[p], d, a) \in Int /\ PaidOf(P[p], d, a) \in Int
             /\ ClaimOf(Q[p], d, a) <= PaidOf(P[p], d, a)
             /\ d # t \/ S = {} => ClaimOf(Q[p], d, a) <= 0
  <2>1. ClaimOf(Q[p], d, a) \in Int /\ PaidOf(P[p], d, a) \in Nat  BY <1>0, RecordTypes
  <2>2. Reserves(Q[p], d, a) <=> Reserves(P[p], d, a)  BY DEF Reserves, In
  <2>3. CASE ~Reserves(P[p], d, a) \/ Q[p].lost
    <3>1. ClaimOf(Q[p], d, a) \in {0, -P[p].held}  BY <2>2, <2>3 DEF ClaimOf
    <3>2. ClaimOf(Q[p], d, a) <= 0  BY <1>0, <3>1
    <3> QED  BY <2>1, <3>2
  <2>4. CASE Reserves(P[p], d, a) /\ ~Q[p].lost
    <3>1. p \in S /\ d = t  BY <2>4 DEF Reserves
    <3>2. ClaimOf(Q[p], d, a) = DueOf(Q[p])  BY <2>2, <2>4, <3>1 DEF ClaimOf
    <3>3. PaidOf(P[p], d, a) = P[p].charged  BY <2>4, <3>1 DEF PaidOf, Reserves
    <3>4. DueOf(Q[p]) \in {P[p].charged, Least(P[p].charged, P[p].held)}
      BY <3>1 DEF DueOf
    <3>5. DueOf(Q[p]) <= P[p].charged  BY <1>0, <3>4
    <3> QED  BY <2>1, <3>1, <3>2, <3>3, <3>5
  <2> QED  BY <2>3, <2>4
<1>2. ASSUME NEW d \in Days, NEW a \in Accounts
      PROVE  /\ Claims(Q, d, a) <= Paid(P, d, a)
             /\ d # t \/ S = {} => Claims(Q, d, a) <= 0
  <2> DEFINE f == [p \in Probes |-> ClaimOf(Q[p], d, a)]
             g == [p \in Probes |-> PaidOf(P[p], d, a)]
             z == [p \in Probes |-> 0]
  <2>1. f \in [Probes -> Int] /\ g \in [Probes -> Int] /\ \A p \in Probes : f[p] <= g[p]
    BY <1>1
  <2>2. Claims(Q, d, a) = SumFunction(f) /\ Paid(P, d, a) = SumFunction(g)  BY DEF Claims, Paid
  <2>3. IsFiniteSet(Probes)  BY BudgetAssumption
  <2>4. z \in [Probes -> Int] /\ \A p \in Probes : z[p] = 0  OBVIOUS
  <2>5. d # t \/ S = {} => \A p \in Probes : f[p] <= z[p]  BY <1>1
  <2> HIDE DEF f, g, z
  <2>6. SumFunction(f) <= SumFunction(g)  BY <2>1, <2>3, SumMonotone
  <2>7. d # t \/ S = {} => SumFunction(f) <= SumFunction(z)  BY <2>1, <2>3, <2>4, <2>5, SumMonotone
  <2>8. SumFunction(z) = 0  BY <2>3, <2>4, SumOfZeros
  <2> QED  BY <2>2, <2>6, <2>7, <2>8
<1>3. ASSUME NEW d \in Days, NEW a \in Accounts
      PROVE  /\ Shown(Q, a) = Shown(P, a) /\ Paid(Q, d, a) = Paid(P, d, a)
             /\ Parts(Q, d, a) <= Parts(P, d, a)
             /\ Shown(P, a) \in Int /\ Claims(Q, d, a) \in Int /\ Paid(P, d, a) \in Int
             /\ Parts(P, d, a) \in Int /\ Parts(Q, d, a) \in Int
             /\ NotedIn(A, d, a) \in Int
  <2>1. Shown(P, a) \in Int /\ Paid(P, d, a) \in Int /\ Parts(P, d, a) \in Int  BY SumTypes
  <2>2. Claims(Q, d, a) \in Int /\ Parts(Q, d, a) \in Int  BY SumTypes
  <2>3. \A p \in Probes : ShownOf(Q[p], a) = ShownOf(P[p], a) /\ PaidOf(Q[p], d, a) = PaidOf(P[p], d, a)
    BY DEF ShownOf, PaidOf, In
  <2>4. Shown(Q, a) = Shown(P, a) /\ Paid(Q, d, a) = Paid(P, d, a)  BY <2>3 DEF Shown, Paid
  <2>5. Parts(Q, d, a) <= Parts(P, d, a)
    <3> DEFINE f == [p \in Probes |-> PartOf(Q[p], d, a)]
               g == [p \in Probes |-> PartOf(P[p], d, a)]
    <3>1. \A p \in Probes : PartOf(Q[p], d, a) \in Int /\ PartOf(P[p], d, a) \in Int
      BY <1>0, RecordTypes
    <3>2. f \in [Probes -> Int] /\ g \in [Probes -> Int]  BY <3>1
    <3>3. ASSUME NEW p \in Probes  PROVE PartOf(Q[p], d, a) <= PartOf(P[p], d, a)
      <4>1. Reserves(Q[p], d, a) <=> Reserves(P[p], d, a)  BY DEF Reserves, In
      <4>2. CASE Q[p].lost = P[p].lost
        <5>1. PartOf(Q[p], d, a) = PartOf(P[p], d, a)  BY <4>1, <4>2 DEF PartOf
        <5> QED  BY <3>1, <5>1
      <4>3. CASE Q[p].lost /\ ~P[p].lost
        <5>1. \A m \in Int : m <= m  OBVIOUS
        <5> QED  BY <1>0, <4>1, <4>3, <5>1 DEF PartOf
      <4>4. Q[p].lost \in BOOLEAN /\ P[p].lost \in BOOLEAN  BY <1>0 DEF Probe
      <4> QED  BY <4>2, <4>3, <4>4
    <3>4. \A p \in Probes : f[p] <= g[p]  BY <3>3
    <3>5. Parts(Q, d, a) = SumFunction(f) /\ Parts(P, d, a) = SumFunction(g)  BY DEF Parts
    <3>6. IsFiniteSet(Probes)  BY BudgetAssumption
    <3> HIDE DEF f, g
    <3>7. SumFunction(f) <= SumFunction(g)  BY <3>2, <3>4, <3>6, SumMonotone
    <3> QED  BY <3>5, <3>7
  <2> QED  BY <2>1, <2>2, <2>4, <2>5, NotedType
<1>4. Covered(Q, M, A)
  <2> SUFFICES ASSUME NEW d \in Days, NEW a \in Accounts
               PROVE  Claims(Q, d, a) <= CounterIn(M, A, d, a) + Shown(Q, a)
    BY DEF Covered
  <2>1. CounterIn(M, A, d, a) = NotedIn(A, d, a)  BY DEF CounterIn
  <2>2. 0 <= NotedIn(A, d, a) + Shown(P, a) /\ Paid(P, t, a) <= NotedIn(A, t, a) + Shown(P, a)
    BY DEF Kept, NotedCovers
  <2>3. CASE d = t  BY <1>2, <1>3, <2>1, <2>2, <2>3
  <2>4. CASE d # t  BY <1>2, <1>3, <2>1, <2>2, <2>4
  <2> QED  BY <2>3, <2>4
<1>5. Granting(Q)
  <2> SUFFICES ASSUME NEW d \in Days, NEW a \in Accounts
               PROVE  Parts(Q, d, a) <= BudgetOf(a) + Shown(Q, a)
    BY DEF Granting
  <2>1. Parts(P, d, a) <= BudgetOf(a) + Shown(P, a)  BY DEF Kept, Granting
  <2>2. BudgetOf(a) \in Int  BY BudgetAssumption DEF BudgetOf
  <2> QED  BY <1>3, <2>1, <2>2
<1>6. NotedCovers(Q, A, t)  BY <1>3 DEF Kept, NotedCovers
<1>7. SeedsCover(Q, M, t)
  <2> SUFFICES ASSUME NEW q \in Probes, NEW a \in Accounts, Seeding(Q[q], a)
               PROVE  0 <= SeedOf(Q[q], a) + Shown(Q, a) /\ Claims(Q, t, a) <= SeedOf(Q[q], a) + Shown(Q, a)
    BY DEF SeedsCover
  <2>1. Seeding(P[q], a) /\ Q[q].seeds = P[q].seeds  BY DEF Seeding, HasRead, In
  <2>2. 0 <= SeedOf(P[q], a) + Shown(P, a)  BY <2>1 DEF Kept, SeedsCover
  <2>3. SeedOf(Q[q], a) = SeedOf(P[q], a) /\ SeedOf(P[q], a) \in Int
    <3>1. P[q] \in Probe  OBVIOUS
    <3> QED  BY <2>1, <3>1 DEF Probe, SeedOf
  <2>4. CASE S = {}
    <3>1. Claims(Q, t, a) <= 0  BY <1>2, <2>4
    <3> QED  BY <1>3, <2>2, <2>3, <3>1
  <2>5. CASE S # {}
    <3>1. SeedOf(P[q], a) = NotedIn(A, t, a)  BY <2>1, <2>5
    <3>2. Claims(Q, t, a) <= NotedIn(A, t, a) + Shown(Q, a)
      BY <1>4 DEF Covered, CounterIn
    <3> QED  BY <1>3, <2>2, <2>3, <3>1, <3>2
  <2> QED  BY <2>4, <2>5
<1>8. KeysStay(Q, M)  BY DEF KeysStay, Open
<1> QED  BY <1>4, <1>5, <1>6, <1>7, <1>8 DEF Kept

-----------------------------------------------------------------------------
(* The invariant of the budget, and the steps that keep it                 *)

Sound(P, t) == \A p \in Probes : Fit(P[p]) /\ P[p].day <= t

BudgetInv ==
    /\ Books(probe, ledger, audit, today)
    /\ Sound(probe, today)
    /\ Kept(probe, ledger, audit, today)

\* What was reserved for the probe, and where, stays.
Carries(r, old) ==
    /\ r.channel = old.channel /\ r.held = old.held /\ r.day = old.day /\ r.lost = old.lost
Measures(r, old) ==
    /\ r.stage = old.stage /\ r.charged = old.charged /\ r.cost = old.cost /\ r.moved = old.moved
    /\ r.settled = old.settled

\* A change of one probe that the sums do not feel, or only as a relief.
Calm(r, old) ==
    /\ Lighter(r, old)
    /\ \A a \in Accounts : Seeding(r, a) =>
          \/ Seeding(old, a) /\ SeedOf(r, a) = SeedOf(old, a)
          \/ SeedOf(r, a) = NotedIn(audit, today, a)
    /\ Open(r) => Open(old) /\ r.day = old.day /\ r.channel = old.channel
    /\ \A d \in Days : \A a \in Accounts : PaidOf(r, d, a) = PaidOf(old, d, a)

\* A record that stays.
LEMMA SelfCalm == ASSUME NEW r \in Probe  PROVE Calm(r, r)
<1>1. \A d \in Days : \A a \in Accounts :
         ClaimOf(r, d, a) \in Int /\ PartOf(r, d, a) \in Int /\ ShownOf(r, a) \in Int
  BY RecordTypes
<1>2. \A n \in Int : n <= n  OBVIOUS
<1> QED  BY <1>1, <1>2 DEF Calm, Lighter

\* Before its end a probe claims all it holds, whatever it measures.
LEMMA RunningLighter ==
  ASSUME NEW r \in Probe, NEW old \in Probe, Carries(r, old), r.at # "done", old.at # "done",
         old.stage # "ok"
  PROVE  Lighter(r, old)
<1> SUFFICES ASSUME NEW d \in Days, NEW a \in Accounts
             PROVE  /\ ClaimOf(r, d, a) <= ClaimOf(old, d, a)
                    /\ PartOf(r, d, a) <= PartOf(old, d, a)
                    /\ ShownOf(old, a) <= ShownOf(r, a)
  BY DEF Lighter
<1>1. ClaimOf(r, d, a) = ClaimOf(old, d, a) /\ PartOf(r, d, a) = PartOf(old, d, a)
  BY DEF ClaimOf, PartOf, Reserves, In, Carries
<1>2. ShownOf(old, a) = 0  BY DEF ShownOf
<1>3. ClaimOf(r, d, a) \in Int /\ PartOf(r, d, a) \in Int /\ ShownOf(r, a) \in Nat  BY RecordTypes
<1>4. \A n \in Int : n <= n  OBVIOUS
<1>5. \A n \in Nat : 0 <= n  OBVIOUS
<1> QED  BY <1>1, <1>2, <1>3, <1>4, <1>5

\* A probe that ends without a settlement: its claim falls from all it held.
LEMMA EndCalm ==
  ASSUME NEW r \in Probe, NEW old \in Probe, Carries(r, old), Measures(r, old),
         r.at = "done", old.at # "done", ~old.settled
  PROVE  Calm(r, old)
<1>1. ASSUME NEW d \in Days, NEW a \in Accounts
      PROVE  /\ ClaimOf(r, d, a) <= ClaimOf(old, d, a)
             /\ PartOf(r, d, a) <= PartOf(old, d, a)
             /\ ShownOf(old, a) <= ShownOf(r, a)
             /\ PaidOf(r, d, a) = PaidOf(old, d, a)
  <2>1. r.held \in Nat /\ r.charged \in Nat  BY DEF Probe
  <2>2. Least(r.charged, r.held) <= r.held /\ -r.held <= 0  BY <2>1 DEF Least
  <2>3. Reserves(r, d, a) <=> Reserves(old, d, a)  BY DEF Reserves, In, Carries
  <2>4. DueOf(r) \in {0, Least(r.charged, r.held)}  BY DEF DueOf, Measures
  <2>5. DueOf(r) <= r.held  BY <2>1, <2>2, <2>4
  <2>6. ClaimOf(r, d, a) <= ClaimOf(old, d, a)
    BY <2>1, <2>2, <2>3, <2>5 DEF ClaimOf, Carries
  <2>7. PartOf(r, d, a) <= PartOf(old, d, a)
    BY <2>1, <2>2, <2>3 DEF PartOf, Carries
  <2>8. ShownOf(old, a) = ShownOf(r, a) /\ ShownOf(r, a) \in Nat
    BY RecordTypes DEF ShownOf, In, Carries, Measures
  <2>9. PaidOf(r, d, a) = PaidOf(old, d, a)  BY DEF PaidOf, In, Carries, Measures
  <2>10. \A n \in Nat : n <= n  OBVIOUS
  <2> QED  BY <2>6, <2>7, <2>8, <2>9, <2>10
<1>2. Lighter(r, old)  BY <1>1 DEF Lighter
<1>3. ~Open(r) /\ \A a : ~Seeding(r, a)  BY DEF Open, Seeding, HasRead
<1> QED  BY <1>1, <1>2, <1>3 DEF Calm

\* Steps of any probes that leave the ledger and the audit alone.
LEMMA CalmStep ==
  ASSUME BudgetInv, NEW Q \in [Probes -> Probe], Sound(Q, today),
         \A p \in Probes : Calm(Q[p], probe[p]),
         probe' = Q, UNCHANGED <<ledger, audit, today>>
  PROVE  BudgetInv'
<1> DEFINE P == probe  L == ledger  A == audit  t == today
<1>1. Books(P, L, A, t) /\ Books(Q, L, A, t) /\ Kept(P, L, A, t)  BY DEF BudgetInv, Books
<1>2. \A p \in Probes : Lighter(Q[p], P[p])  BY DEF Calm
<1>3. P \in [Probes -> Probe] /\ t \in Days  BY <1>1 DEF Books
<1>4. ASSUME NEW d \in Days, NEW a \in Accounts
      PROVE  /\ NotedIn(A, d, a) + Shown(P, a) <= NotedIn(A, d, a) + Shown(Q, a)
             /\ Paid(Q, d, a) + (NotedIn(A, d, a) + Shown(P, a))
                  <= Paid(P, d, a) + (NotedIn(A, d, a) + Shown(Q, a))
  <2>1. Shown(P, a) <= Shown(Q, a)  BY <1>2, <1>3, LighterSums
  <2>2. Shown(P, a) \in Int /\ Paid(P, d, a) \in Int  BY <1>3, SumTypes
  <2>3. Shown(Q, a) \in Int  BY SumTypes
  <2>4. NotedIn(A, d, a) \in Int  BY <1>1, NotedType DEF Books
  <2>5. Paid(Q, d, a) = Paid(P, d, a)
    <3>1. [p \in Probes |-> PaidOf(Q[p], d, a)] = [p \in Probes |-> PaidOf(P[p], d, a)]  BY DEF Calm
    <3> QED  BY <3>1 DEF Paid
  <2> HIDE DEF P, A
  <2> QED  BY <2>1, <2>2, <2>3, <2>4, <2>5
<1>5. \A p \in Probes : \A a \in Accounts : Seeding(Q[p], a) =>
         \/ Seeding(P[p], a) /\ SeedOf(Q[p], a) = SeedOf(P[p], a)
         \/ SeedOf(Q[p], a) = NotedIn(A, t, a)
  BY DEF Calm
<1>6. \A p \in Probes : Open(Q[p]) => Open(P[p]) /\ Q[p].day = P[p].day /\ Q[p].channel = P[p].channel
  BY DEF Calm
<1>7. Kept(Q, L, A, t)
  <2> HIDE DEF P, L, A, t
  <2> QED  BY <1>1, <1>2, <1>3, <1>4, <1>5, <1>6, AuditStep
<1> QED  BY <1>1, <1>7 DEF BudgetInv

\* One probe goes on, and may note a cost in the audit.
LEMMA NotingStep ==
  ASSUME BudgetInv, NEW p \in Probes, NEW r \in Probe, Fit(r), Carries(r, probe[p]),
         probe[p].at \notin {"settle", "done"}, r.at \notin {"gate", "reserve", "done"},
         probe' = [probe EXCEPT ![p] = r], UNCHANGED <<ledger, today>>,
         NEW n \in Int, audit' = [audit EXCEPT ![today][Chan(p)] = @ + n],
         \/ r.stage # "ok" /\ n >= 0
         \/ r.stage = "ok" /\ n = r.cost /\ (~r.moved => r.charged = r.cost)
  PROVE  BudgetInv'
<1> DEFINE P == probe  L == ledger  A == audit  t == today  c == Chan(p)
<1>1. Books(P, L, A, t) /\ Kept(P, L, A, t) /\ Sound(P, t)  BY DEF BudgetInv
<1>2. P[p] \in Probe /\ c \in Channels /\ c = r.channel /\ P[p].stage # "ok" /\ t \in Days /\ All \in Accounts
  <2>1. P[p] \in Probe /\ Fit(P[p]) /\ t \in Days  BY <1>1 DEF Books, Sound
  <2> QED  BY <2>1 DEF Probe, Chan, Carries, Fit, Accounts
<1>3. PICK Q : Q = [P EXCEPT ![p] = r]  OBVIOUS
<1>4. Q \in [Probes -> Probe] /\ Q[p] = r /\ \A q \in Probes \ {p} : Q[q] = P[q]
  BY <1>1, <1>3 DEF Books
<1>5. PICK B : B = [A EXCEPT ![t][c] = @ + n]  OBVIOUS
<1>6. A \in [Days -> [Channels -> Int]]  BY <1>1 DEF Books
<1>7. B \in [Days -> [Channels -> Int]]
  <2>1. A[t][c] + n \in Int  BY <1>2, <1>6
  <2> QED  BY <1>2, <1>5, <1>6, <2>1
<1>8. Books(Q, L, B, t)  BY <1>1, <1>4, <1>7 DEF Books
<1> HIDE DEF P, L, A, t, c
<1>9. \A q \in Probes : Calm(P[q], P[q])  BY <1>1, SelfCalm DEF Books
<1>10. Lighter(r, P[p])
  <2>1. r.at # "done" /\ P[p].at # "done" /\ Carries(r, P[p])  BY DEF P
  <2> QED  BY <1>2, <2>1, RunningLighter
<1>11. \A q \in Probes : Lighter(Q[q], P[q])  BY <1>4, <1>9, <1>10 DEF Calm
<1>12. ASSUME NEW d \in Days, NEW a \in Accounts
       PROVE  /\ NotedIn(A, d, a) + Shown(P, a) <= NotedIn(B, d, a) + Shown(Q, a)
              /\ d = t => Paid(Q, d, a) + (NotedIn(A, d, a) + Shown(P, a))
                            <= Paid(P, d, a) + (NotedIn(B, d, a) + Shown(Q, a))
  <2>1. ChangesBy(P, Q, p, d, a)  BY <1>1, <1>4, OneProbe DEF Books
  <2>2. ShownOf(P[p], a) = 0 /\ PaidOf(P[p], d, a) = 0  BY <1>2 DEF ShownOf, PaidOf
  <2>3. PICK s : s = ShownOf(r, a)  OBVIOUS
  <2>4. PICK m : m = PaidOf(r, d, a)  OBVIOUS
  <2>5. s \in Nat /\ m \in Nat  BY <2>3, <2>4, RecordTypes
  <2>6. Shown(P, a) \in Int /\ Paid(P, d, a) \in Int  BY <1>1, SumTypes DEF Books
  <2>7. Shown(Q, a) = Shown(P, a) + s /\ Paid(Q, d, a) = Paid(P, d, a) + m
    BY <1>4, <2>1, <2>2, <2>3, <2>4, <2>5, <2>6 DEF ChangesBy
  <2>8. PICK k : k = IF d = t /\ a \in {c, All} THEN n ELSE 0  OBVIOUS
  <2>9. NotedIn(B, d, a) = NotedIn(A, d, a) + k
    <3>1. AddsNote(A, B, t, c, n, d, a)  BY <1>2, <1>5, <1>6, NoteAdds
    <3> QED  BY <2>8, <3>1 DEF AddsNote
  <2>10. k \in Int /\ NotedIn(A, d, a) \in Int  BY <1>6, <2>8, NotedType
  <2>11. r.cost \in Int /\ r.charged \in Nat  BY DEF Probe
  <2>12. r.cost + AtLeastZero(-r.cost) >= 0 /\ AtLeastZero(-r.cost) \in Nat
    <3>1. -r.cost \in Int /\ r.cost + (-r.cost) = 0  BY <2>11
    <3> QED  BY <2>11, <3>1 DEF AtLeastZero
  <2>13. k + s >= 0 /\ (d = t => m <= k + s)
    <3>1. CASE d = t /\ a \in {c, All} /\ r.stage = "ok"
      <4>1. k = r.cost /\ s = AtLeastZero(-r.cost)  BY <1>2, <2>3, <2>8, <3>1 DEF ShownOf, In
      <4>2. m = 0 \/ (m = r.charged /\ r.charged = r.cost)  BY <2>4 DEF PaidOf
      <4> QED  BY <2>5, <2>11, <2>12, <4>1, <4>2
    <3>2. CASE d = t /\ a \in {c, All} /\ r.stage # "ok"
      <4>1. k = n /\ s = 0 /\ m = 0 /\ n >= 0  BY <2>3, <2>4, <2>8, <3>2 DEF ShownOf, PaidOf
      <4> QED  BY <4>1
    <3>3. CASE ~(d = t /\ a \in {c, All})
      <4>1. k = 0  BY <2>8, <3>3
      <4>2. d = t => m = 0  BY <1>2, <2>4, <3>3 DEF PaidOf, In
      <4> QED  BY <2>5, <4>1, <4>2
    <3> QED  BY <3>1, <3>2, <3>3
  <2>14. NotedIn(A, d, a) + Shown(P, a) <= (NotedIn(A, d, a) + k) + (Shown(P, a) + s)
    BY <2>5, <2>6, <2>10, <2>13
  <2>15. d = t => (Paid(P, d, a) + m) + (NotedIn(A, d, a) + Shown(P, a))
                    <= Paid(P, d, a) + ((NotedIn(A, d, a) + k) + (Shown(P, a) + s))
    BY <2>5, <2>6, <2>10, <2>13
  <2> QED  BY <2>7, <2>9, <2>14, <2>15
<1>13. \A q \in Probes : \A a \in Accounts : Seeding(Q[q], a) =>
          Seeding(P[q], a) /\ SeedOf(Q[q], a) = SeedOf(P[q], a)
  BY <1>4 DEF Seeding, HasRead
<1>14. \A q \in Probes : Open(Q[q]) => Open(P[q]) /\ Q[q].day = P[q].day /\ Q[q].channel = P[q].channel
  <2>1. Open(r) => Open(P[p]) /\ r.day = P[p].day /\ r.channel = P[p].channel
    BY DEF Open, Carries, P
  <2> QED  BY <1>4, <2>1
<1>15. Kept(Q, L, B, t)
  <2>1. \A a \in Accounts : Paid(Q, t, a) + (NotedIn(A, t, a) + Shown(P, a))
                              <= Paid(P, t, a) + (NotedIn(B, t, a) + Shown(Q, a))
    BY <1>2, <1>12
  <2>2. \A d \in Days : \A a \in Accounts :
           NotedIn(A, d, a) + Shown(P, a) <= NotedIn(B, d, a) + Shown(Q, a)
    BY <1>12
  <2> QED  BY <1>1, <1>8, <1>11, <1>13, <1>14, <2>1, <2>2, AuditStep
<1>16. Sound(Q, t)
  <2>1. r.day = P[p].day  BY DEF Carries, P
  <2> QED  BY <1>1, <1>4, <2>1 DEF Sound
<1>17. probe' = Q /\ audit' = B /\ ledger' = L /\ today' = t
  BY <1>3, <1>5 DEF P, A, L, t, c
<1> QED  BY <1>8, <1>15, <1>16, <1>17 DEF BudgetInv

\* What is read as spent is what the audit has noted.
LEMMA SpentIsNoted ==
  ASSUME audit \in [Days -> [Channels -> Int]], today \in Days
  PROVE  /\ SpentToday = NotedIn(audit, today, All) /\ SpentToday \in Int
         /\ \A c \in Channels : SpentOn(c) = NotedIn(audit, today, c) /\ SpentOn(c) \in Int
<1> DEFINE A == audit  t == today
<1>1. SpentToday = NotedIn(A, t, All)
  <2>1. {c \in Channels : All \in {c, All}} = Channels  OBVIOUS
  <2> QED  BY <2>1 DEF SpentToday, SumOver, SpentOn, NotedIn
<1>2. ASSUME NEW c \in Channels  PROVE SpentOn(c) = NotedIn(A, t, c) /\ SpentOn(c) \in Int
  <2>1. {x \in Channels : c \in {x, All}} = {c}  BY BudgetAssumption
  <2> DEFINE f == [x \in {c} |-> A[t][x]]
  <2>2. NotedIn(A, t, c) = SumFunction(f)  BY <2>1 DEF NotedIn
  <2>3. f \in [{c} -> Int] /\ f[c] = SpentOn(c) /\ SpentOn(c) \in Int  BY DEF SpentOn
  <2> HIDE DEF f
  <2>4. IsFiniteSet({c}) /\ {c} \ {c} = {}  BY FS_Singleton
  <2>5. SumFunction(f) = f[c] + SumFunction(Only(f, {}))  BY <2>3, <2>4, SumTakesAny
  <2>6. SumFunction(Only(f, {})) = 0  BY SumOfNone
  <2> QED  BY <2>2, <2>3, <2>5, <2>6
<1>3. NotedIn(A, t, All) \in Int  BY NotedType
<1> QED  BY <1>1, <1>2, <1>3

\* The steps of one probe that leave the ledger and the audit alone.
LEMMA CalmOne ==
  ASSUME BudgetInv, NEW p \in Probes, NEW r \in Probe, Fit(r), r.day = probe[p].day,
         Calm(r, probe[p]), probe' = [probe EXCEPT ![p] = r], UNCHANGED <<ledger, audit, today>>
  PROVE  BudgetInv'
<1>1. probe \in [Probes -> Probe] /\ Sound(probe, today)  BY DEF BudgetInv, Books
<1>2. PICK Q : Q = [probe EXCEPT ![p] = r]  OBVIOUS
<1>3. /\ Q \in [Probes -> Probe] /\ probe' = Q
      /\ Q[p] = r /\ \A q \in Probes \ {p} : Q[q] = probe[q]
  BY <1>1, <1>2
<1>4. \A q \in Probes : Calm(Q[q], probe[q])  BY <1>1, <1>3, SelfCalm
<1>5. Sound(Q, today)  BY <1>1, <1>3 DEF Sound
<1> QED  BY <1>3, <1>4, <1>5, CalmStep

\* A probe that does not begin.
LEMMA NotBegunKeeps ==
  ASSUME BudgetInv, NEW p \in Probes, NotBegun(p), probe[p].at \in {"idle", "gate", "reserve"},
         UNCHANGED <<ledger, audit, today>>
  PROVE  BudgetInv'
<1> DEFINE old == probe[p]
           r == [old EXCEPT !.at = "done", !.wanted = 0, !.seeds = NoSeeds]
<1>1. old \in Probe /\ Fit(old)  BY DEF BudgetInv, Books, Sound
<1>2. probe' = [probe EXCEPT ![p] = r]  BY DEF NotBegun, Becomes
<1>3. r \in Probe /\ r.at = "done" /\ Carries(r, old) /\ Measures(r, old)
  <2>1. NoSeeds \in [{"own", "all"} -> Int]  BY DEF NoSeeds
  <2> QED  BY <1>1, <2>1 DEF Probe, Places, Carries, Measures
<1> HIDE DEF r
<1>4. Fit(r) /\ ~old.settled  BY <1>1, <1>3 DEF Fit, Measures, Unspent
<1>5. Calm(r, old)  BY <1>1, <1>3, <1>4, EndCalm
<1> QED  BY <1>2, <1>3, <1>4, <1>5, CalmOne DEF Carries

\* A sum is what the audit has noted at the moment it is read.
LEMMA SumReadKeeps ==
  ASSUME BudgetInv, NEW p \in Probes, NEW r \in Probe,
         probe[p].at \in {"idle", "gate"}, r.at \in {"gate", "reserve"},
         Carries(r, probe[p]), Measures(r, probe[p]),
         \A a \in Accounts : Seeding(r, a) =>
            \/ Seeding(probe[p], a) /\ SeedOf(r, a) = SeedOf(probe[p], a)
            \/ SeedOf(r, a) = NotedIn(audit, today, a),
         probe' = [probe EXCEPT ![p] = r], UNCHANGED <<ledger, audit, today>>
  PROVE  BudgetInv'
<1> DEFINE old == probe[p]
<1>1. old \in Probe /\ Fit(old)  BY DEF BudgetInv, Books, Sound
<1>2. Fit(r)  BY <1>1 DEF Fit, Carries, Measures, Unspent
<1>3. Lighter(r, old)
  <2>1. old.at # "done" /\ r.at # "done" /\ old.stage # "ok"  BY <1>1 DEF Fit
  <2> QED  BY <1>1, <2>1, RunningLighter
<1>4. \A d \in Days : \A a \in Accounts : PaidOf(r, d, a) = PaidOf(old, d, a)
  BY DEF PaidOf, In, Carries, Measures
<1>5. ~Open(r)
  <2>1. r.held = 0 /\ ~(0 > 0)  BY <1>1 DEF Fit, Carries
  <2> QED  BY <2>1 DEF Open
<1>6. Calm(r, old)  BY <1>3, <1>4, <1>5 DEF Calm
<1>7. r.day = old.day  BY DEF Carries
<1> QED  BY <1>2, <1>6, <1>7, CalmOne

LEMMA ReadSpentKeeps ==
  ASSUME BudgetInv, NEW p \in Probes, ReadFirst(p) \/ ReadSecond(p)
  PROVE  BudgetInv'
<1> DEFINE old == probe[p]
           c == Chan(p)
           own == SpentOn(c)
           all == SpentToday
<1>1. /\ old \in Probe /\ c \in Channels /\ c = old.channel /\ c # All
      /\ (p \in Manual <=> old.manual)
      /\ audit \in [Days -> [Channels -> Int]] /\ today \in Days
  <2>1. old \in Probe /\ audit \in [Days -> [Channels -> Int]] /\ today \in Days
    BY DEF BudgetInv, Books
  <2>2. c = old.channel  BY DEF Chan
  <2>3. old.channel \in Channels
    <3> HIDE DEF old, c, own, all
    <3> QED  BY <2>1 DEF Probe
  <2>4. c # All  BY <2>2, <2>3, BudgetAssumption
  <2>5. p \in Manual <=> old.manual  BY Zenon DEF Manual
  <2> QED  BY <2>1, <2>2, <2>3, <2>4, <2>5
<1>2. UNCHANGED <<ledger, audit, today>>  BY DEF ReadFirst, ReadSecond, dbVars
<1>3. /\ own = NotedIn(audit, today, c) /\ all = NotedIn(audit, today, All)
      /\ own \in Int /\ all \in Int
  BY <1>1, SpentIsNoted
<1>4. CASE ReadFirst(p)
  <2> DEFINE seeds == [own |-> IF p \in Manual THEN 0 ELSE own, all |-> IF p \in Manual THEN all ELSE 0]
             r == [old EXCEPT !.at = "gate", !.seeds = seeds]
  <2>1. old.at = "idle" /\ probe' = [probe EXCEPT ![p] = r]  BY <1>4 DEF ReadFirst, Becomes
  <2>2. /\ seeds \in [{"own", "all"} -> Int]
        /\ p \in Manual => seeds.all = all
        /\ p \notin Manual => seeds.own = own
    <3> HIDE DEF own, all
    <3> QED  BY <1>3
  <2> HIDE DEF seeds
  <2>3. /\ r \in Probe /\ r.at = "gate" /\ r.seeds = seeds /\ r.manual = old.manual
        /\ Carries(r, old) /\ Measures(r, old)
    BY <1>1, <2>2 DEF Probe, Places, Carries, Measures
  <2> HIDE DEF r, own, all
  <2>4. ASSUME NEW a \in Accounts, Seeding(r, a)  PROVE SeedOf(r, a) = NotedIn(audit, today, a)
    <3>1. (a = All <=> p \in Manual) /\ a \in {c, All}
      BY <1>1, <2>3, <2>4 DEF Seeding, HasRead, In, Carries
    <3> QED  BY <1>1, <1>3, <2>2, <2>3, <3>1 DEF SeedOf
  <2> QED  BY <1>2, <2>1, <2>3, <2>4, SumReadKeeps
<1>5. CASE ReadSecond(p)
  <2> DEFINE seeds == BothSums(p)
             wanted == WantedOf(p, seeds)
             r == [old EXCEPT !.at = "reserve", !.seeds = seeds, !.wanted = wanted]
  <2>1. old.at = "gate" /\ wanted > 0 /\ probe' = [probe EXCEPT ![p] = r]
    BY <1>5 DEF ReadSecond, Becomes
  <2>2. old.seeds \in [{"own", "all"} -> Int]  BY <1>1 DEF Probe
  <2>3. /\ seeds \in [{"own", "all"} -> Int]
        /\ IF p \in Manual THEN seeds.own = own /\ seeds.all = old.seeds.all
                           ELSE seeds.own = old.seeds.own /\ seeds.all = all
    <3>1. seeds = [own |-> IF p \in Manual THEN own ELSE old.seeds.own,
                   all |-> IF p \in Manual THEN old.seeds.all ELSE all]
      BY DEF BothSums
    <3> HIDE DEF own, all, seeds
    <3> QED  BY <1>3, <2>2, <3>1
  <2>4. wanted \in Nat
    <3>1. Estimate \in Int /\ ChannelBudget \in Int /\ GlobalBudget \in Int  BY BudgetAssumption
    <3>2. seeds.own \in Int /\ seeds.all \in Int  BY <2>3
    <3> HIDE DEF seeds
    <3>3. ChannelBudget - seeds.own \in Int /\ GlobalBudget - seeds.all \in Int  BY <3>1, <3>2
    <3>4. \A m, n \in Int : Least(m, n) \in Int  BY DEF Least
    <3>5. wanted \in Int  BY <3>1, <3>3, <3>4 DEF WantedOf
    <3> HIDE DEF wanted
    <3> QED  BY <2>1, <3>5
  <2> HIDE DEF seeds, wanted
  <2>5. /\ r \in Probe /\ r.at = "reserve" /\ r.seeds = seeds /\ r.manual = old.manual
        /\ Carries(r, old) /\ Measures(r, old)
    BY <1>1, <2>3, <2>4 DEF Probe, Places, Carries, Measures
  <2> HIDE DEF r, own, all
  <2>6. ASSUME NEW a \in Accounts, Seeding(r, a)
        PROVE  \/ Seeding(old, a) /\ SeedOf(r, a) = SeedOf(old, a)
               \/ SeedOf(r, a) = NotedIn(audit, today, a)
    <3>1. a \in {c, All} /\ In(old, a)  BY <1>1, <2>5, <2>6 DEF Seeding, In, Carries
    <3>2. CASE a = All <=> p \in Manual
      <4>1. Seeding(old, a)  BY <1>1, <2>1, <3>1, <3>2 DEF Seeding, HasRead
      <4>2. SeedOf(r, a) = SeedOf(old, a)  BY <2>3, <2>5, <3>2 DEF SeedOf
      <4> QED  BY <4>1, <4>2
    <3>3. CASE ~(a = All <=> p \in Manual)
      BY <1>1, <1>3, <2>3, <2>5, <3>1, <3>3 DEF SeedOf
    <3> QED  BY <3>2, <3>3
  <2> QED  BY <1>2, <2>1, <2>5, <2>6, SumReadKeeps
<1> QED  BY <1>4, <1>5

\* One probe runs on; the audit may take a cost.
LEMMA GoesKeeps ==
  ASSUME BudgetInv, NEW p \in Probes, NEW place \in Places, Goes(p, place),
         probe[p].at \notin {"settle", "done"},
         place \notin {"idle", "gate", "reserve", "done"},
         place \in Unspent \cup {"chat"} => probe[p].at \in Unspent \cup {"chat"},
         UNCHANGED <<ledger, today>>,
         NEW n \in Nat, audit' = [audit EXCEPT ![today][Chan(p)] = @ + n]
  PROVE  BudgetInv'
<1> DEFINE old == probe[p]
           r == [old EXCEPT !.at = place]
<1>1. old \in Probe /\ Fit(old)  BY DEF BudgetInv, Books, Sound
<1>2. probe' = [probe EXCEPT ![p] = r]  BY DEF Goes, Becomes
<1>3. r \in Probe /\ r.at = place /\ Carries(r, old) /\ Measures(r, old)
  BY <1>1 DEF Probe, Carries, Measures
<1> HIDE DEF r
<1>4. Fit(r) /\ r.stage # "ok"  BY <1>1, <1>3 DEF Fit, Measures
<1>5. n \in Int /\ n >= 0  OBVIOUS
<1> QED  BY <1>2, <1>3, <1>4, <1>5, NotingStep

\* An audit that takes nothing.
LEMMA NothingNoted ==
  ASSUME audit \in [Days -> [Channels -> Int]], today \in Days, NEW p, Chan(p) \in Channels,
         audit' = audit
  PROVE  audit' = [audit EXCEPT ![today][Chan(p)] = @ + 0]
<1>1. audit[today][Chan(p)] + 0 = audit[today][Chan(p)]  OBVIOUS
<1> QED  BY <1>1

\* A probe whose request or reading failed returns, or goes on to note it.
LEMMA FailsKeeps ==
  ASSUME BudgetInv, NEW p \in Probes, NEW place \in {"failure", "settle"},
         NEW stage \in {"balance_before", "balance_after"},
         probe' = [probe EXCEPT ![p] = [probe[p] EXCEPT !.stage = stage, !.at = place]],
         probe[p].at \notin {"settle", "done"},
         stage = "balance_before" => probe[p].at = "before" /\ place = "settle",
         UNCHANGED <<ledger, audit, today>>
  PROVE  BudgetInv'
<1> DEFINE old == probe[p]
           r == [old EXCEPT !.stage = stage, !.at = place]
<1>1. /\ old \in Probe /\ Fit(old) /\ audit \in [Days -> [Channels -> Int]] /\ today \in Days
      /\ Chan(p) \in Channels
  BY DEF BudgetInv, Books, Sound, Chan, Probe
<1>2. probe' = [probe EXCEPT ![p] = r]  OBVIOUS
<1>3. /\ r \in Probe /\ r.at = place /\ r.stage = stage /\ Carries(r, old)
      /\ r.charged = old.charged /\ r.settled = old.settled
  BY <1>1 DEF Probe, Places, Carries
<1> HIDE DEF r
<1>4. Fit(r) /\ r.stage # "ok"  BY <1>1, <1>3 DEF Fit, Unspent
<1>5. audit' = [audit EXCEPT ![today][Chan(p)] = @ + 0]  BY <1>1, NothingNoted
<1>6. 0 \in Int /\ 0 >= 0  OBVIOUS
<1>7. r.at \notin {"gate", "reserve", "done"}  BY <1>3
<1> QED  BY <1>2, <1>3, <1>4, <1>5, <1>6, <1>7, NotingStep

\* Up to the lock, and without it.
LEMMA EarlyKeeps ==
  ASSUME BudgetInv, NEW p \in Probes,
         Skip(p) \/ Connect(p) \/ Lock(p) \/ LockFails(p)
  PROVE  BudgetInv'
<1>1. /\ audit \in [Days -> [Channels -> Int]] /\ today \in Days /\ Chan(p) \in Channels
  BY DEF BudgetInv, Books, Chan, Probe
<1>2. ASSUME NEW place \in Places, Goes(p, place), probe[p].at \in {"connect", "lock"},
             place \in {"lock", "before", "settle"}, UNCHANGED <<ledger, audit, today>>
      PROVE  BudgetInv'
  <2>1. audit' = [audit EXCEPT ![today][Chan(p)] = @ + 0]  BY <1>1, <1>2, NothingNoted
  <2>2. /\ probe[p].at \notin {"settle", "done"} /\ place \notin {"idle", "gate", "reserve", "done"}
        /\ probe[p].at \in Unspent \cup {"chat"} /\ 0 \in Nat
    BY <1>2 DEF Unspent
  <2> QED  BY <1>2, <2>1, <2>2, GoesKeeps
<1>3. CASE Skip(p)  BY <1>3, NotBegunKeeps DEF Skip, dbVars
<1>4. CASE Connect(p)  BY <1>2, <1>4 DEF Connect, Places, dbVars
<1>5. CASE Lock(p)  BY <1>2, <1>5 DEF Lock, Places
<1>6. CASE LockFails(p)  BY <1>2, <1>6 DEF LockFails, Places, dbVars
<1> QED  BY <1>3, <1>4, <1>5, <1>6

\* The two readings of the balance.
LEMMA ReadingsKeep ==
  ASSUME BudgetInv, NEW p \in Probes, BalanceBefore(p) \/ BalanceAfter(p)
  PROVE  BudgetInv'
<1>1. /\ probe[p] \in Probe
      /\ audit \in [Days -> [Channels -> Int]] /\ today \in Days /\ Chan(p) \in Channels
  BY DEF BudgetInv, Books, Chan, Probe
<1>2. UNCHANGED <<ledger, audit, today>>  BY DEF BalanceBefore, BalanceAfter, dbVars
<1>3. ASSUME NEW place \in Places, Goes(p, place),
             \/ probe[p].at = "before" /\ place = "chat"
             \/ probe[p].at = "after" /\ place = "success"
      PROVE  BudgetInv'
  <2>1. audit' = [audit EXCEPT ![today][Chan(p)] = @ + 0]  BY <1>1, <1>2, NothingNoted
  <2>2. /\ probe[p].at \notin {"settle", "done"} /\ place \notin {"idle", "gate", "reserve", "done"}
        /\ place \in Unspent \cup {"chat"} => probe[p].at \in Unspent \cup {"chat"}
        /\ 0 \in Nat
    BY <1>3 DEF Unspent
  <2> QED  BY <1>2, <1>3, <2>1, <2>2, GoesKeeps
<1>4. CASE BalanceBefore(p)
  <2>1. probe[p].at = "before"  BY <1>4 DEF BalanceBefore
  <2>2. CASE Goes(p, "chat")  BY <1>3, <2>1, <2>2 DEF Places
  <2>3. CASE Returns(p, [probe[p] EXCEPT !.stage = "balance_before"])
    <3>1. probe' = [probe EXCEPT ![p] = [probe[p] EXCEPT !.stage = "balance_before", !.at = "settle"]]
      BY <2>3 DEF Returns, Becomes
    <3> QED  BY <1>2, <2>1, <3>1, FailsKeeps
  <2> QED  BY <1>4, <2>2, <2>3 DEF BalanceBefore
<1>5. CASE BalanceAfter(p)
  <2>1. probe[p].at = "after"  BY <1>5 DEF BalanceAfter
  <2>2. CASE Goes(p, "success")  BY <1>3, <2>1, <2>2 DEF Places
  <2>3. CASE Becomes(p, [probe[p] EXCEPT !.at = "failure", !.stage = "balance_after"])
    <3>1. [probe[p] EXCEPT !.at = "failure", !.stage = "balance_after"]
            = [probe[p] EXCEPT !.stage = "balance_after", !.at = "failure"]
      BY <1>1 DEF Probe
    <3>2. probe' = [probe EXCEPT ![p] = [probe[p] EXCEPT !.stage = "balance_after", !.at = "failure"]]
      BY <2>3, <3>1 DEF Becomes
    <3> QED  BY <1>2, <2>1, <3>2, FailsKeeps
  <2> QED  BY <1>5, <2>2, <2>3 DEF BalanceAfter
<1> QED  BY <1>4, <1>5

\* The request: the charge is within the claim until the probe has ended.
LEMMA SpendingKeeps ==
  ASSUME BudgetInv, MeasureInv, NEW p \in Probes, Chat(p)
  PROVE  BudgetInv'
<1> DEFINE old == probe[p]
<1>1. /\ old \in Probe /\ Fit(old) /\ old.at = "chat"
      /\ audit \in [Days -> [Channels -> Int]] /\ today \in Days /\ Chan(p) \in Channels
      /\ UNCHANGED <<ledger, audit, today>>
  BY DEF BudgetInv, Books, Sound, Chan, Probe, Chat, dbVars
<1>2. PICK charge \in Charges : \E r :
         /\ \/ r = [[old EXCEPT !.cost = @ + charge] EXCEPT !.at = "after", !.charged = charge]
            \/ r = [[old EXCEPT !.cost = @ + charge] EXCEPT !.at = "failure",
                                       !.charged = charge, !.stage = "chat"]
         /\ probe' = [probe EXCEPT ![p] = r]
  BY ChatChanges
<1>3. PICK r :
         /\ \/ r = [[old EXCEPT !.cost = @ + charge] EXCEPT !.at = "after", !.charged = charge]
            \/ r = [[old EXCEPT !.cost = @ + charge] EXCEPT !.at = "failure",
                                       !.charged = charge, !.stage = "chat"]
         /\ probe' = [probe EXCEPT ![p] = r]
  BY <1>2
<1>4. PICK cost : cost = old.cost + charge  OBVIOUS
<1>5. charge \in Nat /\ cost \in Int
  <2>1. charge \in Nat /\ old.cost \in Int  BY <1>1, BudgetAssumption DEF Probe
  <2> QED  BY <1>4, <2>1
<1>6. \/ r = [[old EXCEPT !.cost = cost] EXCEPT !.at = "after", !.charged = charge]
      \/ r = [[old EXCEPT !.cost = cost] EXCEPT !.at = "failure", !.charged = charge, !.stage = "chat"]
  BY <1>3, <1>4
<1>7. /\ r \in Probe /\ r.at \in {"after", "failure"} /\ r.stage \in {old.stage, "chat"}
      /\ r.settled = old.settled /\ Carries(r, old)
  BY <1>1, <1>5, <1>6 DEF Probe, Places, Carries
<1>8. r.stage = "chat" \/ (r.stage = old.stage /\ r.at = "after")  BY <1>1, <1>5, <1>6 DEF Probe
<1>9. r.stage # "balance_before"  BY <1>1, <1>7 DEF Fit
<1>10. Fit(r) /\ r.stage # "ok"  BY <1>1, <1>7, <1>9 DEF Fit, Unspent
<1>11. audit' = [audit EXCEPT ![today][Chan(p)] = @ + 0] /\ 0 \in Int /\ 0 >= 0
  BY <1>1, NothingNoted
<1>12. old.at \notin {"settle", "done"} /\ r.at \notin {"gate", "reserve", "done"}  BY <1>1, <1>7
<1> QED  BY <1>1, <1>3, <1>7, <1>10, <1>11, <1>12, NotingStep

\* The row: the baseline for a failure, the measured cost for a success.
LEMMA RecordingKeeps ==
  ASSUME BudgetInv, MeasureInv, NEW p \in Probes, RecordProbeFailure(p) \/ RecordSuccess(p)
  PROVE  BudgetInv'
<1> DEFINE old == probe[p]
<1>1. /\ old \in Probe /\ Fit(old)
      /\ audit \in [Days -> [Channels -> Int]] /\ today \in Days /\ Chan(p) \in Channels
  BY DEF BudgetInv, Books, Sound, Chan, Probe
<1>2. CASE RecordProbeFailure(p)
  <2>1. old.at = "failure" /\ Goes(p, "settle") /\ UNCHANGED <<ledger, today>>
    BY <1>2 DEF RecordProbeFailure, Returns, Goes
  <2>2. \E n \in Nat : audit' = [audit EXCEPT ![today][Chan(p)] = @ + n]
    <3>1. CASE Note(p, Baseline)
      <4>1. Baseline \in Nat  BY BudgetAssumption
      <4> QED  BY <3>1, <4>1 DEF Note
    <3>2. CASE audit' = audit
      <4>1. audit' = [audit EXCEPT ![today][Chan(p)] = @ + 0]  BY <1>1, <3>2, NothingNoted
      <4> QED  BY <4>1
    <3> QED  BY <1>2, <3>1, <3>2 DEF RecordProbeFailure
  <2>3. "settle" \in Places \ (Unspent \cup {"chat"})  BY DEF Places, Unspent
  <2> QED  BY <2>1, <2>2, <2>3, GoesKeeps
<1>3. CASE RecordSuccess(p)
  <2>1. old.at = "success" /\ UNCHANGED <<ledger, today>>  BY <1>3 DEF RecordSuccess
  <2>2. CASE Note(p, old.cost) /\ Returns(p, [old EXCEPT !.stage = "ok"])
    <3> DEFINE r == [[old EXCEPT !.stage = "ok"] EXCEPT !.at = "settle"]
    <3>1. /\ probe' = [probe EXCEPT ![p] = r]
          /\ audit' = [audit EXCEPT ![today][Chan(p)] = @ + old.cost]
      BY <2>2 DEF Returns, Becomes, Note
    <3>2. /\ r \in Probe /\ r.at = "settle" /\ r.stage = "ok" /\ Carries(r, old)
          /\ r.cost = old.cost /\ r.charged = old.charged /\ r.moved = old.moved
          /\ r.settled = old.settled
      BY <1>1 DEF Probe, Places, Carries
    <3> HIDE DEF r
    <3>3. Fit(r)  BY <1>1, <2>1, <3>2 DEF Fit, Unspent
    <3>4. ~old.moved => old.charged = old.cost  BY <2>1 DEF MeasureInv, Honest
    <3>5. old.cost \in Int  BY <1>1 DEF Probe
    <3>6. old.at \notin {"settle", "done"} /\ r.at \notin {"gate", "reserve", "done"}  BY <2>1, <3>2
    <3> QED  BY <2>1, <3>1, <3>2, <3>3, <3>4, <3>5, <3>6, NotingStep
  <2>3. CASE audit' = audit /\ Returns(p, [old EXCEPT !.stage = "balance_after"])
    <3>1. probe' = [probe EXCEPT ![p] = [old EXCEPT !.stage = "balance_after", !.at = "settle"]]
      BY <2>3 DEF Returns, Becomes
    <3> QED  BY <2>1, <2>3, <3>1, FailsKeeps
  <2> QED  BY <1>3, <2>2, <2>3 DEF RecordSuccess
<1> QED  BY <1>2, <1>3

\* The script: both accounts, read from the ledger or from the seeds, take the
\* amount and stay within their budgets.
LEMMA ReserveKeeps ==
  ASSUME BudgetInv, NEW p \in Probes, Reserve(p)
  PROVE  BudgetInv'
<1> DEFINE P == probe  L == ledger  A == audit  t == today
           old == probe[p]
           c == Chan(p)
           w == old.wanted
<1>1. /\ Books(P, L, A, t) /\ Kept(P, L, A, t) /\ Sound(P, t)
      /\ old \in Probe /\ Fit(old) /\ old.at = "reserve" /\ c \in Channels /\ c = old.channel
      /\ t \in Days /\ UNCHANGED <<audit, today>>
  BY DEF BudgetInv, Books, Sound, Chan, Probe, Reserve, dbVars
<1>2. CASE ~Granted(p, today)  BY <1>1, <1>2, NotBegunKeeps DEF Reserve
<1>3. CASE Granted(p, today)
  <2> DEFINE bal == [a \in Accounts |-> BalanceOf(t, a, SeedOf(old, a))]
             took == [old EXCEPT !.at = "connect", !.seeds = NoSeeds, !.wanted = 0, !.held = w, !.day = t]
             left == [old EXCEPT !.at = "done", !.wanted = 0, !.seeds = NoSeeds]
  <2>1. PICK M : M = Booked(p, t) /\ ledger' = M  BY <1>3 DEF Reserve
  <2>2. PICK r : (r = took \/ r = left) /\ probe' = [P EXCEPT ![p] = r]
    BY <1>3 DEF Reserve, NotBegun, Becomes
  <2>3. w \in Nat /\ All # c /\ All \in Accounts /\ c \in Accounts
    BY <1>1, BudgetAssumption DEF Probe, Accounts
  <2>4. /\ r \in Probe /\ r.at \in {"connect", "done"} /\ r.channel = c
        /\ r.stage = old.stage /\ r.charged = old.charged /\ r.settled = old.settled
        /\ \/ r.held = old.held /\ r.at = "done" /\ r.day = old.day
           \/ r.held = w /\ r.at = "connect" /\ r.day = t
    <3>1. NoSeeds \in [{"own", "all"} -> Int]  BY DEF NoSeeds
    <3> HIDE DEF w
    <3>2. CASE r = took  BY <1>1, <2>3, <3>1, <3>2 DEF Probe, Places
    <3>3. CASE r = left  BY <1>1, <2>3, <3>1, <3>3 DEF Probe, Places
    <3> QED  BY <2>2, <3>2, <3>3
  <2>5. SeedOf(old, c) = old.seeds.own /\ SeedOf(old, All) = old.seeds.all
    BY <2>3 DEF SeedOf
  <2>6. /\ bal[c] + w <= BudgetOf(c) /\ bal[All] + w <= BudgetOf(All)
        /\ M = [L EXCEPT ![t][c] = bal[c] + w, ![t][All] = bal[All] + w]
    BY <1>1, <1>3, <2>1, <2>3, <2>5 DEF Granted, Booked, BudgetOf, BalanceOf
  <2>7. \A a \in Accounts : bal[a] = IF L[t][a] = NoKey THEN SeedOf(old, a) ELSE L[t][a]
    BY DEF BalanceOf
  <2>8. \A a \in Accounts : bal[a] \in Int /\ bal[a] + w \in Int
    <3>1. \A a \in Accounts : L[t][a] \in Int \cup {NoKey}
      <4> HIDE DEF L, t
      <4> QED  BY <1>1 DEF Books
    <3>2. \A a \in Accounts : SeedOf(old, a) \in Int
      <4>1. old.seeds \in [{"own", "all"} -> Int]  BY <1>1 DEF Probe
      <4> QED  BY <4>1 DEF SeedOf
    <3> HIDE DEF bal, L, t, w
    <3>3. \A a \in Accounts : bal[a] \in Int  BY <2>7, <3>1, <3>2
    <3> QED  BY <2>3, <3>3
  <2>9. L \in [Days -> [Accounts -> Int \cup {NoKey}]]  BY <1>1 DEF Books
  <2> HIDE DEF bal, took, left, P, L, A, t, c, w
  <2>10. /\ M \in [Days -> [Accounts -> Int \cup {NoKey}]]
         /\ M[t][c] = bal[c] + w /\ M[t][All] = bal[All] + w
         /\ \A d \in Days : \A a \in Accounts : ~(d = t /\ a \in {c, All}) => M[d][a] = L[d][a]
    <3>1. PICK x : x = bal[c] + w  OBVIOUS
    <3>2. PICK y : y = bal[All] + w  OBVIOUS
    <3>3. x \in Int /\ y \in Int  BY <2>3, <2>8, <3>1, <3>2
    <3>4. M = [L EXCEPT ![t][c] = x, ![t][All] = y]  BY <2>6, <3>1, <3>2
    <3> QED  BY <1>1, <2>3, <2>9, <3>1, <3>2, <3>3, <3>4
  <2>11. PICK Q : Q = [P EXCEPT ![p] = r]  OBVIOUS
  <2>12. Q \in [Probes -> Probe] /\ Q[p] = r /\ \A q \in Probes \ {p} : Q[q] = P[q]
    BY <1>1, <2>4, <2>11 DEF Books
  <2>13. Books(Q, M, A, t)  BY <1>1, <2>10, <2>12 DEF Books
  <2>14. P[p] = old  BY DEF P
  <2>15. \A a \in Accounts : In(old, a) =>
            /\ bal[a] = IF L[t][a] = NoKey THEN SeedOf(old, a) ELSE L[t][a]
            /\ bal[a] + w <= BudgetOf(a) /\ M[t][a] = bal[a] + w
    BY <1>1, <2>6, <2>7, <2>10 DEF In
  <2>16. \A d \in Days : \A a \in Accounts : ~(d = t /\ In(old, a)) => M[d][a] = L[d][a]
    BY <1>1, <2>10 DEF In
  <2>17. old.held = 0 /\ old.stage # "ok" /\ r.stage # "ok" /\ r.at \notin {"gate", "reserve"}
    BY <1>1, <2>4 DEF Fit
  <2>18. r.channel = old.channel /\ (r.held = 0 \/ (r.held = w /\ r.at # "done" /\ r.day = t))
    BY <1>1, <2>4, <2>17
  <2>19. Kept(Q, M, A, t)
    BY <1>1, <2>3, <2>12, <2>13, <2>14, <2>15, <2>16, <2>17, <2>18, BookStep
  <2>20. Sound(Q, t)
    <3>1. Fit(r)  BY <1>1, <2>4 DEF Fit, Unspent
    <3>2. old.day <= t /\ t <= t
      <4>1. t \in Int  BY <1>1, BudgetAssumption
      <4> QED  BY <1>1, <2>14, <4>1 DEF Sound
    <3>3. r.day <= t  BY <2>4, <3>2
    <3> QED  BY <1>1, <2>12, <3>1, <3>3 DEF Sound
  <2> QED  BY <1>1, <2>1, <2>2, <2>11, <2>13, <2>19, <2>20 DEF BudgetInv, A, t
<1> QED  BY <1>2, <1>3

\* What a settlement leaves in the ledger is no less than what is due.
LEMMA SettlementCovers ==
  ASSUME NEW p \in Probes, probe[p] \in Probe, Fit(probe[p]), MeasureInv, probe[p].at = "settle",
         NEW r, Carries(r, probe[p]), r.stage = probe[p].stage, r.charged = probe[p].charged,
         r.moved = probe[p].moved, r.settled
  PROVE  BudgetSettlement(p) \in Nat /\ DueOf(r) <= BudgetSettlement(p)
<1> DEFINE old == probe[p]
           n == BudgetSettlement(p)
<1>1. old.held \in Nat /\ old.charged \in Nat /\ old.cost \in Int  BY DEF Probe
<1>2. n = IF old.stage = "balance_before" THEN 0
          ELSE IF old.stage = "ok" /\ old.cost > 0 THEN old.cost ELSE old.held
  BY DEF BudgetSettlement
<1>3. r.held = old.held  BY DEF Carries
<1>4. n \in Nat  BY <1>1, <1>2
<1>5. /\ Least(r.charged, r.held) <= old.held /\ Least(r.charged, r.held) <= old.charged
      /\ Least(r.charged, r.held) \in Nat
  BY <1>1, <1>3 DEF Least
<1> HIDE DEF n
<1>6. CASE old.moved
  <2>1. DueOf(r) = 0  BY <1>6 DEF DueOf
  <2> QED  BY <1>4, <2>1 DEF n
<1>7. CASE ~old.moved /\ old.stage = "ok"
  <2>1. DueOf(r) = old.charged  BY <1>7 DEF DueOf
  <2>2. old.cost = old.charged  BY <1>7 DEF MeasureInv, Honest
  <2>3. CASE old.cost > 0
    <3>1. n = old.cost  BY <1>2, <1>7, <2>3
    <3> QED  BY <1>1, <1>4, <2>1, <2>2, <3>1 DEF n
  <2>4. CASE ~(old.cost > 0)
    <3>1. old.charged = 0  BY <1>1, <2>2, <2>4
    <3> QED  BY <1>4, <2>1, <3>1 DEF n
  <2> QED  BY <2>3, <2>4
<1>8. CASE ~old.moved /\ old.stage # "ok"
  <2>1. DueOf(r) = Least(r.charged, r.held)  BY <1>8 DEF DueOf
  <2>2. CASE old.stage = "balance_before"
    <3>1. old.charged = 0 /\ n = 0  BY <1>2, <2>2 DEF Fit
    <3> QED  BY <1>4, <1>5, <2>1, <3>1 DEF n
  <2>3. CASE old.stage # "balance_before"
    <3>1. n = old.held  BY <1>2, <1>8, <2>3
    <3> QED  BY <1>4, <1>5, <2>1, <3>1 DEF n
  <2> QED  BY <2>2, <2>3
<1> QED  BY <1>4, <1>6, <1>7, <1>8 DEF n

\* The settlement is made, or fails and leaves all that was held.
LEMMA AdjustKeeps ==
  ASSUME BudgetInv, MeasureInv, NEW p \in Probes, Adjust(p)
  PROVE  BudgetInv'
<1> DEFINE P == probe  L == ledger  A == audit  t == today
           old == probe[p]
<1>1. /\ Books(P, L, A, t) /\ Kept(P, L, A, t) /\ Sound(P, t)
      /\ old \in Probe /\ Fit(old) /\ old.at = "settle" /\ UNCHANGED <<audit, today>>
  BY DEF BudgetInv, Books, Sound, Adjust, dbVars
<1>2. CASE Goes(p, "done") /\ ledger' = ledger
  <2> DEFINE r == [old EXCEPT !.at = "done"]
  <2>1. probe' = [probe EXCEPT ![p] = r]  BY <1>2 DEF Goes, Becomes
  <2>2. r \in Probe /\ r.at = "done" /\ Carries(r, old) /\ Measures(r, old)
    BY <1>1 DEF Probe, Places, Carries, Measures
  <2> HIDE DEF r
  <2>3. Fit(r) /\ ~old.settled  BY <1>1, <2>2 DEF Fit, Measures, Unspent
  <2>4. Calm(r, old)  BY <1>1, <2>2, <2>3, EndCalm
  <2> QED  BY <1>1, <1>2, <2>1, <2>2, <2>3, <2>4, CalmOne DEF Carries
<1>3. CASE /\ ledger' = Adjusted(old.day, Chan(p), BudgetSettlement(p) - old.held)
           /\ Becomes(p, [old EXCEPT !.at = "done", !.settled = TRUE])
  <2> DEFINE r == [old EXCEPT !.at = "done", !.settled = TRUE]
  <2>1. /\ r \in Probe /\ r.at = "done" /\ r.settled /\ Carries(r, old) /\ r.stage = old.stage
        /\ r.charged = old.charged /\ r.cost = old.cost /\ r.moved = old.moved
    BY <1>1 DEF Probe, Places, Carries
  <2>2. probe' = [P EXCEPT ![p] = r]  BY <1>3 DEF Becomes
  <2> HIDE DEF r
  <2>3. PICK n : n = BudgetSettlement(p)  OBVIOUS
  <2>4. n \in Nat /\ DueOf(r) <= n  BY <1>1, <2>1, <2>3, SettlementCovers
  <2>5. PICK d0 : d0 = old.day  OBVIOUS
  <2>6. PICK c0 : c0 = old.channel  OBVIOUS
  <2>7. PICK M : M = ledger'  OBVIOUS
  <2>8. d0 \in Days /\ c0 \in Accounts /\ old.held \in Nat /\ c0 = Chan(p)
    BY <1>1, <2>5, <2>6 DEF Probe, Accounts, Chan
  <2>9. L \in [Days -> [Accounts -> Int \cup {NoKey}]]  BY <1>1 DEF Books
  <2>10. M = Adjusted(d0, c0, n - old.held)  BY <1>3, <2>3, <2>5, <2>7, <2>8
  <2>11. \/ NoKey \in {L[d0][c0], L[d0][All]} /\ M = L
         \/ /\ NoKey \notin {L[d0][c0], L[d0][All]}
            /\ \A d \in Days : \A a \in Accounts :
                  M[d][a] = IF d = d0 /\ In(old, a) THEN AtLeastZero(L[d][a] + (n - old.held))
                            ELSE L[d][a]
    <3>1. CASE NoKey \in {L[d0][c0], L[d0][All]}  BY <2>10, <3>1 DEF Adjusted
    <3>2. CASE NoKey \notin {L[d0][c0], L[d0][All]}
      <4>1. M = [L EXCEPT ![d0] = [a \in Accounts |-> IF a \in {c0, All} THEN AtLeastZero(L[d0][a] + (n - old.held))
                                                      ELSE L[d0][a]]]
        BY <2>8, <2>9, <2>10, <3>2 DEF Adjusted
      <4>2. \A a : In(old, a) <=> a \in {c0, All}  BY <2>6 DEF In
      <4> HIDE DEF L, old
      <4>3. \A d \in Days : \A a \in Accounts :
               M[d][a] = IF d = d0 /\ a \in {c0, All} THEN AtLeastZero(L[d][a] + (n - old.held))
                         ELSE L[d][a]
        BY <2>8, <2>9, <4>1
      <4> QED  BY <3>2, <4>2, <4>3
    <3> QED  BY <3>1, <3>2
  <2>12. M \in [Days -> [Accounts -> Int \cup {NoKey}]]
    <3>1. CASE NoKey \in {L[d0][c0], L[d0][All]}  BY <2>9, <2>11, <3>1
    <3>2. CASE NoKey \notin {L[d0][c0], L[d0][All]}
      <4>1. \A a \in {c0, All} : L[d0][a] \in Int
        <5>1. All \in Accounts  BY DEF Accounts
        <5> QED  BY <2>8, <2>9, <3>2, <5>1
      <4>2. PICK k : k = n - old.held  OBVIOUS
      <4>3. k \in Int  BY <2>4, <2>8, <4>2
      <4>4. \A a \in {c0, All} : AtLeastZero(L[d0][a] + k) \in Int  BY <4>1, <4>3 DEF AtLeastZero
      <4>5. M = [L EXCEPT ![d0] = [a \in Accounts |-> IF a \in {c0, All} THEN AtLeastZero(L[d0][a] + k)
                                                      ELSE L[d0][a]]]
        BY <2>8, <2>9, <2>10, <3>2, <4>2 DEF Adjusted
      <4>6. [a \in Accounts |-> IF a \in {c0, All} THEN AtLeastZero(L[d0][a] + k) ELSE L[d0][a]]
              \in [Accounts -> Int \cup {NoKey}]
        BY <2>8, <2>9, <4>4
      <4> QED  BY <2>8, <2>9, <4>5, <4>6
    <3> QED  BY <3>1, <3>2
  <2>13. PICK Q : Q = [P EXCEPT ![p] = r]  OBVIOUS
  <2>14. P[p] = old  OBVIOUS
  <2> HIDE DEF P, L, A, t, old
  <2>15. Q \in [Probes -> Probe] /\ Q[p] = r /\ \A q \in Probes \ {p} : Q[q] = P[q]
    BY <1>1, <2>1, <2>13 DEF Books
  <2>16. Books(Q, M, A, t)  BY <1>1, <2>12, <2>15 DEF Books
  <2>17. r.channel = old.channel /\ r.held = old.held /\ r.day = old.day /\ r.lost = old.lost
    BY <2>1 DEF Carries
  <2>18. Kept(Q, M, A, t)
    BY <1>1, <2>1, <2>4, <2>5, <2>6, <2>11, <2>14, <2>15, <2>16, <2>17, AdjustStep
  <2>19. Sound(Q, t)
    <3>1. Fit(r)  BY <1>1, <2>1 DEF Fit, Unspent
    <3>2. r.day <= t  BY <1>1, <2>14, <2>17 DEF Sound
    <3> QED  BY <1>1, <2>15, <3>1, <3>2 DEF Sound
  <2> QED  BY <1>1, <2>2, <2>7, <2>13, <2>16, <2>18, <2>19 DEF BudgetInv, P, A, t
<1> QED  BY <1>2, <1>3 DEF Adjust

\* A probe that dies with its process is never settled.
LEMMA DyingKeeps ==
  ASSUME BudgetInv, NEW S \in SUBSET Probes, Crash(S)
  PROVE  BudgetInv'
<1>1. PICK Q : Q = probe'  OBVIOUS
<1>2. /\ Q = [p \in Probes |-> IF p \in S \cap InFlight THEN [probe[p] EXCEPT !.at = "done"]
                               ELSE probe[p]]
      /\ UNCHANGED <<ledger, audit, today>>
  BY <1>1 DEF Crash
<1>3. ASSUME NEW p \in Probes
      PROVE  Q[p] \in Probe /\ Fit(Q[p]) /\ Q[p].day <= today /\ Calm(Q[p], probe[p])
  <2>1. probe[p] \in Probe /\ Fit(probe[p]) /\ probe[p].day <= today
    BY DEF BudgetInv, Books, Sound
  <2>2. CASE p \in S \cap InFlight
    <3> DEFINE r == [probe[p] EXCEPT !.at = "done"]
    <3>1. Q[p] = r /\ probe[p].at \notin {"idle", "done"}  BY <1>2, <2>2 DEF InFlight
    <3>2. r \in Probe /\ r.at = "done" /\ Carries(r, probe[p]) /\ Measures(r, probe[p])
      BY <2>1 DEF Probe, Places, Carries, Measures
    <3> HIDE DEF r
    <3>3. Fit(r) /\ ~probe[p].settled  BY <2>1, <3>1, <3>2 DEF Fit, Measures, Unspent
    <3>4. Calm(r, probe[p])  BY <2>1, <3>1, <3>2, <3>3, EndCalm
    <3> QED  BY <2>1, <3>1, <3>2, <3>3, <3>4 DEF Carries
  <2>3. CASE p \notin S \cap InFlight
    <3>1. Q[p] = probe[p]  BY <1>2, <2>3
    <3> QED  BY <2>1, <3>1, SelfCalm
  <2> QED  BY <2>2, <2>3
<1>4. Q \in [Probes -> Probe] /\ Sound(Q, today)  BY <1>2, <1>3 DEF Sound
<1> QED  BY <1>1, <1>2, <1>3, <1>4, CalmStep

\* What moves the balance besides a probe.
LEMMA MovingKeeps ==
  ASSUME BudgetInv, NEW c \in Channels, NEW amount \in Int, Moves(c, amount)
  PROVE  BudgetInv'
<1>1. PICK Q : Q = probe'  OBVIOUS
<1>2. /\ Q = [p \in Probes |->
                 IF Fallen(c, amount)[p] = probe[p] THEN probe[p]
                 ELSE [Fallen(c, amount)[p] EXCEPT !.moved = TRUE]]
      /\ UNCHANGED <<ledger, audit, today>>
  BY <1>1 DEF Moves, dbVars
<1>3. ASSUME NEW p \in Probes
      PROVE  Q[p] \in Probe /\ Fit(Q[p]) /\ Q[p].day <= today /\ Calm(Q[p], probe[p])
  <2>1. probe[p] \in Probe /\ Fit(probe[p]) /\ probe[p].day <= today
    BY DEF BudgetInv, Books, Sound
  <2>2. CASE Q[p] = probe[p]  BY <2>1, <2>2, SelfCalm
  <2>3. CASE Q[p] # probe[p]
    <3>1. PICK cost : cost = probe[p].cost + amount  OBVIOUS
    <3>2. cost \in Int
      <4>1. probe[p].cost \in Int  BY <2>1 DEF Probe
      <4> QED  BY <3>1, <4>1
    <3> DEFINE r == [[probe[p] EXCEPT !.cost = cost] EXCEPT !.moved = TRUE]
    <3>3. Q[p] = r /\ probe[p].at \in {"chat", "after"}  BY <1>2, <2>3, <3>1 DEF Fallen
    <3>4. /\ r \in Probe /\ r.at = probe[p].at /\ Carries(r, probe[p])
          /\ r.charged = probe[p].charged /\ r.stage = probe[p].stage
          /\ r.settled = probe[p].settled
      BY <2>1, <3>2 DEF Probe, Carries
    <3> HIDE DEF r
    <3>5. Fit(r) /\ r.stage # "ok"  BY <2>1, <3>3, <3>4 DEF Fit, Unspent, Carries
    <3>6. Lighter(r, probe[p])
      <4>1. r.at # "done" /\ probe[p].at # "done" /\ probe[p].stage # "ok"  BY <3>3, <3>4, <3>5
      <4> QED  BY <2>1, <3>4, <4>1, RunningLighter
    <3>7. /\ \A a : ~Seeding(r, a)
          /\ Open(r) => Open(probe[p]) /\ r.day = probe[p].day /\ r.channel = probe[p].channel
      BY <3>3, <3>4 DEF Open, Carries, Seeding, HasRead
    <3>8. \A d \in Days : \A a \in Accounts : PaidOf(r, d, a) = PaidOf(probe[p], d, a)
      BY <3>4, <3>5 DEF PaidOf
    <3>9. Calm(r, probe[p])  BY <3>6, <3>7, <3>8 DEF Calm
    <3> QED  BY <2>1, <3>3, <3>4, <3>5, <3>9 DEF Carries
  <2> QED  BY <2>2, <2>3
<1>4. Q \in [Probes -> Probe] /\ Sound(Q, today)  BY <1>2, <1>3 DEF Sound
<1> QED  BY <1>1, <1>2, <1>3, <1>4, CalmStep

\* The ledger begins again from the audit.
LEMMA LosingKeeps ==
  ASSUME BudgetInv, LoseKeys
  PROVE  BudgetInv'
<1> DEFINE P == probe  L == ledger  A == audit  t == today
           S == {p \in Probes : Audited(p)}
           gone(p) == P[p].lost \/ (P[p].held > 0 /\ ~Audited(p))
<1>1. Books(P, L, A, t) /\ Kept(P, L, A, t) /\ Sound(P, t) /\ UNCHANGED <<audit, today>>
  BY DEF BudgetInv, LoseKeys, dbVars
<1>2. PICK M : M = [d \in Days |-> [a \in Accounts |-> NoKey]] /\ ledger' = M  BY DEF LoseKeys
<1>3. PICK Q : Q = [p \in Probes |-> [P[p] EXCEPT !.lost = gone(p)]] /\ probe' = Q  BY DEF LoseKeys
<1>4. ASSUME NEW p \in Probes
      PROVE  /\ P[p] \in Probe /\ Q[p] \in Probe
             /\ Q[p].at = P[p].at /\ Q[p].channel = P[p].channel /\ Q[p].held = P[p].held
             /\ Q[p].day = P[p].day /\ Q[p].stage = P[p].stage /\ Q[p].charged = P[p].charged
             /\ Q[p].cost = P[p].cost /\ Q[p].moved = P[p].moved /\ Q[p].settled = P[p].settled
             /\ Q[p].seeds = P[p].seeds /\ Q[p].manual = P[p].manual /\ (Q[p].lost <=> gone(p))
  <2>1. P[p] \in Probe  BY <1>1 DEF Books
  <2>2. PICK g \in BOOLEAN : g = gone(p)
    <3>1. P[p].lost \in BOOLEAN  BY <2>1 DEF Probe
    <3>2. gone(p) \in BOOLEAN  BY <3>1
    <3> QED  BY <3>2
  <2>3. Q[p] = [P[p] EXCEPT !.lost = g]  BY <1>3, <2>2
  <2> HIDE DEF P, gone
  <2>4. /\ Q[p] \in Probe /\ Q[p].lost = g
        /\ Q[p].at = P[p].at /\ Q[p].channel = P[p].channel /\ Q[p].held = P[p].held
        /\ Q[p].day = P[p].day /\ Q[p].stage = P[p].stage /\ Q[p].charged = P[p].charged
        /\ Q[p].cost = P[p].cost /\ Q[p].moved = P[p].moved /\ Q[p].settled = P[p].settled
        /\ Q[p].seeds = P[p].seeds /\ Q[p].manual = P[p].manual
    BY <2>1, <2>3 DEF Probe
  <2> QED  BY <2>1, <2>2, <2>4
<1>5. Q \in [Probes -> Probe]  BY <1>3, <1>4
<1>6. Books(Q, M, A, t)  BY <1>1, <1>2, <1>5 DEF Books
<1>7. \A p \in S : /\ P[p].at = "done" /\ P[p].stage = "ok" /\ ~P[p].moved /\ P[p].day = t
                   /\ \A q \in Probes : \A a \in Accounts :
                         Seeding(P[q], a) => SeedOf(P[q], a) = NotedIn(A, t, a)
  <2>1. /\ SpentToday = NotedIn(A, t, All)
        /\ \A c \in Channels : SpentOn(c) = NotedIn(A, t, c)
    BY <1>1, SpentIsNoted DEF Books
  <2>2. \A q \in Probes : Chan(q) = P[q].channel /\ Chan(q) \in Channels  BY <1>4 DEF Chan, Probe
  <2>3. \A c \in Channels : c # All  BY BudgetAssumption
  <2> HIDE DEF A, t
  <2> QED  BY <2>1, <2>2, <2>3 DEF Audited, Seeding, In, t
<1>8. \A d \in Days : \A a \in Accounts : M[d][a] = NoKey  BY <1>2
<1>9. \A p \in Probes : (P[p].lost => Q[p].lost) /\ (P[p].held > 0 /\ p \notin S => Q[p].lost)
  BY <1>4
<1>10. Sound(Q, t)
  <2> SUFFICES ASSUME NEW p \in Probes  PROVE Fit(Q[p]) /\ Q[p].day <= t  BY DEF Sound
  <2>1. Fit(P[p]) /\ P[p].day <= t  BY <1>1 DEF Sound
  <2>2. P[p].at \in {"idle", "gate", "reserve"} => ~Q[p].lost
    <3>1. ~(0 > 0)  OBVIOUS
    <3>2. P[p].at \in {"idle", "gate", "reserve"} => P[p].held = 0 /\ ~P[p].lost  BY <2>1 DEF Fit
    <3> QED  BY <1>4, <3>1, <3>2
  <2> HIDE DEF P, gone
  <2> QED  BY <1>4, <2>1, <2>2 DEF Fit
<1> HIDE DEF P, L, A, t, S, gone
<1>11. Kept(Q, M, A, t)  BY <1>1, <1>4, <1>6, <1>7, <1>8, <1>9, LoseStep
<1> QED  BY <1>1, <1>2, <1>3, <1>6, <1>10, <1>11 DEF BudgetInv, A, t

\* Nothing is reserved on a day that has not begun.
LEMMA NextDayKeeps ==
  ASSUME BudgetInv, NextDay
  PROVE  BudgetInv'
<1>1. /\ Books(probe, ledger, audit, today) /\ Kept(probe, ledger, audit, today)
      /\ Sound(probe, today) /\ today + 1 \in Days /\ today' = today + 1
      /\ UNCHANGED <<probe, ledger, audit>>
  BY DEF BudgetInv, NextDay, dbVars
<1>2. PICK u : u = today + 1  OBVIOUS
<1>3. u \in Days /\ today < u /\ today \in Int /\ u \in Int
  BY <1>1, <1>2, BudgetAssumption DEF Books
<1>4. ASSUME NEW p \in Probes  PROVE Fit(probe[p]) /\ probe[p].day <= today /\ probe[p].day <= u
  <2>1. Fit(probe[p]) /\ probe[p].day <= today  BY <1>1 DEF Sound
  <2>2. probe[p].day \in Int
    <3>1. probe[p].day \in Days  BY <1>1 DEF Books, Probe
    <3>2. \A d \in Days : d \in Int  BY BudgetAssumption
    <3> QED  BY <3>1, <3>2
  <2> QED  BY <1>3, <2>1, <2>2
<1>5. Kept(probe, ledger, audit, u)  BY <1>1, <1>3, <1>4, DayStep
<1>6. Books(probe, ledger, audit, u) /\ Sound(probe, u)  BY <1>1, <1>3, <1>4 DEF Books, Sound
<1> QED  BY <1>1, <1>2, <1>5, <1>6 DEF BudgetInv

-----------------------------------------------------------------------------
LEMMA BudgetInvStep == MeasureInv /\ BudgetInv /\ [Next]_vars => BudgetInv'
<1> SUFFICES ASSUME MeasureInv, BudgetInv, [Next]_vars  PROVE BudgetInv'  OBVIOUS
<1>1. ASSUME NEW p \in Probes, Step(p)  PROVE BudgetInv'
  BY <1>1, EarlyKeeps, ReadSpentKeeps, ReserveKeeps, ReadingsKeep, SpendingKeeps, RecordingKeeps,
     AdjustKeeps DEF Step
<1>2. CASE Crash(Manual) \/ Crash(Probes \ Manual)
  <2>1. Manual \in SUBSET Probes /\ Probes \ Manual \in SUBSET Probes  BY DEF Manual
  <2> QED  BY <1>2, <2>1, DyingKeeps
<1>3. CASE LoseKeys  BY <1>3, LosingKeeps
<1>4. ASSUME NEW c \in Channels, Moves(c, 1) \/ Moves(c, -2)  PROVE BudgetInv'
  <2>1. 1 \in Int /\ -2 \in Int  OBVIOUS
  <2> QED  BY <1>4, <2>1, MovingKeeps
<1>5. CASE NextDay  BY <1>5, NextDayKeeps
<1>6. CASE UNCHANGED <<probe, ledger, audit, today>>  BY <1>6 DEF BudgetInv
<1>7. NextTick \/ UNCHANGED vars => UNCHANGED <<probe, ledger, audit, today>>
  BY DEF NextTick, dbVars, vars
<1> QED  BY <1>1, <1>2, <1>3, <1>4, <1>5, <1>6, <1>7 DEF Next

LEMMA BudgetInvInitially == Init => BudgetInv
<1> SUFFICES ASSUME Init  PROVE BudgetInv  OBVIOUS
<1> DEFINE P == probe  L == ledger  A == audit
<1>1. /\ L = [d \in Days |-> [a \in Accounts |-> NoKey]]
      /\ A = [d \in Days |-> [c \in Channels |-> 0]]
      /\ today = 1
  BY DEF Init
<1>2. /\ probe = [p \in Probes |-> probe[p]]
      /\ \A p \in Probes :
            /\ P[p] \in Probe /\ P[p].at = "idle" /\ P[p].held = 0 /\ P[p].day = 1
            /\ P[p].charged = 0 /\ P[p].cost = 0 /\ P[p].stage = "" /\ ~P[p].settled /\ ~P[p].lost
  <2>1. NoSeeds \in [{"own", "all"} -> Int]  BY DEF NoSeeds
  <2>2. 1 \in Days  BY BudgetAssumption
  <2>3. probe \in [Probes -> [at : {"idle"}, manual : BOOLEAN, channel : Channels, wanted : {0},
                             seeds : {NoSeeds}, held : {0}, day : {1}, charged : {0}, cost : {0},
                             stage : {""}, settled : {FALSE}, moved : {FALSE}, lost : {FALSE}]]
    BY DEF Init
  <2>4. ASSUME NEW p \in Probes
        PROVE  /\ P[p] \in Probe /\ P[p].at = "idle" /\ P[p].held = 0 /\ P[p].day = 1
               /\ P[p].charged = 0 /\ P[p].cost = 0 /\ P[p].stage = "" /\ ~P[p].settled /\ ~P[p].lost
    <3>1. P[p] \in [at : {"idle"}, manual : BOOLEAN, channel : Channels, wanted : {0},
                    seeds : {NoSeeds}, held : {0}, day : {1}, charged : {0}, cost : {0},
                    stage : {""}, settled : {FALSE}, moved : {FALSE}, lost : {FALSE}]
      BY <2>3
    <3> HIDE DEF P
    <3>2. /\ P[p].at = "idle" /\ P[p].held = 0 /\ P[p].day = 1 /\ P[p].charged = 0 /\ P[p].cost = 0
          /\ P[p].stage = "" /\ P[p].settled = FALSE /\ P[p].lost = FALSE
      BY <3>1
    <3>3. P[p] \in Probe
      <4>1. /\ {"idle"} \subseteq Places /\ {0} \subseteq Nat /\ {0} \subseteq Int
            /\ {NoSeeds} \subseteq [{"own", "all"} -> Int] /\ {1} \subseteq Days
        BY <2>1, <2>2 DEF Places
      <4> QED  BY <3>1, <4>1 DEF Probe
    <3> QED  BY <3>2, <3>3
  <2> QED  BY <2>3, <2>4
<1>3. Books(P, L, A, today)
  <2>1. today \in Days  BY <1>1, BudgetAssumption
  <2>2. L \in [Days -> [Accounts -> Int \cup {NoKey}]] /\ A \in [Days -> [Channels -> Int]]
    BY <1>1
  <2>3. P \in [Probes -> Probe]
    <3> HIDE DEF Probe
    <3> QED  BY <1>2
  <2> QED  BY <2>1, <2>2, <2>3 DEF Books
<1>4. Sound(P, today)
  <2>1. 1 <= 1  OBVIOUS
  <2> QED  BY <1>1, <1>2, <2>1 DEF Sound, Fit
<1>5. ASSUME NEW d \in Days, NEW a \in Accounts
      PROVE  /\ Claims(P, d, a) = 0 /\ Parts(P, d, a) = 0 /\ Shown(P, a) = 0 /\ Paid(P, d, a) = 0
             /\ NotedIn(A, d, a) = 0 /\ CounterIn(L, A, d, a) = 0
  <2> DEFINE z == [p \in Probes |-> 0]
  <2>1. SumFunction(z) = 0
    <3>1. z \in [Probes -> Int] /\ \A p \in Probes : z[p] = 0  OBVIOUS
    <3> HIDE DEF z
    <3> QED  BY <3>1, BudgetAssumption, SumOfZeros
  <2>2. \A p \in Probes : ~Reserves(P[p], d, a)
    <3>1. ~(0 > 0)  OBVIOUS
    <3> QED  BY <1>2, <3>1 DEF Reserves
  <2>3. /\ [p \in Probes |-> ClaimOf(P[p], d, a)] = z /\ [p \in Probes |-> PartOf(P[p], d, a)] = z
        /\ [p \in Probes |-> ShownOf(P[p], a)] = z /\ [p \in Probes |-> PaidOf(P[p], d, a)] = z
    BY <1>2, <2>2 DEF ClaimOf, PartOf, ShownOf, PaidOf
  <2> DEFINE C == {c \in Channels : a \in {c, All}}
             y == [c \in C |-> A[d][c]]
  <2>4. NotedIn(A, d, a) = SumFunction(y)  BY DEF NotedIn
  <2>5. y \in [C -> Int] /\ \A c \in C : y[c] = 0  BY <1>1
  <2>6. IsFiniteSet(C)
    <3>1. IsFiniteSet(Channels) /\ C \in SUBSET Channels  BY BudgetAssumption
    <3> QED  BY <3>1, FS_Subset
  <2> HIDE DEF y, C
  <2>7. NotedIn(A, d, a) = 0  BY <2>4, <2>5, <2>6, SumOfZeros
  <2>8. CounterIn(L, A, d, a) = 0  BY <1>1, <2>7 DEF CounterIn
  <2> QED  BY <2>1, <2>3, <2>7, <2>8 DEF Claims, Parts, Shown, Paid
<1>6. Kept(P, L, A, today)
  <2>1. \A n \in Nat : 0 <= n + 0  OBVIOUS
  <2>2. 0 <= 0 + 0  OBVIOUS
  <2>3. \A a \in Accounts : BudgetOf(a) \in Nat  BY BudgetAssumption DEF BudgetOf
  <2>4. today \in Days  BY <1>3 DEF Books
  <2>5. SeedsCover(P, L, today)  BY <1>2 DEF SeedsCover, Seeding, HasRead
  <2>6. KeysStay(P, L)
    <3>1. ~(0 > 0)  OBVIOUS
    <3> QED  BY <1>2, <3>1 DEF KeysStay, Open
  <2>7. Covered(P, L, A)  BY <1>5, <2>2 DEF Covered
  <2>8. Granting(P)  BY <1>5, <2>1, <2>3 DEF Granting
  <2>9. NotedCovers(P, A, today)  BY <1>5, <2>2, <2>4 DEF NotedCovers
  <2> QED  BY <2>5, <2>6, <2>7, <2>8, <2>9 DEF Kept
<1> QED  BY <1>3, <1>4, <1>6 DEF BudgetInv

-----------------------------------------------------------------------------
(* From the invariant to the properties                                    *)

\* A sum over some of the probes, as one over all of them.
LEMMA OverAll ==
  ASSUME NEW S \in SUBSET Probes, NEW f \in [S -> Int],
         NEW g, g = [p \in Probes |-> IF p \in S THEN f[p] ELSE 0]
  PROVE  g \in [Probes -> Int] /\ SumFunction(g) = SumFunction(f)
<1>1. g \in [Probes -> Int] /\ \A p \in Probes : g[p] = IF p \in S THEN f[p] ELSE 0  OBVIOUS
<1>2. IsFiniteSet(Probes)  BY BudgetAssumption
<1> QED  BY <1>1, <1>2, SumOfPart

\* What a probe shows of a negative cost, and what it holds once lost, is seen
\* as missing.
LEMMA UnseenCovers ==
  ASSUME BudgetInv, NEW d \in Days, NEW a \in Accounts
  PROVE  \E l \in [Probes -> Int] :
            /\ \A p \in Probes : l[p] = IF p \in Lost(d, a) THEN probe[p].held ELSE 0
            /\ SumFunction(l) \in Int /\ Unseen(d, a) \in Int
            /\ SumFunction(l) + Shown(probe, a) <= Unseen(d, a)
<1> DEFINE S == {p \in Probes : a \in {Chan(p), All}}
           f == [p \in Lost(d, a) |-> Held(p)]
           g == [p \in S |-> Hidden(p)]
           l == [p \in Probes |-> IF p \in Lost(d, a) THEN f[p] ELSE 0]
           h == [p \in Probes |-> IF p \in S THEN g[p] ELSE 0]
           s == [p \in Probes |-> ShownOf(probe[p], a)]
<1>1. \A p \in Probes : probe[p] \in Probe  BY DEF BudgetInv, Books
<1>2. \A p \in Probes : Held(p) \in Int /\ Hidden(p) \in Nat
  <2> SUFFICES ASSUME NEW p \in Probes  PROVE Held(p) \in Int /\ Hidden(p) \in Nat  OBVIOUS
  <2>1. probe[p].held \in Nat /\ probe[p].cost \in Int /\ -probe[p].cost \in Int
    <3>1. probe[p].held \in Nat /\ probe[p].cost \in Int  BY <1>1 DEF Probe
    <3> QED  BY <3>1
  <2> QED  BY <2>1 DEF Held, Hidden, AtLeastZero
<1>3. Lost(d, a) \in SUBSET Probes /\ S \in SUBSET Probes  BY DEF Lost, Reserved
<1>4. f \in [Lost(d, a) -> Int] /\ g \in [S -> Int]  BY <1>2, <1>3
<1>5. Unseen(d, a) = SumFunction(f) + SumFunction(g)  BY DEF Unseen, SumOver
<1>6. l \in [Probes -> Int] /\ SumFunction(l) = SumFunction(f)
  <2> HIDE DEF f
  <2> QED  BY <1>3, <1>4, OverAll
<1>7. h \in [Probes -> Int] /\ SumFunction(h) = SumFunction(g)
  <2> HIDE DEF g, S
  <2> QED  BY <1>3, <1>4, OverAll
<1>8. \A p \in Probes : s[p] \in Nat /\ h[p] \in Nat /\ s[p] <= h[p]
  <2> SUFFICES ASSUME NEW p \in Probes  PROVE s[p] \in Nat /\ h[p] \in Nat /\ s[p] <= h[p]  OBVIOUS
  <2>1. \A n \in Nat : n <= n /\ 0 <= n  OBVIOUS
  <2>2. ShownOf(probe[p], a) \in Nat  BY <1>1, RecordTypes
  <2>3. In(probe[p], a) <=> p \in S  BY DEF In, Chan
  <2>4. Hidden(p) = AtLeastZero(-probe[p].cost)  BY DEF Hidden
  <2> QED  BY <1>2, <2>1, <2>2, <2>3, <2>4 DEF ShownOf
<1>9. s \in [Probes -> Int] /\ Shown(probe, a) = SumFunction(s)
  <2>1. Shown(probe, a) = SumFunction(s)  BY DEF Shown
  <2>2. s \in [Probes -> Int]
    <3>1. probe \in [Probes -> Probe]  BY DEF BudgetInv, Books
    <3> QED  BY <3>1, SumTypes
  <2> QED  BY <2>1, <2>2
<1>10. \A p \in Probes : l[p] = IF p \in Lost(d, a) THEN probe[p].held ELSE 0
  BY DEF Held
<1>11. IsFiniteSet(Probes)  BY BudgetAssumption
<1> HIDE DEF S, f, g, l, h, s
<1>12. SumFunction(s) <= SumFunction(h)  BY <1>7, <1>8, <1>9, <1>11, SumMonotone
<1>13. SumFunction(l) \in Int  BY <1>6, <1>11, SumTakesAny
<1>14. SumFunction(h) \in Int  BY <1>7, <1>11, SumTakesAny
<1>15. SumFunction(s) \in Int  BY <1>9, <1>11, SumTakesAny
<1>16. SumFunction(l) + Shown(probe, a) <= Unseen(d, a) /\ Unseen(d, a) \in Int
  BY <1>5, <1>6, <1>7, <1>9, <1>12, <1>13, <1>14, <1>15
<1> QED  BY <1>6, <1>10, <1>13, <1>16

\* Amounts of the known probes that the total covers, but for what is unseen.
LEMMA KnownWithin ==
  ASSUME BudgetInv, NEW d \in Days, NEW a \in Accounts, NEW f \in [Known(d, a) -> Int],
         NEW total \in [Probes -> Int], NEW limit \in Int,
         SumFunction(total) <= limit + Shown(probe, a),
         \A p \in Known(d, a) : f[p] <= total[p],
         \A p \in Lost(d, a) : -probe[p].held <= total[p],
         \A p \in Probes : p \notin Reserved(d, a) => 0 <= total[p]
  PROVE  SumFunction(f) <= limit + Unseen(d, a)
<1>1. PICK l \in [Probes -> Int] :
         /\ \A p \in Probes : l[p] = IF p \in Lost(d, a) THEN probe[p].held ELSE 0
         /\ SumFunction(l) \in Int /\ Unseen(d, a) \in Int
         /\ SumFunction(l) + Shown(probe, a) <= Unseen(d, a)
  BY UnseenCovers
<1> DEFINE g == [p \in Probes |-> IF p \in Known(d, a) THEN f[p] ELSE 0]
           sum == [p \in Probes |-> total[p] + l[p]]
<1>2. Known(d, a) \in SUBSET Probes /\ IsFiniteSet(Probes)  BY BudgetAssumption DEF Known, Reserved
<1>3. g \in [Probes -> Int] /\ SumFunction(g) = SumFunction(f)  BY <1>2, OverAll
<1>4. sum \in [Probes -> Int] /\ \A p \in Probes : sum[p] = total[p] + l[p]  OBVIOUS
<1>5. ASSUME NEW p \in Probes  PROVE g[p] <= sum[p]
  <2>1. total[p] \in Int /\ l[p] \in Int /\ sum[p] = total[p] + l[p]  BY <1>4
  <2>2. p \in Reserved(d, a) <=> p \in Known(d, a) \/ p \in Lost(d, a)  BY DEF Known, Lost
  <2>3. ~(p \in Known(d, a) /\ p \in Lost(d, a))  BY DEF Known, Lost
  <2>4. CASE p \in Known(d, a)
    <3>1. f[p] \in Int /\ g[p] = f[p] /\ f[p] <= total[p] /\ l[p] = 0  BY <1>1, <2>3, <2>4
    <3> QED  BY <2>1, <3>1
  <2>5. CASE p \in Lost(d, a)
    <3>1. g[p] = 0 /\ l[p] = probe[p].held /\ -probe[p].held <= total[p]  BY <1>1, <2>3, <2>5
    <3> QED  BY <2>1, <3>1
  <2>6. CASE p \notin Reserved(d, a)
    <3>1. g[p] = 0 /\ l[p] = 0 /\ 0 <= total[p]  BY <1>1, <2>2, <2>6
    <3> QED  BY <2>1, <3>1
  <2> QED  BY <2>2, <2>4, <2>5, <2>6
<1> HIDE DEF g, sum
<1>6. SumFunction(g) <= SumFunction(sum)  BY <1>2, <1>3, <1>4, <1>5, SumMonotone
<1>7. SumFunction(sum) = SumFunction(total) + SumFunction(l)  BY <1>2, <1>4, SumOfBoth
<1>8. SumFunction(g) \in Int  BY <1>2, <1>3, SumTakesAny
<1>9. SumFunction(total) \in Int  BY <1>2, SumTakesAny
<1>10. Shown(probe, a) \in Int  BY SumTypes DEF BudgetInv, Books
<1> QED  BY <1>1, <1>3, <1>6, <1>7, <1>8, <1>9, <1>10

\* A claim is what is due, or more.
LEMMA InvCovers == BudgetInv => LedgerCovers
<1> SUFFICES ASSUME BudgetInv, NEW d \in Days, NEW a \in Accounts
             PROVE  SumOver(Known(d, a), Due) <= Counter(d, a) + Unseen(d, a)
  BY DEF LedgerCovers
<1> DEFINE f == [p \in Known(d, a) |-> Due(p)]
           total == [p \in Probes |-> ClaimOf(probe[p], d, a)]
<1>1. /\ Books(probe, ledger, audit, today) /\ Covered(probe, ledger, audit)
      /\ \A p \in Probes : probe[p] \in Probe /\ Fit(probe[p])
  BY DEF BudgetInv, Books, Sound, Kept
<1>2. Counter(d, a) = CounterIn(ledger, audit, d, a)
  BY DEF Counter, CounterIn, Noted, NotedIn, SumOver
<1>3. Counter(d, a) \in Int
  <2>1. NotedIn(audit, d, a) \in Int  BY <1>1, NotedType DEF Books
  <2>2. ledger[d][a] \in Int \cup {NoKey}  BY <1>1 DEF Books
  <2> QED  BY <1>2, <2>1, <2>2 DEF CounterIn
<1>4. Known(d, a) \subseteq Probes /\ Lost(d, a) \subseteq Probes  BY DEF Known, Lost, Reserved
<1>5. ASSUME NEW p \in Probes
      PROVE  /\ p \in Reserved(d, a) <=> Reserves(probe[p], d, a)
             /\ Due(p) = DueOf(probe[p])
             /\ probe[p].held \in Nat /\ probe[p].charged \in Nat /\ total[p] \in Int
             /\ DueOf(probe[p]) \in Nat
             /\ probe[p].at # "done" => DueOf(probe[p]) <= probe[p].held
  <2>1. p \in Reserved(d, a) <=> Reserves(probe[p], d, a)  BY DEF Reserved, Reserves, In, Chan
  <2>2. Due(p) = DueOf(probe[p])  BY DEF Due, DueOf, Measured, Charged, Held
  <2>3. probe[p].held \in Nat /\ probe[p].charged \in Nat  BY <1>1 DEF Probe
  <2>4. total[p] \in Int  BY <1>1, RecordTypes
  <2>5. /\ Least(probe[p].charged, probe[p].held) \in Nat
        /\ Least(probe[p].charged, probe[p].held) <= probe[p].held /\ 0 <= probe[p].held
    BY <2>3 DEF Least
  <2>6. DueOf(probe[p]) \in Nat  BY <2>3, <2>5 DEF DueOf
  <2>7. probe[p].at # "done" => DueOf(probe[p]) \in {0, Least(probe[p].charged, probe[p].held)}
    BY <1>1 DEF DueOf, Fit
  <2> QED  BY <2>1, <2>2, <2>3, <2>4, <2>5, <2>6, <2>7
<1>6. f \in [Known(d, a) -> Int] /\ total \in [Probes -> Int]
  <2>1. \A p \in Known(d, a) : Due(p) \in Int  BY <1>4, <1>5
  <2> QED  BY <1>5, <2>1
<1>7. SumFunction(total) <= Counter(d, a) + Shown(probe, a)
  BY <1>1, <1>2 DEF Covered, Claims
<1>8. ASSUME NEW p \in Known(d, a)  PROVE f[p] <= total[p]
  <2>1. p \in Probes /\ Reserves(probe[p], d, a) /\ ~probe[p].lost
    BY <1>4, <1>5 DEF Known
  <2>2. f[p] = DueOf(probe[p])  BY <1>5, <2>1
  <2>3. total[p] = IF probe[p].at = "done" THEN DueOf(probe[p]) ELSE probe[p].held
    BY <2>1 DEF ClaimOf
  <2>4. \A n \in Nat : n <= n  OBVIOUS
  <2> HIDE DEF f, total
  <2> QED  BY <1>5, <2>1, <2>2, <2>3, <2>4
<1>9. ASSUME NEW p \in Lost(d, a)  PROVE -probe[p].held <= total[p]
  <2>1. p \in Probes /\ Reserves(probe[p], d, a) /\ probe[p].lost
    BY <1>4, <1>5 DEF Lost
  <2>2. total[p] = IF probe[p].at = "done" THEN -probe[p].held ELSE 0  BY <2>1 DEF ClaimOf
  <2>3. \A n \in Nat : -n <= -n /\ -n <= 0  OBVIOUS
  <2> HIDE DEF total
  <2> QED  BY <1>5, <2>1, <2>2, <2>3
<1>10. ASSUME NEW p \in Probes, p \notin Reserved(d, a)  PROVE 0 <= total[p]
  <2>1. total[p] = 0  BY <1>5, <1>10 DEF ClaimOf
  <2>2. 0 <= 0  OBVIOUS
  <2> QED  BY <2>1, <2>2
<1>11. SumOver(Known(d, a), Due) = SumFunction(f)  BY DEF SumOver
<1> HIDE DEF f, total
<1> QED  BY <1>3, <1>6, <1>7, <1>8, <1>9, <1>10, <1>11, KnownWithin

\* A part is what was charged, but for the excess, or more.
LEMMA InvSpends == BudgetInv => NeverOverspends
<1> SUFFICES ASSUME BudgetInv, NEW d \in Days, NEW a \in Accounts
             PROVE  SumOver(Known(d, a), Charged)
                      <= BudgetOf(a) + SumOver(Known(d, a), Excess) + Unseen(d, a)
  BY DEF NeverOverspends
<1> DEFINE charged == [p \in Known(d, a) |-> Charged(p)]
           excess == [p \in Known(d, a) |-> Excess(p)]
           f == [p \in Known(d, a) |-> Charged(p) - Excess(p)]
           total == [p \in Probes |-> PartOf(probe[p], d, a)]
<1>1. /\ probe \in [Probes -> Probe] /\ Granting(probe)
      /\ \A p \in Probes : probe[p] \in Probe
  BY DEF BudgetInv, Books, Kept
<1>2. BudgetOf(a) \in Int  BY BudgetAssumption DEF BudgetOf
<1>3. Known(d, a) \in SUBSET Probes /\ Lost(d, a) \subseteq Probes  BY DEF Known, Lost, Reserved
<1>4. ASSUME NEW p \in Probes
      PROVE  /\ p \in Reserved(d, a) <=> Reserves(probe[p], d, a)
             /\ probe[p].held \in Nat /\ total[p] \in Int /\ Charged(p) \in Nat /\ Excess(p) \in Int
             /\ Charged(p) - Excess(p) \in Int
             /\ Charged(p) - Excess(p) =
                  IF probe[p].moved THEN 0 ELSE Least(probe[p].charged, probe[p].held)
             /\ Least(probe[p].charged, probe[p].held) \in Nat
             /\ Least(probe[p].charged, probe[p].held) <= probe[p].held
  <2>1. p \in Reserved(d, a) <=> Reserves(probe[p], d, a)  BY DEF Reserved, Reserves, In, Chan
  <2>2. probe[p].held \in Nat /\ probe[p].charged \in Nat  BY <1>1 DEF Probe
  <2>3. total[p] \in Int  BY <1>1, RecordTypes
  <2>4. /\ Least(probe[p].charged, probe[p].held) \in Nat
        /\ Least(probe[p].charged, probe[p].held) <= probe[p].held
    BY <2>2 DEF Least
  <2>5. /\ Charged(p) \in Nat /\ Excess(p) \in Int /\ Charged(p) - Excess(p) \in Int
        /\ Charged(p) - Excess(p) =
              IF probe[p].moved THEN 0 ELSE Least(probe[p].charged, probe[p].held)
    BY <2>2 DEF Charged, Excess, Held, AtLeastZero, Least
  <2> QED  BY <2>1, <2>2, <2>3, <2>4, <2>5
<1>5. f \in [Known(d, a) -> Int] /\ total \in [Probes -> Int]
  <2>1. \A p \in Known(d, a) : Charged(p) - Excess(p) \in Int  BY <1>3, <1>4
  <2> QED  BY <1>4, <2>1
<1>6. charged \in [Known(d, a) -> Int] /\ excess \in [Known(d, a) -> Int]
  <2>1. \A p \in Known(d, a) : Charged(p) \in Int /\ Excess(p) \in Int  BY <1>3, <1>4
  <2> QED  BY <2>1
<1>7. SumFunction(total) <= BudgetOf(a) + Shown(probe, a)  BY <1>1 DEF Granting, Parts
<1>8. ASSUME NEW p \in Known(d, a)
      PROVE  f[p] <= total[p] /\ charged[p] = f[p] + excess[p]
  <2>1. p \in Probes /\ Reserves(probe[p], d, a) /\ ~probe[p].lost
    BY <1>3, <1>4 DEF Known
  <2>2. f[p] = IF probe[p].moved THEN 0 ELSE Least(probe[p].charged, probe[p].held)
    BY <1>4, <2>1
  <2>3. total[p] = IF probe[p].at # "done" THEN probe[p].held
                   ELSE IF probe[p].moved THEN 0 ELSE Least(probe[p].charged, probe[p].held)
    BY <2>1 DEF PartOf
  <2>4. \A n \in Nat : n <= n /\ 0 <= n  OBVIOUS
  <2>5. charged[p] = f[p] + excess[p]
    <3>1. Charged(p) \in Int /\ Excess(p) \in Int  BY <1>4, <2>1
    <3>2. Charged(p) = (Charged(p) - Excess(p)) + Excess(p)  BY <3>1
    <3> QED  BY <3>2
  <2>6. f[p] <= total[p]
    <3> HIDE DEF f, total
    <3> QED  BY <1>4, <2>1, <2>2, <2>3, <2>4
  <2> QED  BY <2>5, <2>6
<1>9. ASSUME NEW p \in Lost(d, a)  PROVE -probe[p].held <= total[p]
  <2>1. p \in Probes /\ Reserves(probe[p], d, a) /\ probe[p].lost
    BY <1>3, <1>4 DEF Lost
  <2>2. total[p] = IF probe[p].at = "done" THEN -probe[p].held ELSE 0  BY <2>1 DEF PartOf
  <2>3. \A n \in Nat : -n <= -n /\ -n <= 0  OBVIOUS
  <2> HIDE DEF total
  <2> QED  BY <1>4, <2>1, <2>2, <2>3
<1>10. ASSUME NEW p \in Probes, p \notin Reserved(d, a)  PROVE 0 <= total[p]
  <2>1. total[p] = 0  BY <1>4, <1>10 DEF PartOf
  <2>2. 0 <= 0  OBVIOUS
  <2> QED  BY <2>1, <2>2
<1>11. SumOver(Known(d, a), Charged) = SumFunction(charged)
       /\ SumOver(Known(d, a), Excess) = SumFunction(excess)
  BY DEF SumOver
<1>12. IsFiniteSet(Known(d, a))
  <2>1. IsFiniteSet(Probes)  BY BudgetAssumption
  <2> QED  BY <1>3, <2>1, FS_Subset
<1> HIDE DEF charged, excess, f, total
<1>13. SumFunction(f) <= BudgetOf(a) + Unseen(d, a)
  BY <1>2, <1>5, <1>7, <1>8, <1>9, <1>10, KnownWithin
<1>14. SumFunction(charged) = SumFunction(f) + SumFunction(excess)
  BY <1>5, <1>6, <1>8, <1>12, SumOfBoth
<1>15. SumFunction(f) \in Int  BY <1>5, <1>12, SumTakesAny
<1>16. SumFunction(excess) \in Int  BY <1>6, <1>12, SumTakesAny
<1>17. Unseen(d, a) \in Int  BY UnseenCovers
<1> QED  BY <1>2, <1>11, <1>13, <1>14, <1>15, <1>16, <1>17

-----------------------------------------------------------------------------
(* Types                                                                   *)

\* A channel's lock has one holder at most.
LockInv ==
    /\ lock \in [Channels -> SUBSET Probes]
    /\ \A c \in Channels : \A p, q \in lock[c] : p = q

LEMMA LockInvStep == LockInv /\ [Next]_vars => LockInv'
<1> SUFFICES ASSUME LockInv, [Next]_vars  PROVE LockInv'  OBVIOUS
<1>1. ASSUME NEW p \in Probes, Lock(p)  PROVE LockInv'
  BY <1>1 DEF Lock, LockInv
<1>2. ASSUME NEW p \in Probes, Unlock(p)  PROVE LockInv'
  BY <1>2 DEF Unlock, LockInv
<1>3. CASE lock' = lock  BY <1>3 DEF LockInv
<1>4. ASSUME NEW S, Crash(S)  PROVE LockInv'
  <2>1. lock' = [c \in Channels |-> lock[c] \ S]  BY <1>4 DEF Crash
  <2> QED  BY <2>1 DEF LockInv
<1>5. ASSUME NEW p \in Probes, Step(p)  PROVE lock' = lock \/ Lock(p) \/ Unlock(p)
  BY <1>5 DEF Step, Skip, ReadFirst, ReadSecond, Reserve, Connect, LockFails, BalanceBefore, Chat, BalanceAfter,
              RecordProbeFailure, RecordSuccess, Adjust, Returns, dbVars
<1>6. NextTick \/ NextDay \/ LoseKeys \/ UNCHANGED vars => lock' = lock
  BY DEF NextTick, NextDay, LoseKeys, dbVars, vars
<1>7. ASSUME NEW c \in Channels, Moves(c, 1) \/ Moves(c, -2)  PROVE lock' = lock
  BY <1>7 DEF Moves, dbVars
<1> QED  BY <1>1, <1>2, <1>3, <1>4, <1>5, <1>6, <1>7 DEF Next

UpsetInv == disabled \in BOOLEAN /\ upsets \in 0..MaxUpsets

LEMMA UpsetInvStep == UpsetInv /\ [Next]_vars => UpsetInv'
<1> SUFFICES ASSUME UpsetInv, [Next]_vars  PROVE UpsetInv'  OBVIOUS
<1>1. Upset \/ upsets' = upsets
  <2>1. ASSUME NEW p \in Probes, Step(p)  PROVE Upset \/ upsets' = upsets
    BY <2>1 DEF Step, Skip, ReadFirst, ReadSecond, Reserve, Connect, Lock, LockFails, BalanceBefore, Chat,
                BalanceAfter, RecordProbeFailure, RecordSuccess, Adjust, NoUpset
  <2> QED  BY <2>1 DEF Next, Crash, NextTick, NextDay, LoseKeys, Moves, vars
<1>2. upsets' \in 0..MaxUpsets
  <2>1. MaxUpsets \in Nat  BY BudgetAssumption
  <2> QED  BY <1>1, <2>1 DEF UpsetInv, Upset
<1>3. disabled' = disabled \/ disabled' = FALSE \/ \E p : disabled' = (disabled \/ p \notin Manual)
  <2>1. ASSUME NEW p \in Probes, Step(p)
        PROVE  disabled' = disabled \/ disabled' = (disabled \/ p \notin Manual)
    BY <2>1 DEF Step, Skip, ReadFirst, ReadSecond, Reserve, Connect, Lock, LockFails, BalanceBefore, Chat,
                BalanceAfter, RecordProbeFailure, RecordSuccess, Adjust
  <2> QED  BY <2>1 DEF Next, Crash, NextTick, NextDay, LoseKeys, Moves, vars
<1>4. disabled' \in BOOLEAN  BY <1>3 DEF UpsetInv
<1> QED  BY <1>2, <1>4 DEF UpsetInv

LEMMA TypesHold == BudgetInv /\ LockInv /\ UpsetInv => TypeOK
<1> SUFFICES ASSUME BudgetInv, LockInv, UpsetInv  PROVE TypeOK  OBVIOUS
<1>1. ASSUME NEW c \in Channels  PROVE Cardinality(lock[c]) <= 1
  <2>1. 0 <= 1 /\ 1 <= 1  OBVIOUS
  <2>2. CASE lock[c] = {}  BY <2>1, <2>2, FS_EmptySet
  <2>3. CASE lock[c] # {}
    <3>1. PICK p : p \in lock[c]  BY <2>3
    <3>2. lock[c] = {p}  BY <3>1 DEF LockInv
    <3> QED  BY <2>1, <3>2, FS_Singleton
  <2> QED  BY <2>2, <2>3
<1> QED  BY <1>1 DEF TypeOK, BudgetInv, Books, LockInv, UpsetInv

LEMMA RestInitially == Init => LockInv /\ UpsetInv
<1> SUFFICES ASSUME Init  PROVE LockInv /\ UpsetInv  OBVIOUS
<1>1. LockInv  BY DEF Init, LockInv
<1>2. UpsetInv
  <2>1. MaxUpsets \in Nat  BY BudgetAssumption
  <2>2. disabled = FALSE /\ upsets = 0  BY DEF Init
  <2>3. 0 \in 0..MaxUpsets  BY <2>1
  <2> QED  BY <2>2, <2>3 DEF UpsetInv
<1> QED  BY <1>1, <1>2

LEMMA BudgetAlways == Spec => []BudgetInv
BY MeasureInvInitially, MeasureInvStep, BudgetInvInitially, BudgetInvStep, PTL DEF Spec

\* Every record, ledger and row keeps its type, and a channel's lock has one
\* holder at most (probe.go 501-520).
THEOREM TypeCorrect == Spec => []TypeOK
BY BudgetAlways, LockInvStep, UpsetInvStep, RestInitially, TypesHold, PTL DEF Spec

\* The ledger of a day and account holds what its probes were charged, wherever
\* each of them failed or died between the reservation and the settlement,
\* across midnight and after the loss of the keys, short only of what a lost
\* reservation or a negative cost hides (budget.go 14-18, probe.go 102-108).
THEOREM LedgerCoversCharges == Spec => []LedgerCovers
BY BudgetAlways, InvCovers, PTL

\* The probes of both processes together never spend more than the budget of
\* their channel or the global one, but for what single requests cost beyond
\* their reservation (budget.go 14-18).
THEOREM BudgetIsKept == Spec => []NeverOverspends
BY BudgetAlways, InvSpends, PTL
=============================================================================
