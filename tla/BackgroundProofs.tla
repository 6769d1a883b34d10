--------------------------- MODULE BackgroundProofs ---------------------------
(***************************************************************************)
(* Theorems about the alerts and the bot's inbox, as MCBackground puts     *)
(* them beside the sample buffer: for any alerts, processes, subscribers,  *)
(* grants, updates and bounds. An alert recovers for a reason, a change    *)
(* behind the watermark was told, and an update Telegram forgets was       *)
(* answered.                                                               *)
(***************************************************************************)
EXTENDS MCBackground, FiniteSetTheorems, TLAPS

-----------------------------------------------------------------------------
(* The inbox                                                               *)

\* Every update below n has an answer.
AnsweredBelow(n) == \A u \in Bot!Update : u < n => answers[u] # {}

\* A round of a poller; what it has passed is answered, what it has handled too.
GoodRound(r) ==
    \/ r.at = "idle"
    \/ r.at = "poll" /\ r.since \in Nat /\ AnsweredBelow(r.since)
    \/ /\ r.at = "handle" /\ DOMAIN r = {"at", "next", "last"} /\ r.next \in Nat
       /\ AnsweredBelow(r.next)
    \/ /\ r.at = "store" /\ DOMAIN r = {"at", "next", "last"} /\ r.next \in Nat
       /\ AnsweredBelow(r.next + 1)

\* Offsets stored, confirmed or remembered by a poller, whether or not it still
\* has the lock, stand behind answered updates only.
InboxInv ==
    /\ offset \in Nat /\ AnsweredBelow(offset)
    /\ dropped \in Nat /\ AnsweredBelow(dropped)
    /\ poller = [c \in Poller |-> poller[c]]
    /\ \A c \in Poller : GoodRound(poller[c])
    /\ answers = [u \in Bot!Update |-> answers[u]]

\* Answers are never taken back.
LEMMA AnsweredStays ==
  ASSUME \A u \in Bot!Update : answers[u] # {} => answers'[u] # {}, NEW n, AnsweredBelow(n)
  PROVE  AnsweredBelow(n)'
BY DEF AnsweredBelow

LEMMA RoundStays ==
  ASSUME \A u \in Bot!Update : answers[u] # {} => answers'[u] # {}, NEW r, GoodRound(r)
  PROVE  GoodRound(r)'
BY AnsweredStays DEF GoodRound

\* One poller moves to a good round while answers only grow.
LEMMA InboxMoves ==
  ASSUME InboxInv, \A u \in Bot!Update : answers[u] # {} => answers'[u] # {},
         answers' = [u \in Bot!Update |-> answers'[u]],
         NEW c \in Poller, NEW r, poller' = [poller EXCEPT ![c] = r], GoodRound(r)',
         offset' = offset \/ (offset' \in Nat /\ AnsweredBelow(offset)'),
         dropped' = dropped \/ (dropped' \in Nat /\ AnsweredBelow(dropped)')
  PROVE  InboxInv'
<1>1. offset' \in Nat /\ AnsweredBelow(offset)'
  <2>1. ASSUME offset' = offset  PROVE AnsweredBelow(offset)'
    BY <2>1, AnsweredStays DEF InboxInv, AnsweredBelow
  <2> QED  BY <2>1 DEF InboxInv
<1>2. dropped' \in Nat /\ AnsweredBelow(dropped)'
  <2>1. ASSUME dropped' = dropped  PROVE AnsweredBelow(dropped)'
    BY <2>1, AnsweredStays DEF InboxInv, AnsweredBelow
  <2> QED  BY <2>1 DEF InboxInv
<1>3. poller' = [d \in Poller |-> poller'[d]] /\ poller'[c] = r
      /\ \A d \in Poller \ {c} : poller'[d] = poller[d]
  BY DEF InboxInv
<1>4. \A d \in Poller : GoodRound(poller[d])'
  <2>1. \A d \in Poller : GoodRound(poller[d])  BY DEF InboxInv
  <2>2. ASSUME NEW d \in Poller, d # c  PROVE GoodRound(poller[d])'
    <3>1. poller'[d] = poller[d] /\ GoodRound(poller[d])  BY <1>3, <2>1, <2>2
    <3>2. ASSUME NEW q, GoodRound(q), poller'[d] = q  PROVE GoodRound(poller[d])'
      BY <3>2, RoundStays DEF GoodRound, AnsweredBelow
    <3> QED  BY <3>1, <3>2
  <2> QED  BY <1>3, <2>2 DEF GoodRound, AnsweredBelow
<1> QED  BY <1>1, <1>2, <1>3, <1>4 DEF InboxInv

LEMMA IdleIsGood == GoodRound(Bot!Idle) /\ GoodRound(Bot!Idle)'
BY DEF GoodRound, Bot!Idle

LEMMA PollKeeps ==
  ASSUME InboxInv, NEW c \in Poller, Bot!Lock(c) \/ Bot!GetUpdates(c)
  PROVE  InboxInv'
<1>1. /\ answers' = answers /\ offset' = offset
      /\ answers' = [u \in Bot!Update |-> answers'[u]]
      /\ \A u \in Bot!Update : answers[u] # {} => answers'[u] # {}
  BY DEF InboxInv, Bot!Lock, Bot!GetUpdates
<1>2. CASE Bot!Lock(c)
  <2> DEFINE r == [at |-> "poll", since |-> offset]
  <2>1. \A q : q = r => GoodRound(q)'  BY <1>1 DEF InboxInv, GoodRound, AnsweredBelow
  <2>2. poller' = [poller EXCEPT ![c] = r] /\ dropped' = dropped  BY <1>2 DEF Bot!Lock
  <2>3. \E q : poller' = [poller EXCEPT ![c] = q] /\ GoodRound(q)'  BY <2>1, <2>2
  <2>4. PICK q : poller' = [poller EXCEPT ![c] = q] /\ GoodRound(q)'  BY <2>3
  <2> QED  BY <1>1, <2>2, <2>4, InboxMoves
<1>3. CASE Bot!GetUpdates(c)
  <2>1. /\ poller[c].at = "poll" /\ GoodRound(poller[c])
        /\ dropped' = IF dropped < poller[c].since THEN poller[c].since ELSE dropped
    BY <1>3 DEF Bot!GetUpdates, InboxInv
  <2>2. dropped' \in Nat /\ AnsweredBelow(dropped)'
    BY <1>1, <2>1 DEF GoodRound, InboxInv, AnsweredBelow
  <2>3. PICK last : \/ poller' = [poller EXCEPT ![c] = Bot!Idle]
                    \/ poller' = [poller EXCEPT ![c] = [at |-> "handle", next |-> dropped', last |-> last]]
    BY <1>3 DEF Bot!GetUpdates, Bot!Stop
  <2> DEFINE r == [at |-> "handle", next |-> dropped', last |-> last]
  <2>4. \A q : q = r => GoodRound(q)'  BY <2>2 DEF GoodRound, AnsweredBelow
  <2>5. \E q : poller' = [poller EXCEPT ![c] = q] /\ GoodRound(q)'
    BY <2>3, <2>4, IdleIsGood
  <2>6. PICK q : poller' = [poller EXCEPT ![c] = q] /\ GoodRound(q)'  BY <2>5
  <2> QED  BY <1>1, <2>2, <2>6, InboxMoves
<1> QED  BY <1>2, <1>3

\* Whatever an update asks for, it is replied to.
LEMMA HandledIsReplied ==
  ASSUME NEW c \in Poller, Bot!Handle(c)
  PROVE  /\ poller[c].at = "handle" /\ UNCHANGED <<offset, dropped>>
         /\ \E what : Bot!Reply(c, poller[c].next, what)
<1> DEFINE u == poller[c].next
<1>1. ASSUME NEW what, Bot!Say(c, u, what)  PROVE \E w : Bot!Reply(c, u, w)
  BY <1>1 DEF Bot!Say
<1>2. ASSUME NEW station, NEW model, Bot!OrderTest(c, u, station, model)
      PROVE  \E w : Bot!Reply(c, u, w)
  BY <1>1, <1>2 DEF Bot!OrderTest, Bot!StartTest
<1>3. ASSUME NEW w, Bot!Wizard(c, u, w)  PROVE \E v : Bot!Reply(c, u, v)
  BY <1>1, <1>2, <1>3 DEF Bot!Wizard
<1> HIDE DEF u
<1>4. \E w : Bot!Reply(c, u, w)  BY <1>1, <1>2, <1>3 DEF Bot!Handle, u
<1> QED  BY <1>4 DEF Bot!Handle, u

LEMMA HandleKeeps ==
  ASSUME InboxInv, NEW c \in Poller, Bot!Handle(c)
  PROVE  InboxInv'
<1>1. PICK u, old : u = poller[c].next /\ old = poller[c]  OBVIOUS
<1>2. /\ old.at = "handle" /\ GoodRound(old) /\ UNCHANGED <<offset, dropped>>
      /\ answers = [v \in Bot!Update |-> answers[v]]
  BY <1>1, HandledIsReplied DEF InboxInv
<1>3. PICK what : Bot!Reply(c, u, what)  BY <1>1, HandledIsReplied
<1> DEFINE r == [old EXCEPT !.at = "store"]
<1>4. PICK x : \/ answers' = [answers EXCEPT ![u] = @ \cup {x}] /\ poller' = [poller EXCEPT ![c] = r]
               \/ answers' = answers /\ poller' = [poller EXCEPT ![c] = Bot!Idle]
  BY <1>1, <1>3 DEF Bot!Reply, Bot!Stop
<1>5. /\ answers' = [v \in Bot!Update |-> answers'[v]]
      /\ \A v \in Bot!Update : answers[v] # {} => answers'[v] # {}
  BY <1>2, <1>4
<1>6. ASSUME answers' = [answers EXCEPT ![u] = @ \cup {x}]  PROVE GoodRound(r)'
  <2>1. /\ DOMAIN r = {"at", "next", "last"} /\ r.at = "store" /\ r.next = u
        /\ u \in Nat /\ AnsweredBelow(u)
    BY <1>1, <1>2 DEF GoodRound
  <2>2. \A v \in Bot!Update : v < u + 1 => answers'[v] # {}
    <3> SUFFICES ASSUME NEW v \in Bot!Update, v < u + 1  PROVE answers'[v] # {}
      OBVIOUS
    <3>1. v < u \/ v = u  BY <2>1 DEF Bot!Update
    <3>2. CASE v < u  BY <1>5, <2>1, <3>2 DEF AnsweredBelow
    <3>3. CASE v = u  BY <1>2, <1>6, <3>3
    <3> QED  BY <3>1, <3>2, <3>3
  <2> HIDE DEF r
  <2> QED  BY <2>1, <2>2 DEF GoodRound, AnsweredBelow
<1>7. PICK q : poller' = [poller EXCEPT ![c] = q] /\ GoodRound(q)'
  <2> HIDE DEF r
  <2> QED  BY <1>4, <1>6, IdleIsGood
<1> QED  BY <1>2, <1>5, <1>7, InboxMoves

LEMMA StoreKeeps ==
  ASSUME InboxInv, NEW c \in Poller, Bot!UpdateLastUpdateID(c)
  PROVE  InboxInv'
<1>1. PICK u, old : u = poller[c].next /\ old = poller[c]  OBVIOUS
<1>2. /\ old.at = "store" /\ GoodRound(old) /\ dropped' = dropped /\ answers' = answers
      /\ answers = [v \in Bot!Update |-> answers[v]]
  BY <1>1 DEF InboxInv, Bot!UpdateLastUpdateID
<1> DEFINE r == [old EXCEPT !.at = "handle", !.next = u + 1]
<1>3. /\ offset' \in {offset, u + 1}
      /\ poller' \in {[poller EXCEPT ![c] = r], [poller EXCEPT ![c] = Bot!Idle]}
  BY <1>1 DEF Bot!UpdateLastUpdateID, Bot!Stop, InboxInv
<1>4. /\ DOMAIN r = {"at", "next", "last"} /\ r.at = "handle" /\ r.next = u + 1
      /\ u + 1 \in Nat /\ AnsweredBelow(u + 1)
  BY <1>1, <1>2 DEF GoodRound
<1> HIDE DEF r
<1>5. GoodRound(r) /\ offset' \in Nat /\ AnsweredBelow(offset')
  BY <1>3, <1>4 DEF GoodRound, InboxInv
<1>6. GoodRound(r)' /\ AnsweredBelow(offset)'
  BY <1>2, <1>5 DEF GoodRound, AnsweredBelow
<1>7. PICK q : poller' = [poller EXCEPT ![c] = q] /\ GoodRound(q)'
  BY <1>3, <1>6, IdleIsGood
<1> QED  BY <1>2, <1>5, <1>6, <1>7, InboxMoves

LEMMA InboxInvStep == InboxInv /\ [Bot!Next]_botVars => InboxInv'
<1> SUFFICES ASSUME InboxInv, [Bot!Next]_botVars  PROVE InboxInv'  OBVIOUS
<1>1. ASSUME UNCHANGED <<offset, dropped, poller, answers>>  PROVE InboxInv'
  BY <1>1 DEF InboxInv, GoodRound, AnsweredBelow
<1>2. ASSUME NEW c \in Poller, Bot!Poll(c)  PROVE InboxInv'
  BY <1>2, PollKeeps, HandleKeeps, StoreKeeps DEF Bot!Poll
<1>3. ASSUME NEW c \in Poller, Bot!Crash(c)  PROVE InboxInv'
  <2>1. poller' = [poller EXCEPT ![c] = Bot!Idle] /\ UNCHANGED <<offset, dropped, answers>>
    BY <1>3 DEF Bot!Crash, Bot!Stop
  <2>2. PICK q : q = Bot!Idle /\ GoodRound(q)'  BY IdleIsGood
  <2> QED  BY <2>1, <2>2, InboxMoves DEF InboxInv
<1>4. Bot!Revoke \/ (\E c \in Poller : Bot!LoseLock(c))
        \/ (\E c \in Poller, u \in Bot!Update : Bot!RunTest(c, u)) \/ UNCHANGED botVars
        => UNCHANGED <<offset, dropped, poller, answers>>
  BY DEF Bot!Revoke, Bot!LoseLock, Bot!RunTest, botVars
<1> QED  BY <1>1, <1>2, <1>3, <1>4 DEF Bot!Next

\* The update before the stored offset was answered, so is what is below it.
LEMMA InboxInvInitially == Bot!Init => InboxInv
BY DEF Bot!Init, Bot!Update, Bot!Idle, InboxInv, GoodRound, AnsweredBelow

\* Telegram drops an update only when it was answered or refused for good: with
\* crashes, failing replies, offsets that were not stored and pollers that go on
\* without their lock (worker.go 137-180).
THEOREM UpdatesAreAnswered == Bot!Spec => []NothingLost
<1>1. InboxInv => NothingLost
  BY DEF InboxInv, AnsweredBelow, NothingLost, Bot!NothingLost
<1>2. InboxInv /\ [Bot!Next]_(Bot!vars) => InboxInv'  BY InboxInvStep DEF botVars, Bot!vars
<1> QED  BY <1>1, <1>2, InboxInvInitially, PTL DEF Bot!Spec

-----------------------------------------------------------------------------
(* Paid tests                                                              *)

\* The tests of an update that run, as a set: to count them needs no sum.
Tests(u) == UNION {{<<c, i>> : i \in 1..running[c][u]} : c \in Poller}
Charge(u) == paid[u] + Cardinality(Tests(u))

\* Updates below were handled, and are handled again only for a fault.
Due == IF \E c \in Poller : poller[c].at = "store" THEN offset + 1 ELSE offset

\* Whoever polls has the lock and knows the stored offset.
GoodTurn(c) ==
    \/ poller[c] = Bot!Idle
    \/ pollLock = c /\ poller[c].at = "poll" /\ poller[c].since = offset
    \/ pollLock = c /\ poller[c].at \in {"handle", "store"} /\ poller[c].next = offset

TurnInv == ~unlocked => dropped <= offset /\ \A c \in Poller : GoodTurn(c)

\* Types of what is counted.
Counted ==
    /\ running = [c \in Poller |-> [u \in Bot!Update |-> running[c][u]]]
    /\ \A c \in Poller, u \in Bot!Update : running[c][u] \in Nat
    /\ paid = [u \in Bot!Update |-> paid[u]]
    /\ \A u \in Bot!Update : paid[u] \in Nat /\ IsFiniteSet(Tests(u))

\* What is still due was paid for faults only, what was handled once more.
ChargeInv ==
    /\ Counted /\ pollFaults \in Nat
    /\ ~unlocked => \A u \in Bot!Update :
                       /\ Charge(u) <= 1 + pollFaults
                       /\ u >= Due => Charge(u) <= pollFaults

LEMMA TestsAre ==
  ASSUME NEW u, NEW x
  PROVE  x \in Tests(u) <=> \E c \in Poller : \E i \in 1..running[c][u] : x = <<c, i>>
BY DEF Tests

\* A poller that holds the lock keeps the others out.
LEMMA OthersIdle ==
  ASSUME TurnInv, ~unlocked, NEW c \in Poller, pollLock = c, NEW d \in Poller, d # c
  PROVE  poller[d] = Bot!Idle
BY DEF TurnInv, GoodTurn

\* One poller moves by its turn.
LEMMA TurnMoves ==
  ASSUME InboxInv, TurnInv, ~unlocked', unlocked' = unlocked, dropped' <= offset',
         NEW c \in Poller, NEW r, poller' = [poller EXCEPT ![c] = r], GoodTurn(c)',
         \A d \in Poller \ {c} : \/ poller[d] = Bot!Idle
                                 \/ pollLock' = pollLock /\ offset' = offset
  PROVE  TurnInv'
<1>1. poller = [d \in Poller |-> poller[d]]  BY DEF InboxInv
<1>2. ASSUME NEW d \in Poller, d # c  PROVE GoodTurn(d)'
  <2>1. poller'[d] = poller[d] /\ GoodTurn(d)  BY <1>1, <1>2 DEF TurnInv
  <2>2. CASE poller[d] = Bot!Idle  BY <2>1, <2>2 DEF GoodTurn, Bot!Idle
  <2>3. CASE pollLock' = pollLock /\ offset' = offset
    <3>1. PICK q : q = poller[d]  OBVIOUS
    <3> QED  BY <2>1, <2>3, <3>1 DEF GoodTurn, Bot!Idle
  <2> QED  BY <1>2, <2>2, <2>3
<1> QED  BY <1>2 DEF TurnInv

LEMMA TurnInvStep == InboxInv /\ TurnInv /\ [Bot!Next]_botVars => TurnInv'
<1> SUFFICES ASSUME InboxInv, TurnInv, [Bot!Next]_botVars, ~unlocked'  PROVE TurnInv'
  BY DEF TurnInv
<1>1. offset \in Nat /\ dropped \in Nat /\ poller = [c \in Poller |-> poller[c]]
  BY DEF InboxInv
<1>2. ASSUME UNCHANGED <<offset, dropped, poller, pollLock, unlocked>>  PROVE TurnInv'
  BY <1>2 DEF TurnInv, GoodTurn, Bot!Idle
<1>3. ASSUME NEW c \in Poller, Bot!Lock(c)  PROVE TurnInv'
  <2> DEFINE r == [at |-> "poll", since |-> offset]
  <2>1. /\ poller' = [poller EXCEPT ![c] = r] /\ pollLock = Bot!Free /\ pollLock' = c
        /\ UNCHANGED <<offset, dropped, unlocked>>
    BY <1>3 DEF Bot!Lock
  <2>2. \A d \in Poller : poller[d] = Bot!Idle  BY <2>1, LockAssumption DEF TurnInv, GoodTurn
  <2>3. dropped' <= offset'  BY <2>1 DEF TurnInv
  <2>4. PICK q : q = r  OBVIOUS
  <2>5. poller' = [poller EXCEPT ![c] = q] /\ GoodTurn(c)'  BY <1>1, <2>1, <2>4 DEF GoodTurn
  <2> QED  BY <2>1, <2>2, <2>3, <2>5, TurnMoves
<1>4. ASSUME NEW c \in Poller, poller[c].at \in {"poll", "handle", "store"}
      PROVE  ~unlocked => /\ pollLock = c /\ dropped <= offset
                          /\ \A d \in Poller \ {c} : poller[d] = Bot!Idle
                          /\ poller[c].at = "poll" => poller[c].since = offset
                          /\ poller[c].at # "poll" => poller[c].next = offset
  BY <1>4, OthersIdle DEF TurnInv, GoodTurn, Bot!Idle
<1>5. ASSUME NEW c \in Poller, Bot!GetUpdates(c)  PROVE TurnInv'
  <2>1. poller[c].at = "poll" /\ UNCHANGED <<offset, unlocked>>  BY <1>5 DEF Bot!GetUpdates
  <2>2. /\ pollLock = c /\ poller[c].since = offset
        /\ \A d \in Poller \ {c} : poller[d] = Bot!Idle
    BY <1>4, <2>1
  <2>3. dropped' = offset /\ dropped' <= offset'
    BY <1>1, <1>4, <1>5, <2>1, <2>2 DEF Bot!GetUpdates
  <2>4. PICK last : \/ poller' = [poller EXCEPT ![c] = Bot!Idle]
                    \/ /\ poller' = [poller EXCEPT ![c] = [at |-> "handle", next |-> dropped', last |-> last]]
                       /\ pollLock' = pollLock
    BY <1>5 DEF Bot!GetUpdates, Bot!Stop
  <2>5. PICK q : /\ poller' = [poller EXCEPT ![c] = q]
                 /\ q = Bot!Idle \/ (pollLock' = c /\ q.at = "handle" /\ q.next = offset)
    BY <2>2, <2>3, <2>4
  <2>6. GoodTurn(c)'  BY <1>1, <2>1, <2>5 DEF GoodTurn, Bot!Idle
  <2> QED  BY <2>1, <2>2, <2>3, <2>5, <2>6, TurnMoves
<1>6. ASSUME NEW c \in Poller, Bot!Handle(c)  PROVE TurnInv'
  <2>1. poller[c].at = "handle" /\ UNCHANGED <<offset, dropped, unlocked>>
    BY <1>6 DEF Bot!Handle
  <2>2. /\ pollLock = c /\ poller[c].next = offset /\ dropped' <= offset'
        /\ \A d \in Poller \ {c} : poller[d] = Bot!Idle
    BY <1>4, <2>1
  <2>3. PICK u, what : Bot!Reply(c, u, what)  BY <1>6, HandledIsReplied
  <2>4. PICK old : old = poller[c]  OBVIOUS
  <2>5. \/ poller' = [poller EXCEPT ![c] = Bot!Idle]
        \/ poller' = [poller EXCEPT ![c] = [old EXCEPT !.at = "store"]] /\ pollLock' = pollLock
    BY <2>3, <2>4 DEF Bot!Reply, Bot!Stop
  <2>6. DOMAIN old = {"at", "next", "last"} /\ old.next = offset
    BY <2>1, <2>2, <2>4 DEF InboxInv, GoodRound
  <2>7. PICK q : /\ poller' = [poller EXCEPT ![c] = q]
                 /\ q = Bot!Idle \/ (pollLock' = c /\ q.at = "store" /\ q.next = offset)
    BY <2>2, <2>5, <2>6
  <2>8. GoodTurn(c)'  BY <1>1, <2>1, <2>7 DEF GoodTurn, Bot!Idle
  <2> QED  BY <2>1, <2>2, <2>7, <2>8, TurnMoves
<1>7. ASSUME NEW c \in Poller, Bot!UpdateLastUpdateID(c)  PROVE TurnInv'
  <2>1. poller[c].at = "store" /\ UNCHANGED <<dropped, unlocked>>
    BY <1>7 DEF Bot!UpdateLastUpdateID
  <2>2. /\ pollLock = c /\ poller[c].next = offset /\ dropped' <= offset
        /\ \A d \in Poller \ {c} : poller[d] = Bot!Idle
    BY <1>4, <2>1
  <2>3. PICK old : old = poller[c]  OBVIOUS
  <2>4. \/ poller' = [poller EXCEPT ![c] = Bot!Idle] /\ offset' \in {offset, offset + 1}
        \/ /\ poller' = [poller EXCEPT ![c] = [old EXCEPT !.at = "handle", !.next = offset + 1]]
           /\ offset' = offset + 1 /\ pollLock' = pollLock
    BY <1>7, <2>2, <2>3 DEF Bot!UpdateLastUpdateID, Bot!Stop
  <2>5. DOMAIN old = {"at", "next", "last"}  BY <2>1, <2>3 DEF InboxInv, GoodRound
  <2>6. PICK q : /\ poller' = [poller EXCEPT ![c] = q]
                 /\ q = Bot!Idle \/ (pollLock' = c /\ q.at = "handle" /\ q.next = offset')
    BY <2>2, <2>4, <2>5
  <2>7. GoodTurn(c)'  BY <1>1, <2>6 DEF GoodTurn, Bot!Idle
  <2>8. dropped' <= offset'  BY <1>1, <2>1, <2>2, <2>4
  <2> QED  BY <2>1, <2>2, <2>6, <2>7, <2>8, TurnMoves
<1>8. ASSUME NEW c \in Poller, Bot!Crash(c)  PROVE TurnInv'
  <2>1. /\ poller' = [poller EXCEPT ![c] = Bot!Idle] /\ UNCHANGED <<offset, dropped, unlocked>>
        /\ pollLock' = IF pollLock = c THEN Bot!Free ELSE pollLock
    BY <1>8 DEF Bot!Crash, Bot!Stop
  <2>2. dropped' <= offset'  BY <2>1 DEF TurnInv
  <2>3. \A d \in Poller \ {c} : poller[d] = Bot!Idle \/ pollLock' = pollLock
    BY <2>1, OthersIdle
  <2>4. GoodTurn(c)'  BY <1>1, <2>1 DEF GoodTurn, Bot!Idle
  <2> QED  BY <2>1, <2>2, <2>3, <2>4, TurnMoves
<1>9. ASSUME NEW c \in Poller, Bot!LoseLock(c)  PROVE TurnInv'
  BY <1>9 DEF Bot!LoseLock
<1>10. Bot!Revoke \/ (\E c \in Poller, u \in Bot!Update : Bot!RunTest(c, u)) \/ UNCHANGED botVars
       => UNCHANGED <<offset, dropped, poller, pollLock, unlocked>>
  BY DEF Bot!Revoke, Bot!RunTest, botVars
<1> QED
  BY <1>2, <1>3, <1>5, <1>6, <1>7, <1>8, <1>9, <1>10 DEF Bot!Next, Bot!Poll

LEMMA ChargeIsNat ==
  ASSUME Counted, NEW u \in Bot!Update
  PROVE  Cardinality(Tests(u)) \in Nat /\ Charge(u) \in Nat
BY FS_CardinalityType DEF Counted, Charge

\* A test that starts is one more that runs.
LEMMA StartCharges ==
  ASSUME Counted, paid' = paid, NEW c \in Poller, NEW u,
         running' = [running EXCEPT ![c][u] = @ + 1]
  PROVE  Counted' /\ \A v \in Bot!Update : Charge(v)' <= (IF v = u THEN Charge(v) + 1 ELSE Charge(v))
<1>1. /\ running = [d \in Poller |-> [v \in Bot!Update |-> running[d][v]]]
      /\ \A d \in Poller, v \in Bot!Update : running[d][v] \in Nat
      /\ \A v \in Bot!Update : paid[v] \in Nat /\ IsFiniteSet(Tests(v))
  BY DEF Counted
<1>2. \A d \in Poller, v \in Bot!Update :
         running'[d][v] = IF d = c /\ v = u THEN running[d][v] + 1 ELSE running[d][v]
  BY <1>1
<1>3. running' = [d \in Poller |-> [v \in Bot!Update |-> running'[d][v]]]  BY <1>1
<1>4. ASSUME NEW v \in Bot!Update
      PROVE  IsFiniteSet(Tests(v))' /\ Charge(v)' <= (IF v = u THEN Charge(v) + 1 ELSE Charge(v))
  <2>1. CASE v # u
    <3>1. Tests(v)' = Tests(v)  BY <1>2, <2>1 DEF Tests
    <3> QED  BY <1>1, <2>1, <3>1, ChargeIsNat DEF Charge
  <2>2. CASE v = u
    <3>1. PICK n, T : n = running[c][v] + 1 /\ T = Tests(v)  OBVIOUS
    <3>2. \A d \in Poller : \A i : i \in 1..running'[d][v] <=> i \in 1..running[d][v] \/ (d = c /\ i = n)
      <4>1. n \in Nat /\ n > 0 /\ running[c][v] = n - 1 /\ running'[c][v] = n
        <5>1. running[c][v] \in Nat  BY <1>1
        <5>2. running'[c][v] = running[c][v] + 1  BY <1>2, <2>2
        <5> QED  BY <3>1, <5>1, <5>2
      <4>2. 1..n = (1..(n - 1)) \cup {n}  BY <4>1
      <4>3. \A d \in Poller : d # c => running'[d][v] = running[d][v]  BY <1>2
      <4> QED  BY <4>1, <4>2, <4>3
    <3>3. Tests(v)' = T \cup {<<c, n>>}
      <4>1. \A x : x \in Tests(v)' <=> \E d \in Poller : \E i \in 1..running'[d][v] : x = <<d, i>>
        BY DEF Tests
      <4>2. \A x : x \in T <=> \E d \in Poller : \E i \in 1..running[d][v] : x = <<d, i>>
        BY <3>1, TestsAre
      <4> QED  BY <3>2, <4>1, <4>2
    <3>4. IsFiniteSet(T) /\ Cardinality(T) \in Nat  BY <1>1, <3>1, ChargeIsNat
    <3>5. /\ IsFiniteSet(T \cup {<<c, n>>})
          /\ Cardinality(T \cup {<<c, n>>}) \in {Cardinality(T), Cardinality(T) + 1}
      BY <3>4, FS_AddElement
    <3>6. PICK S : S = T \cup {<<c, n>>}  OBVIOUS
    <3>7. IsFiniteSet(S) /\ Cardinality(S) \in {Cardinality(T), Cardinality(T) + 1}
      BY <3>5, <3>6
    <3>8. Tests(v)' = S  BY <3>3, <3>6
    <3>9. Charge(v)' = paid[v] + Cardinality(S) /\ Charge(v) = paid[v] + Cardinality(T)
      BY <3>1, <3>8 DEF Charge
    <3> QED  BY <1>1, <2>2, <3>4, <3>7, <3>8, <3>9
  <2> QED  BY <2>1, <2>2
<1>5. \A d \in Poller, v \in Bot!Update : running'[d][v] \in Nat  BY <1>1, <1>2
<1> QED  BY <1>3, <1>4, <1>5 DEF Counted

\* A test that is over was paid.
LEMMA PayingMoves ==
  ASSUME Counted, NEW c \in Poller, NEW u \in Bot!Update, Bot!RunTest(c, u)
  PROVE  Counted' /\ \A v \in Bot!Update : Charge(v)' <= Charge(v)
<1>1. /\ running = [d \in Poller |-> [v \in Bot!Update |-> running[d][v]]]
      /\ \A d \in Poller, v \in Bot!Update : running[d][v] \in Nat
      /\ paid = [v \in Bot!Update |-> paid[v]]
      /\ \A v \in Bot!Update : paid[v] \in Nat /\ IsFiniteSet(Tests(v))
  BY DEF Counted
<1>2. /\ running[c][u] > 0 /\ running' = [running EXCEPT ![c][u] = @ - 1]
      /\ paid' = [paid EXCEPT ![u] = @ + 1]
  BY DEF Bot!RunTest
<1>3. \A d \in Poller, v \in Bot!Update :
         running'[d][v] = IF d = c /\ v = u THEN running[d][v] - 1 ELSE running[d][v]
  BY <1>1, <1>2
<1>4. /\ running' = [d \in Poller |-> [v \in Bot!Update |-> running'[d][v]]]
      /\ paid' = [v \in Bot!Update |-> paid'[v]]
      /\ \A v \in Bot!Update : paid'[v] = IF v = u THEN paid[v] + 1 ELSE paid[v]
  BY <1>1, <1>2
<1>5. ASSUME NEW v \in Bot!Update
      PROVE  IsFiniteSet(Tests(v))' /\ Charge(v)' <= Charge(v)
  <2>1. CASE v # u
    <3>1. Tests(v)' = Tests(v)  BY <1>3, <2>1 DEF Tests
    <3> QED  BY <1>1, <1>4, <2>1, <3>1, ChargeIsNat DEF Charge
  <2>2. CASE v = u
    <3>1. PICK n, T : n = running[c][v] /\ T = Tests(v)  OBVIOUS
    <3>2. \A d \in Poller : \A i : i \in 1..running'[d][v] <=> i \in 1..running[d][v] /\ ~(d = c /\ i = n)
      <4>1. n \in Nat /\ n > 0 /\ running[c][v] = n /\ running'[c][v] = n - 1
        BY <1>1, <1>2, <1>3, <2>2, <3>1
      <4>2. 1..(n - 1) = (1..n) \ {n}  BY <4>1
      <4>3. \A d \in Poller : d # c => running'[d][v] = running[d][v]  BY <1>3
      <4> QED  BY <4>1, <4>2, <4>3
    <3>3. /\ \A x : x \in Tests(v)' <=> \E d \in Poller : \E i \in 1..running'[d][v] : x = <<d, i>>
          /\ \A x : x \in T <=> \E d \in Poller : \E i \in 1..running[d][v] : x = <<d, i>>
      BY <3>1, TestsAre DEF Tests
    <3>4. Tests(v)' = T \ {<<c, n>>}  BY <3>2, <3>3
    <3>5. <<c, n>> \in T
      <4>1. n \in 1..running[c][v]  BY <1>1, <1>2, <2>2, <3>1
      <4> QED  BY <3>3, <4>1
    <3>6. IsFiniteSet(T) /\ Cardinality(T) \in Nat  BY <1>1, <3>1, ChargeIsNat
    <3>7. PICK S : S = T \ {<<c, n>>}  OBVIOUS
    <3>8. IsFiniteSet(S) /\ Cardinality(S) = Cardinality(T) - 1
      BY <3>5, <3>6, <3>7, FS_RemoveElement
    <3>9. Tests(v)' = S  BY <3>4, <3>7
    <3>10. Charge(v)' = paid[v] + 1 + Cardinality(S) /\ Charge(v) = paid[v] + Cardinality(T)
      BY <1>4, <2>2, <3>1, <3>9 DEF Charge
    <3> QED  BY <1>1, <3>6, <3>8, <3>9, <3>10
  <2> QED  BY <2>1, <2>2
<1>6. \A d \in Poller, v \in Bot!Update : running'[d][v] \in Nat  BY <1>1, <1>2, <1>3
<1>7. \A v \in Bot!Update : paid'[v] \in Nat  BY <1>1, <1>4
<1> QED  BY <1>4, <1>5, <1>6, <1>7 DEF Counted

\* A crash ends tests unpaid.
LEMMA CrashForgets ==
  ASSUME Counted, NEW c \in Poller, Bot!Crash(c)
  PROVE  Counted' /\ \A v \in Bot!Update : Charge(v)' <= Charge(v)
<1>1. /\ running = [d \in Poller |-> [v \in Bot!Update |-> running[d][v]]]
      /\ \A d \in Poller, v \in Bot!Update : running[d][v] \in Nat
      /\ paid = [v \in Bot!Update |-> paid[v]]
      /\ \A v \in Bot!Update : paid[v] \in Nat /\ IsFiniteSet(Tests(v))
  BY DEF Counted
<1>2. running' = [running EXCEPT ![c] = [v \in Bot!Update |-> 0]] /\ paid' = paid
  BY DEF Bot!Crash
<1>3. \A d \in Poller, v \in Bot!Update : running'[d][v] = IF d = c THEN 0 ELSE running[d][v]
  BY <1>1, <1>2
<1>4. running' = [d \in Poller |-> [v \in Bot!Update |-> running'[d][v]]]
  BY <1>1, <1>2
<1>5. ASSUME NEW v \in Bot!Update
      PROVE  IsFiniteSet(Tests(v))' /\ Charge(v)' <= Charge(v)
  <2>1. \A d \in Poller : \A i : i \in 1..running'[d][v] => i \in 1..running[d][v]
    BY <1>1, <1>3
  <2>2. PICK T : T = Tests(v)  OBVIOUS
  <2>3. /\ \A x : x \in Tests(v)' <=> \E d \in Poller : \E i \in 1..running'[d][v] : x = <<d, i>>
        /\ \A x : x \in T <=> \E d \in Poller : \E i \in 1..running[d][v] : x = <<d, i>>
    BY <2>2, TestsAre DEF Tests
  <2>4. \E S \in SUBSET T : Tests(v)' = S  BY <2>1, <2>3
  <2>5. PICK S \in SUBSET T : Tests(v)' = S  BY <2>4
  <2>6. IsFiniteSet(T) /\ Cardinality(T) \in Nat  BY <1>1, <2>2, ChargeIsNat
  <2>7. IsFiniteSet(S) /\ Cardinality(S) <= Cardinality(T)  BY <2>6, FS_Subset
  <2>8. Cardinality(S) \in Nat  BY <2>7, FS_CardinalityType
  <2>9. Charge(v)' = paid[v] + Cardinality(S) /\ Charge(v) = paid[v] + Cardinality(T)
    BY <1>2, <2>2, <2>5 DEF Charge
  <2> QED  BY <1>1, <2>5, <2>6, <2>7, <2>8, <2>9
<1>6. \A d \in Poller, v \in Bot!Update : running'[d][v] \in Nat  BY <1>1, <1>3
<1> QED  BY <1>1, <1>2, <1>4, <1>5, <1>6 DEF Counted

LEMMA NothingCharged ==
  ASSUME Counted, UNCHANGED <<running, paid>>
  PROVE  Counted' /\ \A v \in Bot!Update : Charge(v)' <= Charge(v)
<1>1. \A v \in Bot!Update : Charge(v) \in Nat  BY ChargeIsNat
<1>2. \A v \in Bot!Update : Tests(v)' = Tests(v)  BY DEF Tests
<1> QED  BY <1>1, <1>2 DEF Counted, Charge

\* Without a new charge, an update becomes due again only for a fault.
LEMMA DueAgain ==
  ASSUME ChargeInv, Counted', \A u \in Bot!Update : Charge(u)' <= Charge(u),
         pollFaults' \in {pollFaults, pollFaults + 1}, unlocked' = unlocked,
         ~unlocked /\ pollFaults' = pollFaults => \A u \in Bot!Update : u >= Due' => u >= Due
  PROVE  ChargeInv'
<1>1. Counted /\ pollFaults \in Nat  BY DEF ChargeInv
<1>2. ASSUME ~unlocked, NEW u \in Bot!Update
      PROVE  Charge(u)' <= 1 + pollFaults' /\ (u >= Due' => Charge(u)' <= pollFaults')
  <2>1. PICK old, new : old = Charge(u) /\ new = Charge(u)'  OBVIOUS
  <2>2. Charge(u)' \in Nat  BY FS_CardinalityType DEF Counted, Charge
  <2>3. old \in Nat /\ new \in Nat /\ new <= old /\ old <= 1 + pollFaults
    BY <1>1, <1>2, <2>1, <2>2, ChargeIsNat DEF ChargeInv
  <2>4. u >= Due => old <= pollFaults  BY <1>2, <2>1 DEF ChargeInv
  <2>5. CASE pollFaults' = pollFaults + 1
    <3>1. new <= 1 + pollFaults' /\ new <= pollFaults'  BY <1>1, <2>3, <2>5
    <3> QED  BY <2>1, <3>1
  <2>6. CASE pollFaults' = pollFaults
    <3>1. new <= 1 + pollFaults'  BY <1>1, <2>3, <2>6
    <3>2. ASSUME u >= Due'  PROVE new <= pollFaults'
      <4>1. u >= Due  BY <1>2, <2>6, <3>2
      <4> QED  BY <1>1, <2>3, <2>4, <2>6, <4>1
    <3> QED  BY <2>1, <3>1, <3>2
  <2> QED  BY <2>5, <2>6
<1>3. pollFaults' \in Nat  BY <1>1
<1> QED  BY <1>2, <1>3 DEF ChargeInv

LEMMA FaultsAre == Bot!Fault => pollFaults' = pollFaults + 1
BY DEF Bot!Fault

\* Handling an update may start its test once, and the update is due no more.
LEMMA HandleCharges ==
  ASSUME InboxInv, TurnInv, ChargeInv, NEW c \in Poller, Bot!Handle(c)
  PROVE  ChargeInv'
<1>1. PICK u : u = poller[c].next  OBVIOUS
<1>2. /\ poller[c].at = "handle" /\ UNCHANGED <<offset, paid, unlocked>>
      /\ poller = [d \in Poller |-> poller[d]] /\ offset \in Nat
  BY DEF Bot!Handle, InboxInv
<1>3. running' = running \/ running' = [running EXCEPT ![c][u] = @ + 1]
  <2>1. ASSUME NEW what, Bot!Say(c, u, what)  PROVE running' = running
    BY <2>1 DEF Bot!Say
  <2>2. ASSUME NEW station, NEW model, Bot!OrderTest(c, u, station, model)
        PROVE  running' = running \/ running' = [running EXCEPT ![c][u] = @ + 1]
    BY <2>1, <2>2 DEF Bot!OrderTest, Bot!StartTest
  <2>3. ASSUME NEW w, Bot!Wizard(c, u, w)
        PROVE  running' = running \/ running' = [running EXCEPT ![c][u] = @ + 1]
    BY <2>1, <2>2, <2>3 DEF Bot!Wizard
  <2> QED  BY <1>1, <2>1, <2>2, <2>3 DEF Bot!Handle
<1>4. Counted /\ pollFaults \in Nat  BY DEF ChargeInv
<1>5. /\ Counted'
      /\ \A v \in Bot!Update : Charge(v)' <= (IF v = u THEN Charge(v) + 1 ELSE Charge(v))
  <2>1. CASE running' = running
    <3>1. Counted' /\ \A v \in Bot!Update : Charge(v)' <= Charge(v)
      BY <1>2, <1>4, <2>1, NothingCharged
    <3>2. \A v \in Bot!Update : Charge(v) \in Nat  BY <1>4, ChargeIsNat
    <3>3. \A v \in Bot!Update : Charge(v)' \in Nat
      BY <3>1, FS_CardinalityType DEF Counted, Charge
    <3>4. ASSUME NEW v \in Bot!Update
          PROVE  Charge(v)' <= (IF v = u THEN Charge(v) + 1 ELSE Charge(v))
      <4>1. PICK old, new : old = Charge(v) /\ new = Charge(v)'  OBVIOUS
      <4>2. old \in Nat /\ new \in Nat /\ new <= old  BY <3>1, <3>2, <3>3, <4>1
      <4>3. new <= (IF v = u THEN old + 1 ELSE old)  BY <4>2
      <4> QED  BY <4>1, <4>3
    <3> QED  BY <3>1, <3>4
  <2>2. CASE running' = [running EXCEPT ![c][u] = @ + 1]
    BY <1>2, <1>4, <2>2, StartCharges
  <2> QED  BY <1>3, <2>1, <2>2
<1>6. PICK what : Bot!Reply(c, u, what)
  <2>1. \E w : Bot!Reply(c, poller[c].next, w)  BY HandledIsReplied
  <2> QED  BY <1>1, <2>1
<1>7. pollFaults' \in {pollFaults, pollFaults + 1}
      /\ (pollFaults' = pollFaults => poller'[c].at = "store")
  <2>1. \/ pollFaults' = pollFaults /\ poller' = [poller EXCEPT ![c].at = "store"]
        \/ pollFaults' = pollFaults + 1
    BY <1>6, FaultsAre DEF Bot!Reply
  <2>2. poller' = [poller EXCEPT ![c].at = "store"] => poller'[c].at = "store"
    <3>1. DOMAIN poller[c] = {"at", "next", "last"}  BY <1>2 DEF InboxInv, GoodRound
    <3> QED  BY <1>2, <3>1
  <2>3. pollFaults # pollFaults + 1  BY <1>4
  <2> QED  BY <2>1, <2>2, <2>3
<1>8. ASSUME ~unlocked
      PROVE  u = offset /\ Due = offset /\ (pollFaults' = pollFaults => Due' = offset + 1)
  <2>1. u = offset /\ \A d \in Poller : poller[d].at # "store"
    <3>1. pollLock = c /\ poller[c].next = offset  BY <1>2, <1>8 DEF TurnInv, GoodTurn, Bot!Idle
    <3>2. \A d \in Poller \ {c} : poller[d] = Bot!Idle  BY <1>8, <3>1, OthersIdle
    <3> QED  BY <1>1, <1>2, <3>1, <3>2 DEF Bot!Idle
  <2>2. Due = offset  BY <2>1 DEF Due
  <2>3. pollFaults' = pollFaults => Due' = offset + 1  BY <1>2, <1>7 DEF Due
  <2> QED  BY <2>1, <2>2, <2>3
<1>9. ASSUME ~unlocked, NEW v \in Bot!Update
      PROVE  Charge(v)' <= 1 + pollFaults' /\ (v >= Due' => Charge(v)' <= pollFaults')
  <2>1. PICK old, new : old = Charge(v) /\ new = Charge(v)'  OBVIOUS
  <2>2. Charge(v)' \in Nat  BY <1>5, FS_CardinalityType DEF Counted, Charge
  <2>3. /\ old \in Nat /\ new \in Nat /\ old <= 1 + pollFaults
        /\ new <= (IF v = u THEN old + 1 ELSE old)
        /\ v >= offset => old <= pollFaults
    BY <1>4, <1>5, <1>8, <1>9, <2>1, <2>2, ChargeIsNat DEF ChargeInv
  <2>4. v \in Nat  BY DEF Bot!Update
  <2>5. CASE pollFaults' = pollFaults + 1
    <3>1. new <= pollFaults' /\ new <= 1 + pollFaults'
      BY <1>2, <1>4, <1>8, <1>9, <2>3, <2>5
    <3> QED  BY <2>1, <3>1
  <2>6. CASE pollFaults' = pollFaults
    <3>1. new <= 1 + pollFaults'  BY <1>2, <1>4, <1>8, <1>9, <2>3, <2>6
    <3>2. ASSUME v >= offset + 1  PROVE new <= pollFaults'
      BY <1>2, <1>4, <1>8, <1>9, <2>3, <2>4, <2>6, <3>2
    <3> QED  BY <1>8, <1>9, <2>1, <2>6, <3>1, <3>2
  <2> QED  BY <1>7, <2>5, <2>6
<1>10. pollFaults' \in Nat  BY <1>4, <1>7
<1> QED  BY <1>2, <1>5, <1>9, <1>10 DEF ChargeInv

LEMMA ChargeInvStep ==
  InboxInv /\ TurnInv /\ ChargeInv /\ [Bot!Next]_botVars => ChargeInv'
<1> SUFFICES ASSUME InboxInv, TurnInv, ChargeInv, [Bot!Next]_botVars  PROVE ChargeInv'
  OBVIOUS
<1>1. /\ Counted /\ pollFaults \in Nat /\ offset \in Nat
      /\ poller = [d \in Poller |-> poller[d]] /\ Bot!Update \subseteq Nat
  BY DEF ChargeInv, InboxInv, Bot!Update
<1>2. ASSUME UNCHANGED <<offset, running, paid, unlocked>>, NEW c \in Poller, NEW r,
             poller' = [poller EXCEPT ![c] = r], poller[c].at # "store",
             pollFaults' \in {pollFaults, pollFaults + 1}
      PROVE  ChargeInv'
  <2>1. \A d \in Poller : poller[d].at = "store" => poller'[d].at = "store"
    BY <1>1, <1>2
  <2>2. \A u \in Bot!Update : u >= Due' => u >= Due
    <3>1. Due' >= Due  BY <1>1, <1>2, <2>1 DEF Due
    <3>2. Due \in Nat /\ Due' \in Nat  BY <1>1, <1>2 DEF Due
    <3> QED  BY <1>1, <3>1, <3>2
  <2> QED  BY <1>1, <1>2, <2>2, NothingCharged, DueAgain
<1>3. ASSUME NEW c \in Poller, Bot!Lock(c) \/ Bot!GetUpdates(c)  PROVE ChargeInv'
  <2>1. poller[c].at # "store" /\ UNCHANGED <<offset, running, paid, unlocked>>
    BY <1>3 DEF Bot!Lock, Bot!GetUpdates, Bot!Idle
  <2>2. pollFaults' \in {pollFaults, pollFaults + 1}
    BY <1>3, FaultsAre DEF Bot!Lock, Bot!GetUpdates
  <2>3. \E r : poller' = [poller EXCEPT ![c] = r]
    BY <1>3 DEF Bot!Lock, Bot!GetUpdates, Bot!Stop
  <2> QED  BY <1>2, <2>1, <2>2, <2>3
<1>4. ASSUME NEW c \in Poller, Bot!UpdateLastUpdateID(c)  PROVE ChargeInv'
  <2>1. /\ poller[c].at = "store" /\ UNCHANGED <<running, paid, unlocked>>
        /\ pollFaults' \in {pollFaults, pollFaults + 1}
        /\ pollFaults' = pollFaults => offset' = poller[c].next + 1
    BY <1>1, <1>4, FaultsAre DEF Bot!UpdateLastUpdateID
  <2>2. ASSUME ~unlocked, pollFaults' = pollFaults
        PROVE  \A u \in Bot!Update : u >= Due' => u >= Due
    <3>1. poller[c].next = offset  BY <2>1, <2>2 DEF TurnInv, GoodTurn, Bot!Idle
    <3>2. Due = offset + 1 /\ offset' = offset + 1  BY <2>1, <2>2, <3>1 DEF Due
    <3>3. Due' \in {offset', offset' + 1}  BY DEF Due
    <3> QED  BY <1>1, <3>2, <3>3
  <2> QED  BY <1>1, <2>1, <2>2, NothingCharged, DueAgain
<1>5. ASSUME NEW c \in Poller, Bot!Crash(c)  PROVE ChargeInv'
  <2>1. pollFaults' = pollFaults + 1 /\ unlocked' = unlocked
    BY <1>5, FaultsAre DEF Bot!Crash
  <2>2. pollFaults' # pollFaults  BY <1>1, <2>1
  <2> QED  BY <1>1, <1>5, <2>1, <2>2, CrashForgets, DueAgain
<1>6. ASSUME NEW c \in Poller, NEW u \in Bot!Update, Bot!RunTest(c, u)  PROVE ChargeInv'
  <2>1. UNCHANGED <<offset, poller, pollFaults, unlocked>>  BY <1>6 DEF Bot!RunTest
  <2>2. Due' = Due  BY <2>1 DEF Due
  <2> QED  BY <1>1, <1>6, <2>1, <2>2, PayingMoves, DueAgain
<1>7. ASSUME NEW c \in Poller, Bot!LoseLock(c)  PROVE ChargeInv'
  <2>1. UNCHANGED <<running, paid>> /\ unlocked' = TRUE /\ pollFaults' = pollFaults + 1
    BY <1>7, FaultsAre DEF Bot!LoseLock
  <2>2. Counted' /\ pollFaults' \in Nat  BY <1>1, <2>1, NothingCharged
  <2> QED  BY <2>1, <2>2 DEF ChargeInv
<1>8. ASSUME Bot!Revoke \/ UNCHANGED botVars  PROVE ChargeInv'
  <2>1. UNCHANGED <<offset, poller, running, paid, pollFaults, unlocked>>
    BY <1>8 DEF Bot!Revoke, botVars
  <2>2. Due' = Due  BY <2>1 DEF Due
  <2> QED  BY <1>1, <2>1, <2>2, NothingCharged, DueAgain
<1> QED
  BY <1>3, <1>4, <1>5, <1>6, <1>7, <1>8, HandleCharges DEF Bot!Next, Bot!Poll

LEMMA ChargeInvInitially == Bot!Init => TurnInv /\ ChargeInv
<1> SUFFICES ASSUME Bot!Init  PROVE TurnInv /\ ChargeInv  OBVIOUS
<1>1. TurnInv  BY DEF Bot!Init, Bot!Update, TurnInv, GoodTurn
<1>2. /\ running = [c \in Poller |-> [u \in Bot!Update |-> 0]]
      /\ paid = [u \in Bot!Update |-> 0] /\ pollFaults = 0
  BY DEF Bot!Init
<1>3. \A u \in Bot!Update : Tests(u) = {}
  <2>1. \A c \in Poller, u \in Bot!Update : 1..running[c][u] = {}  BY <1>2
  <2> QED  BY <2>1 DEF Tests
<1>4. Counted /\ \A u \in Bot!Update : Charge(u) = 0
  <2>1. \A u \in Bot!Update : IsFiniteSet(Tests(u)) /\ Cardinality(Tests(u)) = 0
    BY <1>3, FS_EmptySet
  <2> QED  BY <1>2, <2>1 DEF Counted, Charge
<1> QED  BY <1>1, <1>2, <1>4 DEF ChargeInv

\* A test ordered once is paid again only for a fault each, while the poller's
\* lock is kept: an update is handled again only if its offset was not stored,
\* and a test that a crash ends was not paid (worker.go 137-180, sitetest.go).
THEOREM TestsArePaidOnce == Bot!Spec => []PaidOnce
<1>1. ChargeInv => PaidOnce
  <2> SUFFICES ASSUME ChargeInv, ~unlocked, NEW u \in Bot!Update
               PROVE  paid[u] <= 1 + pollFaults
    BY DEF PaidOnce, Bot!PaidOnce
  <2>1. /\ paid[u] \in Nat /\ Cardinality(Tests(u)) \in Nat /\ pollFaults \in Nat
        /\ paid[u] + Cardinality(Tests(u)) <= 1 + pollFaults
    BY ChargeIsNat DEF ChargeInv, Counted, Charge
  <2> QED  BY <2>1
<1>2. InboxInv /\ [Bot!Next]_(Bot!vars) => InboxInv'  BY InboxInvStep DEF botVars, Bot!vars
<1>3. InboxInv /\ TurnInv /\ [Bot!Next]_(Bot!vars) => TurnInv'
  BY TurnInvStep DEF botVars, Bot!vars
<1>4. InboxInv /\ TurnInv /\ ChargeInv /\ [Bot!Next]_(Bot!vars) => ChargeInv'
  BY ChargeInvStep DEF botVars, Bot!vars
<1> QED
  BY <1>1, <1>2, <1>3, <1>4, InboxInvInitially, ChargeInvInitially, PTL DEF Bot!Spec

-----------------------------------------------------------------------------
(* Alerts                                                                  *)

RowFields == {"key", "first", "recovered"}
GoodRow(r) == DOMAIN r = RowFields /\ r.first \in Nat /\ r.recovered \in Nat

\* The cause of the alert was absent since it was raised, or a check that read
\* nothing, or came late, said so. Balances are not asked for one.
Excused(r) == r.key \in Balance \/ \E c \in cleared \cup doubted : c.key = r.key /\ c.first = r.first

\* What a reconciler under the lock has found so far excuses what it will
\* recover: nobody else writes rows meanwhile.
GoodReconciler(c) ==
    LET it == reconciler[c]
    IN  \/ it.at \in {"idle", "off"}
        \/ it.at = "balances" /\ lock = c
        \/ /\ it.at = "checks" /\ lock = c
           /\ \A r \in Alerts!Active : r.key \in Balance \ it.current => Excused(r)
        \/ /\ it.at = "write" /\ lock = c /\ it.now \in Nat
           /\ \A r \in Alerts!Active : r.key \notin it.current => Excused(r)

CauseInv ==
    /\ clock \in Nat
    /\ \A r \in rows : GoodRow(r) /\ (r.recovered # 0 => Excused(r))
    /\ \A r \in Alerts!Active : Alerts!Wanted(r.key) \/ Excused(r)
    /\ reconciler = [c \in Reconciler |-> reconciler[c]]
    /\ \A c \in Reconciler : GoodReconciler(c)
    /\ reporter = [w \in QualityWorker |-> reporter[w]]
    /\ \A w \in QualityWorker : reporter[w].at = "waiting" => reporter[w].now \in Nat

\* What a check no longer wants has its cause gone.
LEMMA GoneIs ==
  ASSUME NEW k, k \notin Balance, ~Alerts!Wanted(k)
  PROVE  Alerts!Gone(k)
BY DEF Alerts!Wanted, Alerts!Gone

LEMMA ExcuseStays ==
  ASSUME cleared \subseteq cleared', doubted \subseteq doubted', NEW r, Excused(r)
  PROVE  Excused(r)'
BY DEF Excused

\* Rows of a recovery: as they were, or stamped.
LEMMA RecoveredRows ==
  ASSUME NEW R, \A r \in R : GoodRow(r), NEW K, NEW t \in Nat, NEW r \in Alerts!Recover(R, K, t)
  PROVE  /\ GoodRow(r)
         /\ \/ r \in R /\ (r.recovered = 0 => r.key \notin K)
            \/ \E q \in R : /\ q.recovered = 0 /\ q.key \in K
                            /\ r.key = q.key /\ r.first = q.first /\ r.recovered = t
<1>1. PICK q \in R : r = IF q.recovered = 0 /\ q.key \in K THEN [q EXCEPT !.recovered = t] ELSE q
  BY DEF Alerts!Recover
<1>2. GoodRow(q)  OBVIOUS
<1>3. CASE q.recovered = 0 /\ q.key \in K
  <2>1. /\ DOMAIN r = RowFields /\ r.key = q.key /\ r.first = q.first /\ r.recovered = t
    BY <1>1, <1>2, <1>3 DEF GoodRow, RowFields
  <2> QED  BY <1>2, <1>3, <2>1 DEF GoodRow
<1>4. CASE ~(q.recovered = 0 /\ q.key \in K)  BY <1>1, <1>2, <1>4
<1> QED  BY <1>3, <1>4

\* Rows of a report: as they were, or new and active.
LEMMA UpsertedRows ==
  ASSUME NEW R, \A r \in R : GoodRow(r), NEW K, NEW t \in Nat, NEW r \in Alerts!Upsert(R, K, t)
  PROVE  GoodRow(r) /\ (r \in R \/ (r.key \in K /\ r.recovered = 0))
BY DEF Alerts!Upsert, Alerts!Row, GoodRow, RowFields

\* What a write must show: what it raises has a cause or is noted as without,
\* what it recovers is excused.
LEMMA WriteKeepsCauses ==
  ASSUME CauseInv, UNCHANGED <<samples, failing>>,
         cleared \subseteq cleared', doubted \subseteq doubted',
         \A r \in rows' \ rows :
            r.recovered = 0 => Alerts!Wanted(r.key) \/ r.key \in Balance \/ r \in cleared',
         \A r \in rows' : /\ GoodRow(r)
                          /\ \/ r \in rows \/ r.recovered = 0
                             \/ \E q \in Alerts!Active : q.key = r.key /\ q.first = r.first /\ Excused(q)'
  PROVE  /\ \A r \in rows' : GoodRow(r) /\ (r.recovered # 0 => Excused(r)')
         /\ \A r \in Alerts!Active' : Alerts!Wanted(r.key)' \/ Excused(r)'
<1>1. \A k : Alerts!Wanted(k)' <=> Alerts!Wanted(k)
  BY DEF Alerts!Wanted, Alerts!LowBalance
<1>2. ASSUME NEW r \in rows', r.recovered # 0  PROVE Excused(r)'
  <2>1. CASE r \in rows  BY <1>2, <2>1, ExcuseStays DEF CauseInv
  <2>2. CASE \E q \in Alerts!Active : q.key = r.key /\ q.first = r.first /\ Excused(q)'
    BY <2>2 DEF Excused
  <2> QED  BY <1>2, <2>1, <2>2
<1>3. ASSUME NEW r \in Alerts!Active'  PROVE Alerts!Wanted(r.key)' \/ Excused(r)'
  <2>1. r \in rows' /\ r.recovered = 0  BY DEF Alerts!Active
  <2>2. CASE r \in rows
    <3>1. r \in Alerts!Active  BY <2>1, <2>2 DEF Alerts!Active
    <3> QED  BY <1>1, <3>1, ExcuseStays DEF CauseInv
  <2>3. CASE r \notin rows
    <3>1. Alerts!Wanted(r.key) \/ r.key \in Balance \/ r \in cleared'  BY <2>1, <2>3
    <3>2. r.key \in Balance \/ r \in cleared' => Excused(r)'  BY DEF Excused
    <3> QED  BY <1>1, <3>1, <3>2
  <2> QED  BY <2>2, <2>3
<1> QED  BY <1>2, <1>3

\* One reconciler moves while the rows and their causes stay.
LEMMA ReconcilerMoves ==
  ASSUME CauseInv, UNCHANGED <<samples, failing, rows, reporter>>, clock' \in Nat,
         cleared \subseteq cleared', doubted \subseteq doubted',
         NEW c \in Reconciler, NEW x, reconciler' = [reconciler EXCEPT ![c] = x], GoodReconciler(c)',
         \A d \in Reconciler \ {c} : lock = d => lock' = d
  PROVE  CauseInv'
<1>1. /\ Alerts!Active' = Alerts!Active
      /\ \A k : Alerts!Wanted(k)' <=> Alerts!Wanted(k)
  BY DEF Alerts!Active, Alerts!Wanted, Alerts!LowBalance
<1>2. ASSUME NEW d \in Reconciler, d # c  PROVE GoodReconciler(d)'
  <2>1. reconciler'[d] = reconciler[d] /\ GoodReconciler(d)  BY <1>2 DEF CauseInv
  <2>2. \A r : Excused(r) => Excused(r)'  BY ExcuseStays
  <2> QED  BY <1>1, <1>2, <2>1, <2>2 DEF GoodReconciler
<1>3. \A r : Excused(r) => Excused(r)'  BY ExcuseStays
<1>4. reconciler' = [d \in Reconciler |-> reconciler'[d]]  BY DEF CauseInv
<1> QED  BY <1>1, <1>2, <1>3, <1>4 DEF CauseInv

LEMMA EvaluationKeeps ==
  ASSUME CauseInv, NEW c \in Reconciler,
         Alerts!Lock(c) \/ Alerts!EvaluateBalances(c) \/ Alerts!EvaluateChecks(c)
  PROVE  CauseInv'
<1>1. UNCHANGED <<samples, failing, rows, reporter, cleared>> /\ clock \in Nat
  BY DEF CauseInv, Alerts!Lock, Alerts!EvaluateBalances, Alerts!EvaluateChecks
<1>2. reconciler = [d \in Reconciler |-> reconciler[d]] /\ GoodReconciler(c)
      /\ Alerts!Active' = Alerts!Active
  BY <1>1 DEF CauseInv, Alerts!Active
<1>3. CASE Alerts!Lock(c)
  <2>1. /\ lock = Alerts!Free /\ lock' = c /\ UNCHANGED <<clock, doubted>>
        /\ reconciler' = [reconciler EXCEPT ![c] = [at |-> "balances"]]
    BY <1>3 DEF Alerts!Lock
  <2>2. GoodReconciler(c)'  BY <1>2, <2>1 DEF GoodReconciler
  <2>3. \A d \in Reconciler : lock # d  BY <2>1, LockAssumption
  <2> QED  BY <1>1, <2>1, <2>2, <2>3, ReconcilerMoves
<1>4. CASE Alerts!EvaluateBalances(c)
  <2> DEFINE x == [at |-> "checks", current |-> {k \in Balance : Alerts!LowBalance(k)}]
  <2>1. /\ reconciler[c].at = "balances" /\ UNCHANGED <<lock, clock, doubted>>
        /\ reconciler' = [reconciler EXCEPT ![c] = x]
    BY <1>4 DEF Alerts!EvaluateBalances
  <2>2. reconciler'[c] = x /\ lock' = c  BY <1>2, <2>1 DEF GoodReconciler
  <2>3. ASSUME NEW r \in Alerts!Active, r.key \in Balance, ~Alerts!LowBalance(r.key)
        PROVE  Excused(r)'
    <3> QED  BY <2>3 DEF Excused
  <2>4. GoodReconciler(c)'  BY <1>2, <2>2, <2>3 DEF GoodReconciler
  <2> QED  BY <1>1, <2>1, <2>4, ReconcilerMoves
<1>5. CASE Alerts!EvaluateChecks(c)
  <2>1. PICK unread \in SUBSET failing :
           /\ doubted' = doubted \cup {r \in Alerts!Active : r.key \in unread}
           /\ reconciler' = [reconciler EXCEPT ![c] =
                 [at |-> "write", current |-> reconciler[c].current \cup (failing \ unread), now |-> clock + 1]]
    BY <1>5 DEF Alerts!EvaluateChecks
  <2> DEFINE current == reconciler[c].current \cup (failing \ unread)
             x == [at |-> "write", current |-> current, now |-> clock + 1]
  <2>2. reconciler[c].at = "checks" /\ lock' = lock /\ clock' \in {clock, clock + 1}
    BY <1>5 DEF Alerts!EvaluateChecks, Alerts!Stamp
  <2>3. lock = c /\ \A r \in Alerts!Active : r.key \in Balance \ reconciler[c].current => Excused(r)
    BY <1>2, <2>2 DEF GoodReconciler
  <2>4. ASSUME NEW r \in Alerts!Active, r.key \notin current  PROVE Excused(r)'
    <3>1. CASE r.key \in unread  BY <2>1, <3>1 DEF Excused
    <3>2. CASE r.key \notin unread
      <4>1. Excused(r)  BY <2>3, <2>4, <3>2 DEF CauseInv, Alerts!Wanted
      <4> QED  BY <1>1, <2>1, <4>1, ExcuseStays
    <3> QED  BY <3>1, <3>2
  <2>5. PICK y : y = x  OBVIOUS
  <2>6. reconciler'[c] = y /\ y.at = "write" /\ y.current = current /\ y.now \in Nat
    BY <1>1, <1>2, <2>1, <2>5
  <2>7. PICK K : K = current  OBVIOUS
  <2>8. \A r \in Alerts!Active : r.key \notin K => Excused(r)'  BY <2>4, <2>7
  <2>9. GoodReconciler(c)'
    BY <1>2, <2>2, <2>3, <2>6, <2>7, <2>8 DEF GoodReconciler
  <2>10. clock' \in Nat  BY <1>1, <2>2
  <2> QED  BY <1>1, <2>1, <2>2, <2>9, <2>10, ReconcilerMoves
<1> QED  BY <1>3, <1>4, <1>5

LEMMA AbandonKeeps ==
  ASSUME CauseInv, NEW c \in Reconciler, Alerts!AbandonReconcile(c)
  PROVE  CauseInv'
<1>1. /\ UNCHANGED <<samples, failing, rows, reporter, clock, cleared, doubted>>
      /\ reconciler' = [reconciler EXCEPT ![c] = Alerts!Idle]
      /\ lock' = IF lock = c THEN Alerts!Free ELSE lock
  BY DEF Alerts!AbandonReconcile
<1>2. GoodReconciler(c)'  BY <1>1 DEF CauseInv, GoodReconciler, Alerts!Idle
<1> QED  BY <1>1, <1>2, ReconcilerMoves DEF CauseInv

\* The transaction writes what was found under the lock.
LEMMA ReconcileKeeps ==
  ASSUME CauseInv, NEW c \in Reconciler, Alerts!Reconcile(c)
  PROVE  CauseInv'
<1>1. PICK current, now : current = reconciler[c].current /\ now = reconciler[c].now  OBVIOUS
<1> DEFINE raised == Alerts!Upsert(rows, current, now)
           new == Alerts!Recover(raised, Alerts!Key \ current, now)
<1>2. /\ reconciler[c].at = "write" /\ lock = c /\ rows' = new
      /\ cleared' = cleared \cup {r \in new \ rows : r.recovered = 0 /\ Alerts!Gone(r.key)}
      /\ reconciler' = [reconciler EXCEPT ![c] = Alerts!Idle]
      /\ UNCHANGED <<samples, failing, reporter, clock, doubted>>
  BY <1>1 DEF Alerts!Reconcile, Alerts!Reconciled, Alerts!WriteRows, Alerts!Raised
<1>3. /\ now \in Nat /\ \A r \in rows : GoodRow(r)
      /\ \A r \in Alerts!Active : r.key \notin current => Excused(r)
  BY <1>1, <1>2 DEF CauseInv, GoodReconciler
<1>4. \A r \in raised : GoodRow(r) /\ (r \in rows \/ (r.key \in current /\ r.recovered = 0))
  BY <1>3, UpsertedRows
<1>5. ASSUME NEW r \in new
      PROVE  /\ GoodRow(r)
             /\ \/ r \in rows \/ r.recovered = 0
                \/ \E q \in Alerts!Active : q.key = r.key /\ q.first = r.first /\ Excused(q)'
  <2> HIDE DEF raised
  <2>1. /\ GoodRow(r)
        /\ \/ r \in raised
           \/ \E q \in raised : /\ q.recovered = 0 /\ q.key \in Alerts!Key \ current
                                /\ r.key = q.key /\ r.first = q.first
    BY <1>3, <1>4, RecoveredRows
  <2>2. CASE r \in raised  BY <1>4, <2>1, <2>2
  <2>3. ASSUME NEW q \in raised, q.recovered = 0, q.key \notin current,
               r.key = q.key, r.first = q.first
        PROVE  \E p \in Alerts!Active : p.key = r.key /\ p.first = r.first /\ Excused(p)'
    <3>1. q \in Alerts!Active  BY <1>4, <2>3 DEF Alerts!Active
    <3>2. Excused(q)'  BY <1>2, <1>3, <2>3, <3>1, ExcuseStays
    <3> QED  BY <2>3, <3>1, <3>2
  <2> QED  BY <2>1, <2>2, <2>3
<1> HIDE DEF new
<1>6. /\ \A r \in rows' : GoodRow(r) /\ (r.recovered # 0 => Excused(r)')
      /\ \A r \in Alerts!Active' : Alerts!Wanted(r.key)' \/ Excused(r)'
  <2>1. \A r \in rows' \ rows :
           r.recovered = 0 => Alerts!Wanted(r.key) \/ r.key \in Balance \/ r \in cleared'
    BY <1>2, GoneIs
  <2> QED  BY <1>2, <1>5, <2>1, WriteKeepsCauses
<1>7. ASSUME NEW d \in Reconciler  PROVE GoodReconciler(d)'
  <2>1. CASE d = c  BY <1>2, <2>1 DEF CauseInv, GoodReconciler, Alerts!Idle
  <2>2. CASE d # c
    <3>1. reconciler'[d] = reconciler[d] /\ reconciler[d].at \in {"idle", "off"}
      BY <1>2, <2>2 DEF CauseInv, GoodReconciler
    <3> QED  BY <3>1 DEF GoodReconciler
  <2> QED  BY <2>1, <2>2
<1> QED  BY <1>2, <1>6, <1>7 DEF CauseInv

\* The quality worker's write finds nobody between evaluation and writing.
LEMMA QualityReportKeeps ==
  ASSUME CauseInv, NEW w \in QualityWorker, Alerts!QualityReport(w)
  PROVE  CauseInv'
<1>1. PICK k, now, failed : k = reporter[w].key /\ now = reporter[w].now /\ failed = reporter[w].failed
  OBVIOUS
<1>2. PICK new : new = IF failed THEN Alerts!Upsert(rows, {k}, now) ELSE Alerts!Recover(rows, {k}, now)
  OBVIOUS
<1>3. /\ reporter[w].at = "waiting" /\ lock = Alerts!Free /\ rows' = new
      /\ cleared' = cleared \cup {r \in new \ rows : r.recovered = 0 /\ Alerts!Gone(r.key)}
      /\ reporter' = [reporter EXCEPT ![w] = Alerts!Idle]
      /\ UNCHANGED <<samples, failing, reconciler, lock, clock>>
  BY <1>1, <1>2 DEF Alerts!QualityReport, Alerts!MayReport, Alerts!WriteRows, Alerts!Raised
<1>4. doubted' = IF ~failed /\ Alerts!Wanted(k) THEN doubted \cup {r \in Alerts!Active : r.key = k}
                 ELSE doubted
  BY <1>1 DEF Alerts!QualityReport
<1>5. now \in Nat /\ \A r \in rows : GoodRow(r)  BY <1>1, <1>3 DEF CauseInv
<1>6. ASSUME NEW r \in new
      PROVE  /\ GoodRow(r)
             /\ \/ r \in rows \/ r.recovered = 0
                \/ \E q \in Alerts!Active : q.key = r.key /\ q.first = r.first /\ Excused(q)'
  <2>1. CASE failed  BY <1>2, <1>5, <2>1, UpsertedRows
  <2>2. CASE ~failed
    <3>1. /\ GoodRow(r)
          /\ \/ r \in rows
             \/ \E q \in rows : q.recovered = 0 /\ q.key = k /\ r.key = q.key /\ r.first = q.first
      BY <1>2, <1>5, <2>2, RecoveredRows
    <3>2. ASSUME NEW q \in rows, q.recovered = 0, q.key = k
          PROVE  q \in Alerts!Active /\ Excused(q)'
      <4>1. q \in Alerts!Active  BY <3>2 DEF Alerts!Active
      <4>2. CASE Alerts!Wanted(k)  BY <1>4, <2>2, <3>2, <4>1, <4>2 DEF Excused
      <4>3. CASE ~Alerts!Wanted(k)
        <5>1. Excused(q)  BY <3>2, <4>1, <4>3 DEF CauseInv
        <5> QED  BY <1>3, <1>4, <4>1, <5>1, ExcuseStays
      <4> QED  BY <4>1, <4>2, <4>3
    <3> QED  BY <3>1, <3>2
  <2> QED  BY <2>1, <2>2
<1>7. /\ \A r \in rows' : GoodRow(r) /\ (r.recovered # 0 => Excused(r)')
      /\ \A r \in Alerts!Active' : Alerts!Wanted(r.key)' \/ Excused(r)'
  <2>1. \A r \in rows' \ rows :
           r.recovered = 0 => Alerts!Wanted(r.key) \/ r.key \in Balance \/ r \in cleared'
    BY <1>3, GoneIs
  <2> QED  BY <1>3, <1>4, <1>6, <2>1, WriteKeepsCauses
<1>8. ASSUME NEW d \in Reconciler  PROVE GoodReconciler(d)'
  <2>1. reconciler'[d] = reconciler[d] /\ reconciler[d].at \in {"idle", "off"}
    BY <1>3, LockAssumption DEF CauseInv, GoodReconciler
  <2> QED  BY <2>1 DEF GoodReconciler
<1>9. /\ reporter' = [v \in QualityWorker |-> reporter'[v]]
      /\ \A v \in QualityWorker : reporter'[v].at = "waiting" => reporter'[v].now \in Nat
  BY <1>3 DEF CauseInv, Alerts!Idle
<1> QED  BY <1>3, <1>7, <1>8, <1>9 DEF CauseInv

\* What alerts are about changes: rows whose cause goes are noted as cleared.
LEMMA ChangeKeeps ==
  ASSUME CauseInv, Alerts!Clearing,
         UNCHANGED <<rows, lock, reconciler, clock, doubted>>,
         reporter' = [w \in QualityWorker |-> reporter'[w]],
         \A w \in QualityWorker : reporter'[w].at = "waiting" => reporter'[w].now \in Nat
  PROVE  CauseInv'
<1>1. /\ cleared' = cleared \cup {r \in Alerts!Active : Alerts!Gone(r.key)'}
      /\ Alerts!Active' = Alerts!Active
  BY DEF Alerts!Clearing, Alerts!Active
<1>2. \A r : Excused(r) => Excused(r)'  BY <1>1, ExcuseStays
<1>3. ASSUME NEW r \in Alerts!Active  PROVE Alerts!Wanted(r.key)' \/ Excused(r)'
  <2>1. CASE Alerts!Wanted(r.key)'  BY <2>1
  <2>2. CASE ~Alerts!Wanted(r.key)'
    <3>1. r.key \notin Balance => Alerts!Gone(r.key)'
      BY <2>2 DEF Alerts!Wanted, Alerts!Gone
    <3>2. r.key \in Balance \/ r \in cleared'  BY <1>1, <3>1
    <3> QED  BY <3>2 DEF Excused
  <2> QED  BY <2>1, <2>2
<1>4. ASSUME NEW d \in Reconciler  PROVE GoodReconciler(d)'
  <2>1. reconciler' = reconciler /\ lock' = lock /\ GoodReconciler(d)  BY DEF CauseInv
  <2> QED  BY <1>1, <1>2, <2>1 DEF GoodReconciler
<1> QED  BY <1>1, <1>2, <1>3, <1>4 DEF CauseInv

\* Steps that touch neither rows nor causes.
LEMMA CausesUntouched ==
  ASSUME CauseInv, UNCHANGED <<samples, failing, rows, lock, reconciler, cleared, doubted>>,
         clock' \in Nat, reporter' = [w \in QualityWorker |-> reporter'[w]],
         \A w \in QualityWorker : reporter'[w].at = "waiting" => reporter'[w].now \in Nat
  PROVE  CauseInv'
<1>1. /\ Alerts!Active' = Alerts!Active
      /\ \A k : Alerts!Wanted(k)' <=> Alerts!Wanted(k)
  BY DEF Alerts!Active, Alerts!Wanted, Alerts!LowBalance
<1>2. \A r : Excused(r)' <=> Excused(r)  BY DEF Excused
<1>3. ASSUME NEW d \in Reconciler  PROVE GoodReconciler(d)'
  <2>1. reconciler' = reconciler /\ lock' = lock /\ GoodReconciler(d)  BY DEF CauseInv
  <2> QED  BY <1>1, <1>2, <2>1 DEF GoodReconciler
<1> QED  BY <1>1, <1>2, <1>3 DEF CauseInv

LEMMA ReporterKeeps ==
  ASSUME CauseInv, NEW w \in QualityWorker,
         Alerts!Report(w) \/ Alerts!LoseReport(w)
           \/ (\E k \in Quality, failed \in BOOLEAN : Alerts!CompleteCheck(w, k, failed))
  PROVE  CauseInv'
<1>1. clock \in Nat /\ reporter = [v \in QualityWorker |-> reporter[v]]
      /\ \A v \in QualityWorker : reporter[v].at = "waiting" => reporter[v].now \in Nat
  BY DEF CauseInv
<1>2. CASE Alerts!Report(w)
  <2> DEFINE x == [at |-> "waiting", key |-> reporter[w].key, failed |-> reporter[w].failed, now |-> clock + 1]
  <2>1. PICK y : y = x  OBVIOUS
  <2>2. reporter' = [reporter EXCEPT ![w] = y] /\ y.now \in Nat /\ clock' \in Nat
    BY <1>1, <1>2, <2>1 DEF Alerts!Report, Alerts!Stamp
  <2>3. UNCHANGED <<samples, failing, rows, lock, reconciler, cleared, doubted>>
    BY <1>2 DEF Alerts!Report
  <2>4. /\ reporter' = [v \in QualityWorker |-> reporter'[v]]
        /\ \A v \in QualityWorker : reporter'[v].at = "waiting" => reporter'[v].now \in Nat
    BY <1>1, <2>2
  <2> QED  BY <2>2, <2>3, <2>4, CausesUntouched
<1>3. CASE Alerts!LoseReport(w)
  <2>1. /\ UNCHANGED <<samples, failing, rows, lock, reconciler, cleared, doubted, clock>>
        /\ reporter' = [reporter EXCEPT ![w] = Alerts!Idle]
    BY <1>3 DEF Alerts!LoseReport
  <2>2. /\ reporter' = [v \in QualityWorker |-> reporter'[v]]
        /\ \A v \in QualityWorker : reporter'[v].at = "waiting" => reporter'[v].now \in Nat
    BY <1>1, <2>1 DEF Alerts!Idle
  <2> QED  BY <1>1, <2>1, <2>2, CausesUntouched
<1>4. ASSUME NEW k \in Quality, NEW failed \in BOOLEAN, Alerts!CompleteCheck(w, k, failed)
      PROVE  CauseInv'
  <2>1. /\ UNCHANGED <<rows, lock, reconciler, doubted, clock>> /\ Alerts!Clearing
        /\ reporter' = [reporter EXCEPT ![w] = [at |-> "report", key |-> k, failed |-> failed]]
    BY <1>4 DEF Alerts!CompleteCheck
  <2>2. /\ reporter' = [v \in QualityWorker |-> reporter'[v]]
        /\ \A v \in QualityWorker : reporter'[v].at = "waiting" => reporter'[v].now \in Nat
    BY <1>1, <2>1
  <2> QED  BY <2>1, <2>2, ChangeKeeps
<1> QED  BY <1>2, <1>3, <1>4

LEMMA CauseInvStep == CauseInv /\ [Alerts!Next]_alertVars => CauseInv'
<1> SUFFICES ASSUME CauseInv, [Alerts!Next]_alertVars  PROVE CauseInv'  OBVIOUS
<1>1. clock \in Nat /\ reporter = [v \in QualityWorker |-> reporter[v]]
      /\ \A v \in QualityWorker : reporter[v].at = "waiting" => reporter[v].now \in Nat
  BY DEF CauseInv
<1>2. ASSUME NEW k \in Balance, NEW v \in {"low", "high"}, Alerts!NewBalance(k, v)  PROVE CauseInv'
  <2>1. Alerts!Clearing /\ UNCHANGED <<rows, lock, reconciler, clock, doubted, reporter>>
    BY <1>2 DEF Alerts!NewBalance
  <2> QED  BY <1>1, <2>1, ChangeKeeps
<1>3. ASSUME NEW c \in Reconciler, Alerts!Round(c) \/ Alerts!AbandonReconcile(c)  PROVE CauseInv'
  BY <1>3, EvaluationKeeps, ReconcileKeeps, AbandonKeeps DEF Alerts!Round
<1>4. ASSUME NEW w \in QualityWorker, Alerts!QualityWork(w) \/ Alerts!LoseReport(w)  PROVE CauseInv'
  BY <1>4, ReporterKeeps, QualityReportKeeps DEF Alerts!QualityWork
<1>5. CASE Alerts!Push \/ Alerts!AbandonPush \/ UNCHANGED alertVars
  <2>1. /\ UNCHANGED <<samples, failing, rows, lock, reconciler, reporter, cleared, doubted>>
        /\ clock' \in {clock, clock + 1}
    BY <1>5 DEF Alerts!Push, Alerts!TryPushAlerts, Alerts!Serve, Alerts!EndPush,
                Alerts!AbandonPush, alertVars
  <2>2. clock' \in Nat  BY <1>1, <2>1
  <2> QED  BY <1>1, <2>1, <2>2, CausesUntouched
<1> QED  BY <1>2, <1>3, <1>4, <1>5, ReporterKeeps DEF Alerts!Next

LEMMA CauseInvInitially == Alerts!Init => CauseInv
<1> SUFFICES ASSUME Alerts!Init  PROVE CauseInv  OBVIOUS
<1>1. /\ \A c \in Reconciler : reconciler[c].at \in {"idle", "off"}
      /\ \A w \in QualityWorker : reporter[w].at \in {"idle", "off"}
  BY DEF Alerts!Init, Alerts!Idle, Alerts!Off
<1> QED  BY <1>1 DEF Alerts!Init, Alerts!Active, CauseInv, GoodReconciler

\* A quality alert recovers only if its cause was absent at some moment since it was
\* raised: a reconciler writes what it found some time before, but the lock
\* keeps other writers out in between (reconciler.go 59-93, external.go 22-60).
THEOREM RecoveriesHaveAReason == Alerts!Spec => []NoFalseRecovery
<1>1. CauseInv => NoFalseRecovery
  BY DEF CauseInv, Excused, NoFalseRecovery, Alerts!NoFalseRecovery, Alerts!RecoveredAfter
<1>2. CauseInv /\ [Alerts!Next]_(Alerts!vars) => CauseInv'
  BY CauseInvStep DEF alertVars, Alerts!vars
<1> QED  BY <1>1, <1>2, CauseInvInitially, PTL DEF Alerts!Spec

-----------------------------------------------------------------------------
(* The push                                                                *)

\* The subscriber was told of the row, or a push kept it back, or it came late.
Told(s, r) == Alerts!News(r) \in sent[s] \cup late \/ <<s, Alerts!News(r)>> \in passed

\* What a subscriber may see of the changes before t was told.
ToldBefore(s, t) == \A r \in rows : r.key \in Sees[s] /\ Alerts!News(r).at < t => Told(s, r)

\* A push without a failure so far has told those it has served what stands
\* before its own time.
FeedInv ==
    /\ watermark \in Nat /\ sent = [s \in Subscriber |-> sent[s]]
    /\ \A s \in Subscriber : ToldBefore(s, watermark)
    /\ Alerts!Pushing =>
          /\ DOMAIN pusher = {"now", "since", "todo", "cache", "ok"}
          /\ pusher.now \in Nat /\ pusher.since = watermark /\ pusher.ok \in BOOLEAN
          /\ pusher.ok => \A s \in Subscriber \ pusher.todo : ToldBefore(s, pusher.now)

\* Told once, told for ever.
LEMMA ToldStays ==
  ASSUME rows' = rows, late \subseteq late', passed \subseteq passed', NEW s, sent[s] \subseteq sent'[s],
         NEW t, ToldBefore(s, t)
  PROVE  ToldBefore(s, t)'
BY DEF ToldBefore, Told, Alerts!News

\* A push that is over, or was none, leaves the watermark to vouch for.
LEMMA WatermarkVouches ==
  ASSUME FeedInv, UNCHANGED <<rows, sent, late>>, watermark' \in Nat, ~Alerts!Pushing',
         \A s \in Subscriber : ToldBefore(s, watermark)'
  PROVE  FeedInv'
BY DEF FeedInv

\* Whoever writes rows notes what no push before them could see.
LEMMA RowsKeepFeed ==
  ASSUME FeedInv, UNCHANGED Alerts!feed, Alerts!WriteRows(rows')
  PROVE  FeedInv'
<1>1. UNCHANGED <<watermark, sent, passed, pusher>> /\ late \subseteq late'
      /\ \A r \in rows' \ rows :
            Alerts!News(r).at < watermark \/ (Alerts!Pushing /\ Alerts!News(r).at < pusher.now)
               => Alerts!News(r) \in late'
  BY DEF Alerts!feed, Alerts!WriteRows, Alerts!Lateness
<1>2. ASSUME NEW s \in Subscriber, NEW t, ToldBefore(s, t),
             t = watermark \/ (Alerts!Pushing /\ t = pusher.now)
      PROVE  ToldBefore(s, t)'
  <2> SUFFICES ASSUME NEW r \in rows', r.key \in Sees[s], Alerts!News(r).at < t
               PROVE  \/ Alerts!News(r) \in sent'[s] \cup late'
                      \/ <<s, Alerts!News(r)>> \in passed'
    BY DEF ToldBefore, Told, Alerts!News
  <2>1. CASE r \in rows  BY <1>1, <1>2, <2>1 DEF ToldBefore, Told
  <2>2. CASE r \notin rows  BY <1>1, <1>2, <2>2
  <2> QED  BY <2>1, <2>2
<1>3. PICK w, p : w = watermark /\ p = pusher  OBVIOUS
<1>4. \A s \in Subscriber : ToldBefore(s, w)'  BY <1>2, <1>3 DEF FeedInv
<1>5. ASSUME Alerts!Pushing, p.ok, NEW s \in Subscriber \ p.todo  PROVE ToldBefore(s, p.now)'
  BY <1>2, <1>3, <1>5 DEF FeedInv
<1>6. watermark' = w /\ pusher' = p /\ (Alerts!Pushing' <=> Alerts!Pushing)
  BY <1>1, <1>3 DEF Alerts!Pushing
<1>7. \A s \in Subscriber : ToldBefore(s, watermark)'  BY <1>4, <1>6 DEF ToldBefore
<1>8. ASSUME Alerts!Pushing', pusher'.ok, NEW s \in Subscriber \ pusher'.todo
      PROVE  ToldBefore(s, pusher.now)'
  BY <1>5, <1>6, <1>8 DEF ToldBefore
<1> QED  BY <1>1, <1>6, <1>7, <1>8 DEF FeedInv

\* One subscriber is served: whoever counts as told was told of everything since
\* the watermark, or it was noted what was kept back.
LEMMA ServedKeeps ==
  ASSUME CauseInv, FeedInv, Alerts!Pushing, UNCHANGED <<rows, watermark, late>>,
         NEW s, NEW p, pusher' = p,
         DOMAIN p = DOMAIN pusher, p.now = pusher.now, p.since = pusher.since,
         p.todo = pusher.todo \ {s}, p.ok \in BOOLEAN, p.ok => pusher.ok,
         passed \subseteq passed', sent' = [d \in Subscriber |-> sent'[d]],
         \A d \in Subscriber : sent[d] \subseteq sent'[d],
         s \in Subscriber /\ p.ok =>
            \A n \in Alerts!ChangesSince(pusher.since, Sees[s]) : n \in sent'[s] \/ <<s, n>> \in passed'
  PROVE  FeedInv'
<1>1. /\ watermark \in Nat /\ pusher.now \in Nat /\ pusher.since = watermark
      /\ \A d \in Subscriber : ToldBefore(d, watermark)
      /\ pusher.ok => \A d \in Subscriber \ pusher.todo : ToldBefore(d, pusher.now)
      /\ DOMAIN pusher = {"now", "since", "todo", "cache", "ok"}
  BY DEF FeedInv
<1>2. \A d \in Subscriber : \A t : ToldBefore(d, t) => ToldBefore(d, t)'  BY ToldStays
<1>3. ASSUME s \in Subscriber, p.ok  PROVE ToldBefore(s, p.now)'
  <2> SUFFICES ASSUME NEW r \in rows, r.key \in Sees[s], Alerts!News(r).at < p.now
               PROVE  \/ Alerts!News(r) \in sent'[s] \cup late'
                      \/ <<s, Alerts!News(r)>> \in passed'
    BY DEF ToldBefore, Told, Alerts!News
  <2>1. Alerts!News(r).at \in Nat  BY DEF CauseInv, GoodRow, Alerts!News
  <2>2. CASE Alerts!News(r).at < watermark
    <3>1. Told(s, r)  BY <1>1, <1>3, <2>2 DEF ToldBefore
    <3> QED  BY <1>3, <3>1 DEF Told
  <2>3. CASE Alerts!News(r).at >= watermark
    <3>1. Alerts!News(r) \in Alerts!ChangesSince(pusher.since, Sees[s])
      BY <1>1, <2>3 DEF Alerts!ChangesSince
    <3> QED  BY <1>3, <3>1
  <2> QED  BY <1>1, <2>1, <2>2, <2>3
<1>4. ASSUME p.ok, NEW d \in Subscriber \ p.todo  PROVE ToldBefore(d, p.now)'
  <2>1. CASE d = s  BY <1>3, <1>4, <2>1
  <2>2. CASE d # s  BY <1>1, <1>2, <1>4, <2>2
  <2> QED  BY <2>1, <2>2
<1>5. PICK w : w = watermark  OBVIOUS
<1>6. \A d \in Subscriber : ToldBefore(d, w)'  BY <1>1, <1>2, <1>5
<1>7. \A d \in Subscriber : ToldBefore(d, watermark)'  BY <1>5, <1>6 DEF ToldBefore
<1>8. pusher'.ok => \A d \in Subscriber \ pusher'.todo : ToldBefore(d, pusher.now)'
  BY <1>4 DEF ToldBefore
<1> QED  BY <1>1, <1>7, <1>8 DEF FeedInv

\* What was not told is withheld, what was withheld is noted.
LEMMA WithheldIsNoted ==
  ASSUME NEW s, NEW told, Alerts!Withheld(s, told) \subseteq passed',
         sent[s] \cup told \subseteq sent'[s]
  PROVE  \A n \in Alerts!ChangesSince(pusher.since, Sees[s]) : n \in sent'[s] \/ <<s, n>> \in passed'
BY DEF Alerts!Withheld

LEMMA ServeKeeps ==
  ASSUME CauseInv, FeedInv, Alerts!Serve
  PROVE  FeedInv'
<1>1. PICK s : s = Alerts!Next1  OBVIOUS
<1>2. /\ Alerts!Pushing /\ UNCHANGED <<rows, watermark, late>>
      /\ Alerts!Skip(s) \/ Alerts!Deliver(s) \/ Alerts!SendAgain(s) \/ Alerts!FailToBuild(s)
  BY <1>1 DEF Alerts!Serve
<1>3. DOMAIN pusher = {"now", "since", "todo", "cache", "ok"} /\ pusher.ok \in BOOLEAN
      /\ sent = [d \in Subscriber |-> sent[d]]
  BY <1>2 DEF FeedInv
<1>4. PICK text, old : text = Alerts!Text(s) /\ old = pusher  OBVIOUS
<1> DEFINE Served(cache, ok) == [old EXCEPT !.todo = @ \ {s}, !.cache = cache, !.ok = ok]
<1>5. \A cache, ok : LET p == Served(cache, ok) IN
         /\ DOMAIN p = DOMAIN pusher /\ p.now = pusher.now /\ p.since = pusher.since
         /\ p.todo = pusher.todo \ {s} /\ p.ok = ok
  BY <1>3, <1>4
<1>6. /\ [pusher EXCEPT !.todo = @ \ {s}] = Served(old.cache, old.ok)
      /\ \A cache : [pusher EXCEPT !.todo = @ \ {s}, !.cache = cache] = Served(cache, old.ok)
      /\ \A cache : [[pusher EXCEPT !.todo = @ \ {s}, !.cache = cache] EXCEPT !.ok = FALSE] = Served(cache, FALSE)
  BY <1>3, <1>4
<1> HIDE DEF Served
<1>7. ASSUME NEW told, NEW cache, pusher' = Served(cache, old.ok),
             passed' = passed \cup Alerts!Withheld(s, told),
             (sent' = sent /\ told = {}) \/ sent' = [sent EXCEPT ![s] = @ \cup told]
      PROVE  FeedInv'
  <2>1. sent' = [d \in Subscriber |-> sent'[d]] /\ \A d \in Subscriber : sent[d] \subseteq sent'[d]
    BY <1>3, <1>7
  <2>2. s \in Subscriber =>
           \A n \in Alerts!ChangesSince(pusher.since, Sees[s]) : n \in sent'[s] \/ <<s, n>> \in passed'
    <3>1. s \in Subscriber => sent[s] \cup told \subseteq sent'[s]  BY <1>3, <1>7
    <3> QED  BY <1>7, <3>1, WithheldIsNoted
  <2>3. PICK p : p = Served(cache, old.ok)  OBVIOUS
  <2>4. /\ DOMAIN p = DOMAIN pusher /\ p.now = pusher.now /\ p.since = pusher.since
        /\ p.todo = pusher.todo \ {s} /\ p.ok = pusher.ok /\ pusher' = p
    BY <1>4, <1>5, <1>7, <2>3
  <2> QED  BY <1>2, <1>3, <1>7, <2>1, <2>2, <2>4, ServedKeeps
<1>8. CASE Alerts!Skip(s)
  <2>1. pusher' = Served(old.cache, old.ok) /\ passed' = passed \cup Alerts!Withheld(s, {}) /\ sent' = sent
    BY <1>6, <1>8 DEF Alerts!Skip
  <2> QED  BY <1>7, <2>1
<1>9. CASE Alerts!SendAgain(s)
  <2>1. /\ pusher' = Served(Alerts!WithText(s, text), old.ok)
        /\ passed' = passed \cup Alerts!Withheld(s, text) /\ sent' = [sent EXCEPT ![s] = @ \cup text]
    BY <1>4, <1>6, <1>9 DEF Alerts!SendAgain
  <2> QED  BY <1>7, <2>1
<1>10. CASE Alerts!FailToBuild(s)
  <2>1. /\ pusher' = Served(Alerts!WithText(s, {}), old.ok)
        /\ passed' = passed \cup Alerts!Withheld(s, {}) /\ sent' = sent
    BY <1>6, <1>10 DEF Alerts!FailToBuild
  <2> QED  BY <1>7, <2>1
<1>11. CASE Alerts!Deliver(s)
  <2>1. /\ \/ /\ pusher' = Served(Alerts!WithText(s, text), old.ok)
              /\ (sent' = sent /\ text = {}) \/ sent' = [sent EXCEPT ![s] = @ \cup text]
           \/ pusher' = Served(Alerts!WithText(s, text), FALSE) /\ sent' = sent
        /\ passed' = passed \cup (IF pusher'.ok = pusher.ok THEN Alerts!Withheld(s, text) ELSE {})
    BY <1>4, <1>6, <1>11 DEF Alerts!Deliver
  <2>2. CASE pusher' = Served(Alerts!WithText(s, text), old.ok)
             /\ ((sent' = sent /\ text = {}) \/ sent' = [sent EXCEPT ![s] = @ \cup text])
    <3>1. pusher'.ok = pusher.ok  BY <1>4, <1>5, <2>2
    <3> QED  BY <1>7, <2>1, <2>2, <3>1
  <2>3. CASE pusher' = Served(Alerts!WithText(s, text), FALSE) /\ sent' = sent
    <3>1. PICK p : p = Served(Alerts!WithText(s, text), FALSE)  OBVIOUS
    <3>2. /\ DOMAIN p = DOMAIN pusher /\ p.now = pusher.now /\ p.since = pusher.since
          /\ p.todo = pusher.todo \ {s} /\ p.ok = FALSE /\ pusher' = p
      BY <1>5, <2>3, <3>1
    <3> QED  BY <1>2, <1>3, <2>1, <2>3, <3>2, ServedKeeps
  <2> QED  BY <2>1, <2>2, <2>3
<1> QED  BY <1>2, <1>8, <1>9, <1>10, <1>11

\* Without a watermark everything there is counts as passed.
LEMMA TryPushKeeps ==
  ASSUME CauseInv, FeedInv, Alerts!TryPushAlerts
  PROVE  FeedInv'
<1>1. /\ pusher = Alerts!Idle /\ clock \in Nat /\ clock' \in {clock, clock + 1}
      /\ UNCHANGED <<rows, sent, late>>
  BY DEF CauseInv, Alerts!TryPushAlerts
<1>2. clock' \in Nat  BY <1>1
<1>3. CASE watermark = 0
  <2>1. /\ watermark' = clock' /\ pusher' = pusher
        /\ passed' = passed \cup {<<s, Alerts!News(r)>> : s \in Subscriber, r \in rows}
    BY <1>3 DEF Alerts!TryPushAlerts
  <2>2. \A s \in Subscriber : ToldBefore(s, watermark)'
    <3> SUFFICES ASSUME NEW s \in Subscriber, NEW r \in rows
                 PROVE  <<s, Alerts!News(r)>> \in passed'
      BY <1>1 DEF ToldBefore, Told, Alerts!News
    <3> QED  BY <2>1
  <2>3. ~Alerts!Pushing'  BY <1>1, <2>1 DEF Alerts!Pushing
  <2> QED  BY <1>1, <1>2, <2>1, <2>2, <2>3, WatermarkVouches
<1>4. CASE watermark # 0
  <2>1. /\ UNCHANGED <<watermark, passed>>
        /\ pusher' = [now |-> clock', since |-> watermark, todo |-> Subscriber, cache |-> <<>>, ok |-> TRUE]
    BY <1>4 DEF Alerts!TryPushAlerts
  <2>2. /\ DOMAIN pusher' = {"now", "since", "todo", "cache", "ok"} /\ pusher'.now = clock'
        /\ pusher'.since = watermark' /\ pusher'.todo = Subscriber /\ pusher'.ok = TRUE
    BY <2>1
  <2>3. PICK w : w = watermark  OBVIOUS
  <2>4. \A s \in Subscriber : ToldBefore(s, w)'  BY <1>1, <2>1, <2>3, ToldStays DEF FeedInv
  <2>5. \A s \in Subscriber : ToldBefore(s, watermark)'  BY <2>1, <2>3, <2>4 DEF ToldBefore
  <2> QED  BY <1>1, <1>2, <2>1, <2>2, <2>5 DEF FeedInv
<1> QED  BY <1>3, <1>4

\* The watermark moves when everybody was served without a failure.
LEMMA EndPushKeeps ==
  ASSUME FeedInv, Alerts!EndPush \/ Alerts!AbandonPush
  PROVE  FeedInv'
<1>1. /\ UNCHANGED <<rows, sent, late, passed>> /\ Alerts!Pushing /\ pusher' = Alerts!Idle
      /\ \/ pusher.ok /\ pusher.todo = {} /\ watermark' = pusher.now
         \/ watermark' = watermark
  BY DEF Alerts!EndPush, Alerts!AbandonPush, Alerts!Advanced
<1>2. PICK w : w = watermark'  OBVIOUS
<1>3. w \in Nat /\ \A s \in Subscriber : ToldBefore(s, w)  BY <1>1, <1>2 DEF FeedInv
<1>4. \A s \in Subscriber : ToldBefore(s, w)'  BY <1>1, <1>3, ToldStays
<1>5. \A s \in Subscriber : ToldBefore(s, watermark)'  BY <1>2, <1>4 DEF ToldBefore
<1>6. ~Alerts!Pushing'  BY <1>1 DEF Alerts!Pushing
<1> QED  BY <1>1, <1>2, <1>3, <1>5, <1>6, WatermarkVouches

LEMMA FeedInvStep == CauseInv /\ FeedInv /\ [Alerts!Next]_alertVars => FeedInv'
<1> SUFFICES ASSUME CauseInv, FeedInv, [Alerts!Next]_alertVars  PROVE FeedInv'  OBVIOUS
<1>1. ASSUME UNCHANGED <<rows, late>>, UNCHANGED Alerts!feed  PROVE FeedInv'
  BY <1>1 DEF FeedInv, ToldBefore, Told, Alerts!feed, Alerts!Pushing, Alerts!News
<1>2. ASSUME NEW c \in Reconciler, Alerts!Reconcile(c)  PROVE FeedInv'
  <2>1. UNCHANGED Alerts!feed /\ \E new : Alerts!WriteRows(new)  BY <1>2 DEF Alerts!Reconcile
  <2>2. Alerts!WriteRows(rows')  BY <2>1 DEF Alerts!WriteRows
  <2> QED  BY <2>1, <2>2, RowsKeepFeed
<1>3. ASSUME NEW w \in QualityWorker, Alerts!QualityReport(w)  PROVE FeedInv'
  <2>1. UNCHANGED Alerts!feed /\ \E new : Alerts!WriteRows(new)  BY <1>3 DEF Alerts!QualityReport
  <2>2. Alerts!WriteRows(rows')  BY <2>1 DEF Alerts!WriteRows
  <2> QED  BY <2>1, <2>2, RowsKeepFeed
<1>4. ASSUME NEW k, NEW v, Alerts!NewBalance(k, v)  PROVE FeedInv'
  BY <1>1, <1>4 DEF Alerts!NewBalance
<1>5. ASSUME NEW w, NEW k, NEW failed, Alerts!CompleteCheck(w, k, failed)  PROVE FeedInv'
  BY <1>1, <1>5 DEF Alerts!CompleteCheck
<1>6. ASSUME NEW c, \/ Alerts!Lock(c) \/ Alerts!EvaluateBalances(c) \/ Alerts!EvaluateChecks(c)
                    \/ Alerts!AbandonReconcile(c)
      PROVE  FeedInv'
  BY <1>1, <1>6 DEF Alerts!Lock, Alerts!EvaluateBalances, Alerts!EvaluateChecks, Alerts!AbandonReconcile
<1>7. ASSUME NEW w, Alerts!Report(w) \/ Alerts!LoseReport(w)  PROVE FeedInv'
  BY <1>1, <1>7 DEF Alerts!Report, Alerts!LoseReport
<1>8. ASSUME Alerts!Push \/ Alerts!AbandonPush  PROVE FeedInv'
  BY <1>8, TryPushKeeps, ServeKeeps, EndPushKeeps DEF Alerts!Push
<1>9. ASSUME UNCHANGED alertVars  PROVE FeedInv'  BY <1>1, <1>9 DEF alertVars, Alerts!feed
<1> QED
  BY <1>2, <1>3, <1>4, <1>5, <1>6, <1>7, <1>8, <1>9 DEF Alerts!Next, Alerts!Round, Alerts!QualityWork

\* Nothing is stamped before the first watermark: there are no rows yet.
LEMMA FeedInvInitially == Alerts!Init => FeedInv
BY DEF Alerts!Init, Alerts!Pushing, FeedInv, ToldBefore

\* Behind the watermark everybody was told of what may be seen, with failing
\* and repeated sends, pushes that stop and rows written while one is under way,
\* but for what came late and what a push kept back (telegram/worker.go 426-494).
THEOREM ThePastIsTold == Alerts!Spec => []AllTold
<1>1. FeedInv => AllTold
  BY DEF FeedInv, ToldBefore, Told, AllTold, Alerts!AllTold
<1>2. CauseInv /\ [Alerts!Next]_(Alerts!vars) => CauseInv'
  BY CauseInvStep DEF alertVars, Alerts!vars
<1>3. CauseInv /\ FeedInv /\ [Alerts!Next]_(Alerts!vars) => FeedInv'
  BY FeedInvStep DEF alertVars, Alerts!vars
<1> QED  BY <1>1, <1>2, <1>3, CauseInvInitially, FeedInvInitially, PTL DEF Alerts!Spec
=============================================================================
